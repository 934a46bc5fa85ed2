----------------------------- MODULE ClientCalls -----------------------------
(***************************************************************************)
(* What a holder of a connected client may call besides submissions and    *)
(* status checks: NodeClient::get_chain_metadata and NodeClient::reconnect *)
(* (src/client/mod.rs) and MetricsCollector::collect_metrics               *)
(* (src/metrics/mod.rs).  The first and the last read several values, one  *)
(* request after the other.  Each of the two clients has a connection of   *)
(* its own.                                                                *)
(***************************************************************************)
EXTENDS Naturals, Sequences

CONSTANTS
    MaxReconnect,  \* MAX_RECONNECT_ATTEMPTS (5)
    MaxCalls       \* calls made: a bound of the model

ASSUME CallsAssumption ==
    /\ MaxReconnect \in Nat \ {0}
    /\ MaxCalls \in Nat

Client == {"node", "metrics"}   \* a NodeClient and a MetricsCollector

VARIABLES
    link,          \* the connection of each client: open or lost
    op,            \* the call under way, or the last one
    busy,          \* op is under way
    step,          \* its request that is out, or its attempt to reconnect
    value,         \* what it has read: nothing, a value or a default
    outcome,       \* how it ended
    calls          \* calls begun

callVars == <<op, busy, step, value, outcome, calls>>
vars == <<link, callVars>>

(* The requests of the two reading calls, and the values each one yields.  *)
MetadataRequests == <<"genesis", "runtime", "properties">>
MetricsRequests ==
    <<"peers", "pool", "health", "network", "header", "finalized">>
Requests(call) == IF call = "metadata" THEN MetadataRequests ELSE MetricsRequests

FieldsOf == [genesis |-> {"genesis_hash"},
             runtime |-> {"runtime_version", "tx_version"},
             properties |-> {"ss58_format", "token_decimals", "token_symbol"},
             peers |-> {"peer_count"},
             pool |-> {"tx_pool_size"},
             health |-> {"memory_usage", "cpu_usage"},
             network |-> {"network_tx", "network_rx"},
             header |-> {"block_height", "block_size"},
             finalized |-> {"time_to_finality"}]
Field == UNION {FieldsOf[r] : r \in DOMAIN FieldsOf}

(* Replies that are decoded into a type: another shape is an error.  From  *)
(* the others each value is picked, with a default where it is missing.    *)
Typed == {"genesis", "peers", "pool", "finalized"}

Nothing == [f \in Field |-> "unread"]

Init ==
    /\ link = [c \in Client |-> "open"]
    /\ op = "none" /\ busy = FALSE /\ step = 0
    /\ value = Nothing
    /\ outcome = "none"
    /\ calls = 0

Begin(call) ==
    /\ ~busy
    /\ calls < MaxCalls
    /\ op' = call /\ busy' = TRUE /\ step' = 1
    /\ value' = Nothing
    /\ outcome' = "none"
    /\ calls' = calls + 1
    /\ UNCHANGED link

Finish(result) == busy' = FALSE /\ outcome' = result

-----------------------------------------------------------------------------
Reading == busy /\ op \in {"metadata", "metrics"}
Request == Requests(op)[step]

Caller == IF op = "metrics" THEN "metrics" ELSE "node"

(* The values of the reply, defaults where they are missing.               *)
ReadValues(present) ==
    [f \in Field |-> IF f \in FieldsOf[Request]
                     THEN IF f \in present THEN "read" ELSE "default"
                     ELSE value[f]]

(* MUTANT: a request that fails is passed over.                            *)
RequestPassed ==
    /\ Reading
    /\ IF step = Len(Requests(op))
       THEN Finish("ok") /\ step' = step
       ELSE UNCHANGED <<busy, outcome>> /\ step' = step + 1
    /\ UNCHANGED <<link, op, value, calls>>

(* A reply comes; after the last one the call returns what it has read.    *)
Answered ==
    /\ Reading
    /\ link[Caller] = "open"
    /\ \E present \in SUBSET FieldsOf[Request] :
           /\ Request \in Typed => present = FieldsOf[Request]
           /\ value' = ReadValues(present)
    /\ IF step = Len(Requests(op))
       THEN Finish("ok") /\ step' = step
       ELSE UNCHANGED <<busy, outcome>> /\ step' = step + 1
    /\ UNCHANGED <<link, op, calls>>

(* The request fails, or its reply cannot be decoded: the call returns the *)
(* error, and what was read is dropped.                                    *)
RequestFails ==
    /\ Reading
    /\ Finish("error")
    /\ value' = Nothing
    /\ UNCHANGED <<link, op, step, calls>>

-----------------------------------------------------------------------------
Reconnecting == busy /\ op = "reconnect"

(* The endpoint answers.  The client is shared and cannot be replaced: the *)
(* new connection is dropped, and success is returned.                     *)
ReconnectAnswered ==
    /\ Reconnecting
    /\ Finish("ok")
    /\ UNCHANGED <<link, op, step, value, calls>>

(* MUTANT: after the last attempt the loop starts over.                    *)
ReconnectAgain ==
    /\ Reconnecting
    /\ step' = IF step < MaxReconnect THEN step + 1 ELSE 1
    /\ UNCHANGED <<link, op, busy, value, outcome, calls>>

(* MUTANT: the loop makes one attempt too many.                            *)
ReconnectOneMore ==
    /\ Reconnecting
    /\ IF step <= MaxReconnect
       THEN step' = step + 1 /\ UNCHANGED <<busy, outcome>>
       ELSE Finish("error") /\ step' = step
    /\ UNCHANGED <<link, op, value, calls>>

(* The endpoint does not answer: pause and try again, or give up.          *)
ReconnectFails ==
    /\ Reconnecting
    /\ IF step < MaxReconnect
       THEN step' = step + 1 /\ UNCHANGED <<busy, outcome>>
       ELSE Finish("error") /\ step' = step
    /\ UNCHANGED <<link, op, value, calls>>

-----------------------------------------------------------------------------
LoseLink(c) ==
    /\ link[c] = "open"
    /\ link' = [link EXCEPT ![c] = "lost"]
    /\ UNCHANGED callVars

CallStep == Answered \/ RequestFails \/ ReconnectAnswered \/ ReconnectFails

NoMoreCalls == ~busy /\ calls = MaxCalls /\ UNCHANGED vars

Next ==
    \/ \E call \in {"metadata", "metrics", "reconnect"} : Begin(call)
    \/ \E c \in Client : LoseLink(c)
    \/ CallStep \/ NoMoreCalls

Spec == Init /\ [][Next]_vars

(* A request is answered or fails: jsonrpsee gives up on one after a       *)
(* minute, and on a connection attempt after ten seconds.                  *)
FairSpec == Spec /\ WF_vars(CallStep)
-----------------------------------------------------------------------------
(* Every variable keeps its type.                                          *)
TypeOK ==
    /\ link \in [Client -> {"open", "lost"}]
    /\ op \in {"none", "metadata", "metrics", "reconnect"}
    /\ busy \in BOOLEAN
    /\ value \in [Field -> {"unread", "read", "default"}]
    /\ outcome \in {"none", "ok", "error"}
    /\ calls \in 0 .. MaxCalls
    /\ Reading => step \in DOMAIN Requests(op)
    /\ Reconnecting => step \in 1 .. MaxReconnect

(* A caller gets every value of the record or an error, never a part: when *)
(* a request fails, what the earlier ones have read is given up.           *)
CompleteOrError ==
    /\ outcome = "ok" /\ op \in {"metadata", "metrics"} =>
           \A i \in DOMAIN Requests(op) :
               \A f \in FieldsOf[Requests(op)[i]] : value[f] # "unread"
    /\ outcome = "error" => value = Nothing

(* Every call ends, whether the node answers, fails or is gone.            *)
CallEnds == busy ~> ~busy
=============================================================================
