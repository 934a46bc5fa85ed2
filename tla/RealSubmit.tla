----------------------------- MODULE RealSubmit -----------------------------
(***************************************************************************)
(* NodeClient::submit_real_transfer and its two stubs (src/client/mod.rs)  *)
(* over transaction::submit_real_transaction (src/client/transaction.rs):  *)
(* one payment, sent by a child process that signs and posts it, retried   *)
(* up to MaxRetries times, all under one timeout.  The nonce is the same   *)
(* in every attempt, so that every attempt posts the same transaction.     *)
(*                                                                         *)
(*   start    before the seed phrase is looked at                          *)
(*   attempt  at the head of the retry loop                                *)
(*   output   waiting for the child process to end                         *)
(*   pause    sleeping before the next attempt                             *)
(*   returned the call is over                                             *)
(***************************************************************************)
EXTENDS Naturals

CONSTANTS
    MaxRetries,     \* MAX_RETRIES (3)
    Nonces          \* the nonces the account may have on the node: 0 or more

ASSUME RetriesAssumption == MaxRetries \in Nat \ {0}
ASSUME NoncesAssumption == Nonces \subseteq Nat

VARIABLES
    pc,
    request,        \* what is called, and seed_phrase.is_some()
    retries,        \* retries
    result,         \* what the call returned
    child,          \* the child process: none, signing or posted
    reply,          \* the node's reply to it
    strays,         \* requests on their way whose child has ended
    nonce,          \* the nonce passed to the script
    nextNonce,      \* the account's next nonce on the node
    pooled,         \* nonces of the account's transactions in the node's pool
    landed,         \* history: payments of this call the node has accepted
    posts           \* history: times the transaction has reached the node

callVars == <<pc, request, retries, result, nonce>>
childVars == <<child, reply, strays>>
nodeVars == <<nextNonce, pooled, landed, posts>>
vars == <<callVars, childVars, nodeVars>>

Request == [kind : {"transfer", "erc20", "contract"}, seeded : BOOLEAN]

(* The calls for ERC20 transfers and contracts are stubs.                  *)
Served == request.kind = "transfer" /\ request.seeded

Init ==
    /\ pc = "start"
    /\ request \in Request
    /\ retries = 0
    /\ result = "none"
    /\ child = "none"
    /\ reply = "none"
    /\ strays = 0
    /\ nonce = 0
    /\ nextNonce \in Nonces
    /\ pooled \in {{}, {nextNonce}}
    /\ landed = 0
    /\ posts = 0

-----------------------------------------------------------------------------
(* The call.                                                               *)

Return(r) ==
    /\ pc' = "returned"
    /\ result' = r

Start ==
    /\ pc = "start"
    /\ IF Served
       THEN pc' = "attempt" /\ result' = result
       ELSE Return("error")
    /\ UNCHANGED <<request, retries, nonce, childVars, nodeVars>>

(* The retries are used up: the last error is returned.                    *)
GiveUp ==
    /\ pc = "attempt"
    /\ retries >= MaxRetries
    /\ Return("error")
    /\ UNCHANGED <<request, retries, nonce, childVars, nodeVars>>

(* MUTANT: the loop's bound is off by one.                                 *)
PauseOneMore ==
    /\ pc = "attempt"
    /\ retries \in 1 .. MaxRetries
    /\ pc' = "pause"
    /\ UNCHANGED <<request, retries, result, nonce, childVars, nodeVars>>

(* Every attempt but the first pauses before it starts the child.          *)
Pause ==
    /\ pc = "attempt"
    /\ retries \in 1 .. MaxRetries - 1
    /\ pc' = "pause"
    /\ UNCHANGED <<request, retries, result, nonce, childVars, nodeVars>>

Launch ==
    /\ \/ pc = "attempt" /\ retries = 0
       \/ pc = "pause"
    /\ child' = "signing"
    /\ reply' = "none"
    /\ pc' = "output"
    /\ UNCHANGED <<request, retries, result, nonce, strays, nodeVars>>

(* MUTANT: a retry signs with the next nonce.                              *)
NextAttemptNewNonce ==
    /\ pc' = "attempt"
    /\ retries' = retries + 1
    /\ nonce' = nonce + 1
    /\ result' = result

(* MUTANT: a retry is not counted.                                         *)
NextAttemptUncounted ==
    /\ pc' = "attempt"
    /\ retries' \in {retries, retries + 1}
    /\ UNCHANGED <<result, nonce>>

NextAttempt ==
    /\ pc' = "attempt"
    /\ retries' = retries + 1
    /\ UNCHANGED <<result, nonce>>

(* MUTANT: a nonce error is taken for the success of an earlier attempt.   *)
ReadOutputOptimistic ==
    /\ pc = "output"
    /\ child = "posted"
    /\ \/ reply \in {"hash", "nonce"} /\ Return("hash") /\ UNCHANGED <<retries, nonce>>
       \/ reply = "error" /\ NextAttempt
    /\ child' = "none"
    /\ reply' = "none"
    /\ UNCHANGED <<request, strays, nodeVars>>

(* The output is read: a hash is returned, a nonce error is returned at    *)
(* once, and any other error counts as a failed attempt.                   *)
ReadOutput ==
    /\ pc = "output"
    /\ child = "posted"
    /\ \/ reply = "hash" /\ Return("hash") /\ UNCHANGED <<retries, nonce>>
       \/ reply = "nonce" /\ Return("nonce") /\ UNCHANGED <<retries, nonce>>
       \/ reply = "error" /\ NextAttempt
    /\ child' = "none"
    /\ reply' = "none"
    /\ UNCHANGED <<request, strays, nodeVars>>

(* The child cannot be started, ends with an error before or after it has  *)
(* posted, or its output is not the expected JSON.  A connection that is   *)
(* cut ends the child while its request may still reach the node.          *)
OutputUnusable ==
    /\ pc = "output"
    /\ child' = "none"
    /\ reply' = "none"
    /\ strays' \in IF child = "signing" THEN {strays, strays + 1} ELSE {strays}
    /\ NextAttempt
    /\ UNCHANGED <<request, nodeVars>>

(* MUTANT: the timeout only covers the pauses between attempts.            *)
TimeoutBetweenAttempts ==
    /\ pc \in {"attempt", "pause"}
    /\ Return("timeout")
    /\ UNCHANGED <<request, retries, nonce, childVars, nodeVars>>

(* The timeout around the whole call fires.  The child is not killed.      *)
Timeout ==
    /\ pc \in {"attempt", "output", "pause"}
    /\ Return("timeout")
    /\ UNCHANGED <<request, retries, nonce, childVars, nodeVars>>

-----------------------------------------------------------------------------
(* The child and the node.                                                 *)

(* The node answers the transaction with r.  It accepts one per nonce: a   *)
(* nonce it has passed is too low, and one that is taken in the pool is    *)
(* refused as an underpriced replacement or as a transaction already known *)
Verdict(r) ==
    /\ posts' = posts + 1
    /\ IF nonce < nextNonce
       THEN r = "nonce" /\ UNCHANGED <<pooled, landed>>
       ELSE IF nonce \in pooled
       THEN r \in {"nonce", "error"} /\ UNCHANGED <<pooled, landed>>
       ELSE \/ r = "hash" /\ pooled' = pooled \cup {nonce} /\ landed' = landed + 1
            \/ r = "error" /\ UNCHANGED <<pooled, landed>>
    /\ UNCHANGED <<callVars, nextNonce>>

Reply == {"hash", "nonce", "error"}

(* The child posts the signed transaction, whether the call still waits    *)
(* for it or not.                                                          *)
Post ==
    /\ child = "signing"
    /\ child' = "posted"
    /\ reply' \in Reply
    /\ Verdict(reply')
    /\ UNCHANGED strays

(* A request reaches the node after its child has ended: nobody reads the  *)
(* answer.                                                                 *)
StrayPost ==
    /\ strays > 0
    /\ strays' = strays - 1
    /\ \E r \in Reply : Verdict(r)
    /\ UNCHANGED <<child, reply>>

(* The node includes the account's next transaction in a block.            *)
Mine ==
    /\ nextNonce \in pooled
    /\ pooled' = pooled \ {nextNonce}
    /\ nextNonce' = nextNonce + 1
    /\ UNCHANGED <<callVars, childVars, landed, posts>>

CallStep ==
    Start \/ GiveUp \/ Pause \/ Launch \/ ReadOutput \/ OutputUnusable \/ Timeout

Returned == pc = "returned" /\ UNCHANGED vars

Next == CallStep \/ Post \/ StrayPost \/ Mine \/ Returned

Spec == Init /\ [][Next]_vars

(* The call starts, and its timer fires in the end whatever the child and  *)
(* the node do: neither is assumed to make progress.                       *)
FairSpec == Spec /\ WF_vars(Start) /\ WF_vars(Timeout)

-----------------------------------------------------------------------------
(* Every variable keeps its type.                                          *)
TypeOK ==
    /\ pc \in {"start", "attempt", "output", "pause", "returned"}
    /\ request \in Request
    /\ retries \in 0 .. MaxRetries
    /\ result \in {"none", "hash", "nonce", "error", "timeout"}
    /\ child \in {"none", "signing", "posted"}
    /\ reply \in Reply \cup {"none"}
    /\ strays \in Nat
    /\ nonce \in Nat /\ nextNonce \in Nat
    /\ pooled \subseteq Nat
    /\ landed \in Nat /\ posts \in Nat

(* However many attempts, lost or late requests and abandoned children,    *)
(* the account pays once: all attempts carry one nonce.                    *)
PaidAtMostOnce == landed <= 1

(* No call posts more than MaxRetries times, an orphaned child included,   *)
(* and one that is a stub or has no seed phrase posts nothing.             *)
PostsBounded == posts <= IF Served THEN MaxRetries ELSE 0

-----------------------------------------------------------------------------
(* What a caller sees of it is one payment: made at most once, answered    *)
(* once, and before the answer if that is a hash.                          *)
OnePayment == INSTANCE Payment WITH
                  asked <- Served,
                  paid <- landed,
                  answer <- result

ImplementsPayment == OnePayment!Spec

(* The call returns: no child that hangs keeps it waiting for ever.        *)
CallReturns == <>(pc = "returned")
=============================================================================
