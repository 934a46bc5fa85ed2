-------------------------- MODULE ClientCallsProofs --------------------------
(***************************************************************************)
(* Theorems about ClientCalls, for any number of calls and of attempts to  *)
(* reconnect.                                                              *)
(***************************************************************************)
EXTENDS ClientCalls, Integers, TLAPS

LEMMA StepCases ==
    ASSUME [Next]_vars
    PROVE  \/ \E call \in {"metadata", "metrics", "reconnect"} : Begin(call)
           \/ Answered \/ RequestFails \/ ReconnectAnswered \/ ReconnectFails
           \/ \E c \in Client : LoseLink(c)
           \/ UNCHANGED vars
BY DEF Next, CallStep, NoMoreCalls

(* The requests of a reading call, and that no two of them yield the same  *)
(* field.                                                                  *)
Fields(call, i) == FieldsOf[Requests(call)[i]]
LastOf(call) == Len(Requests(call))

LEMMA MetadataFields ==
    /\ LastOf("metadata") = 3
    /\ Fields("metadata", 1) = {"genesis_hash"}
    /\ Fields("metadata", 2) = {"runtime_version", "tx_version"}
    /\ Fields("metadata", 3) = {"ss58_format", "token_decimals", "token_symbol"}
BY DEF LastOf, Fields, Requests, MetadataRequests, FieldsOf

LEMMA MetricsFields ==
    /\ LastOf("metrics") = 6
    /\ Fields("metrics", 1) = {"peer_count"}
    /\ Fields("metrics", 2) = {"tx_pool_size"}
    /\ Fields("metrics", 3) = {"memory_usage", "cpu_usage"}
    /\ Fields("metrics", 4) = {"network_tx", "network_rx"}
    /\ Fields("metrics", 5) = {"block_height", "block_size"}
    /\ Fields("metrics", 6) = {"time_to_finality"}
BY DEF LastOf, Fields, Requests, MetricsRequests, FieldsOf

LEMMA FieldFacts ==
    ASSUME NEW call \in {"metadata", "metrics"}
    PROVE  /\ LastOf(call) \in Nat /\ DOMAIN Requests(call) = 1 .. LastOf(call)
           /\ \A i \in 1 .. LastOf(call) : Fields(call, i) \subseteq Field
           /\ \A i, j \in 1 .. LastOf(call) :
                  i # j => Fields(call, i) \cap Fields(call, j) = {}
<1>1. DOMAIN Requests(call) = 1 .. LastOf(call)
  <2>1. CASE call = "metadata"
    <3>1. Requests(call) = MetadataRequests BY <2>1 DEF Requests
    <3>2. DOMAIN MetadataRequests = 1 .. 3 BY DEF MetadataRequests
    <3>. QED BY <2>1, <3>1, <3>2, MetadataFields
  <2>2. CASE call = "metrics"
    <3>1. Requests(call) = MetricsRequests BY <2>2 DEF Requests
    <3>2. DOMAIN MetricsRequests = 1 .. 6 BY DEF MetricsRequests
    <3>. QED BY <2>2, <3>1, <3>2, MetricsFields
  <2>. QED BY <2>1, <2>2
<1>2. ASSUME NEW i \in 1 .. LastOf(call) PROVE Fields(call, i) \subseteq Field
  <2>1. Requests(call)[i] \in DOMAIN FieldsOf
    BY <1>2, MetadataFields, MetricsFields
       DEF Requests, MetadataRequests, MetricsRequests, FieldsOf
  <2>. QED BY <2>1 DEF Fields, Field
<1>3. CASE call = "metadata" BY <1>1, <1>2, <1>3, MetadataFields
<1>4. CASE call = "metrics"
  <2>1. LastOf(call) = 6 BY <1>4, MetricsFields
  <2>2. ASSUME NEW i \in 1 .. 6, NEW j \in 1 .. 6, i # j
        PROVE  Fields(call, i) \cap Fields(call, j) = {}
    <3>1. CASE i = 1 BY <1>4, <2>2, <3>1, MetricsFields
    <3>2. CASE i = 2 BY <1>4, <2>2, <3>2, MetricsFields
    <3>3. CASE i = 3 BY <1>4, <2>2, <3>3, MetricsFields
    <3>4. CASE i = 4 BY <1>4, <2>2, <3>4, MetricsFields
    <3>5. CASE i = 5 BY <1>4, <2>2, <3>5, MetricsFields
    <3>6. CASE i = 6 BY <1>4, <2>2, <3>6, MetricsFields
    <3>. QED BY <3>1, <3>2, <3>3, <3>4, <3>5, <3>6
  <2>. QED BY <1>1, <1>2, <2>1, <2>2
<1>. QED BY <1>3, <1>4

-----------------------------------------------------------------------------
(* What an answered request changes: the fields of the reply are read, and *)
(* the call goes on or is complete.                                        *)
LEMMA AnsweredFacts ==
    ASSUME TypeOK, Answered
    PROVE  /\ op \in {"metadata", "metrics"} /\ busy
           /\ step \in 1 .. LastOf(op)
           /\ \A f \in Fields(op, step) : value'[f] # "unread"
           /\ \A f \in Field \ Fields(op, step) : value'[f] = value[f]
           /\ value' \in [Field -> {"unread", "read", "default"}]
           /\ \/ /\ step = LastOf(op) /\ step' = step
                 /\ busy' = FALSE /\ outcome' = "ok"
              \/ /\ step < LastOf(op) /\ step' = step + 1
                 /\ UNCHANGED <<busy, outcome>>
           /\ UNCHANGED <<link, op, calls>>
<1>1. op \in {"metadata", "metrics"} /\ busy /\ step \in 1 .. LastOf(op)
  BY FieldFacts DEF Answered, Reading, TypeOK
<1>2. Fields(op, step) \subseteq Field /\ FieldsOf[Request] = Fields(op, step)
  BY <1>1, FieldFacts DEF Fields, Request
<1>3. PICK present : value' = ReadValues(present) BY DEF Answered
<1>4. value' = [f \in Field |-> IF f \in Fields(op, step)
                                THEN IF f \in present THEN "read" ELSE "default"
                                ELSE value[f]]
  BY <1>2, <1>3 DEF ReadValues
<1>5. value' \in [Field -> {"unread", "read", "default"}]
  BY <1>4 DEF TypeOK
<1>6. /\ \A f \in Fields(op, step) : value'[f] # "unread"
      /\ \A f \in Field \ Fields(op, step) : value'[f] = value[f]
  BY <1>2, <1>4
<1>7. /\ \/ /\ step = LastOf(op) /\ step' = step
            /\ busy' = FALSE /\ outcome' = "ok"
         \/ /\ step # LastOf(op) /\ step' = step + 1
            /\ UNCHANGED <<busy, outcome>>
      /\ UNCHANGED <<link, op, calls>>
  BY DEF Answered, Finish, LastOf
<1>8. LastOf(op) \in Nat BY <1>1, FieldFacts
<1>9. step # LastOf(op) => step < LastOf(op) BY <1>1, <1>8
<1>. QED BY <1>1, <1>5, <1>6, <1>7, <1>9

LEMMA TypeInit == Init => TypeOK
<1>. SUFFICES ASSUME Init PROVE TypeOK
  OBVIOUS
<1>1. value \in [Field -> {"unread", "read", "default"}] BY DEF Init, Nothing
<1>2. link \in [Client -> {"open", "lost"}] BY DEF Init
<1>3. calls \in 0 .. MaxCalls BY CallsAssumption DEF Init
<1>4. ~Reading /\ ~Reconnecting BY DEF Init, Reading, Reconnecting
<1>. QED BY <1>1, <1>2, <1>3, <1>4 DEF Init, TypeOK

LEMMA TypeStep == TypeOK /\ [Next]_vars => TypeOK'
<1>. SUFFICES ASSUME TypeOK, [Next]_vars PROVE TypeOK'
  OBVIOUS
<1>. USE CallsAssumption DEF TypeOK, callVars, Finish
<1>1. ASSUME NEW call \in {"metadata", "metrics", "reconnect"}, Begin(call)
      PROVE  TypeOK'
  <2>1. call \in {"metadata", "metrics"} => 1 \in DOMAIN Requests(call)
    BY FieldFacts, MetadataFields, MetricsFields
  <2>2. value' \in [Field -> {"unread", "read", "default"}] BY <1>1 DEF Begin, Nothing
  <2>. QED BY <1>1, <2>1, <2>2 DEF Begin, Reading, Reconnecting
<1>2. CASE Answered
  <2>1. step' \in DOMAIN Requests(op)
    <3>1. /\ step \in 1 .. LastOf(op)
          /\ step' = step \/ (step < LastOf(op) /\ step' = step + 1)
      BY <1>2, AnsweredFacts
    <3>2. LastOf(op) \in Nat /\ DOMAIN Requests(op) = 1 .. LastOf(op)
      BY <1>2, AnsweredFacts, FieldFacts
    <3>. QED BY <3>1, <3>2
  <2>2. /\ op \in {"metadata", "metrics"} /\ UNCHANGED <<link, op, calls>>
        /\ value' \in [Field -> {"unread", "read", "default"}]
        /\ busy' \in BOOLEAN /\ outcome' \in {"none", "ok", "error"}
    BY <1>2, AnsweredFacts
  <2>. QED BY <2>1, <2>2 DEF Reading, Reconnecting
<1>3. CASE RequestFails
  <2>1. value' \in [Field -> {"unread", "read", "default"}]
    BY <1>3 DEF RequestFails, Nothing
  <2>. QED BY <1>3, <2>1 DEF RequestFails, Reading, Reconnecting
<1>4. CASE ReconnectAnswered BY <1>4 DEF ReconnectAnswered, Reading, Reconnecting
<1>5. CASE ReconnectFails
  <2>1. op = "reconnect" /\ step \in 1 .. MaxReconnect
    BY <1>5 DEF ReconnectFails, Reconnecting
  <2>2. step' \in 1 .. MaxReconnect BY <1>5, <2>1 DEF ReconnectFails
  <2>3. /\ busy' \in BOOLEAN /\ outcome' \in {"none", "ok", "error"}
        /\ UNCHANGED <<link, op, value, calls>>
    BY <1>5 DEF ReconnectFails
  <2>4. ~Reading' BY <2>1, <2>3 DEF Reading
  <2>. QED BY <2>2, <2>3, <2>4 DEF Reconnecting
<1>6. ASSUME NEW c \in Client, LoseLink(c) PROVE TypeOK'
  <2>1. link' \in [Client -> {"open", "lost"}] BY <1>6 DEF LoseLink
  <2>. QED BY <1>6, <2>1 DEF LoseLink, Reading, Reconnecting
<1>7. CASE UNCHANGED vars BY <1>7 DEF vars, Reading, Reconnecting
<1>. QED BY <1>1, <1>2, <1>3, <1>4, <1>5, <1>6, <1>7, StepCases

(* Every reachable state is well typed: no request past the last one of    *)
(* its call is made, and no attempt past MAX_RECONNECT_ATTEMPTS.           *)
THEOREM ClientCallsTyped == Spec => []TypeOK
<1>. QED BY TypeInit, TypeStep, PTL DEF Spec

-----------------------------------------------------------------------------
(* The readings.  The fields of the requests that were answered are read,  *)
(* those of the others are not.                                            *)
ReadCall == op \in {"metadata", "metrics"}

Readings ==
    /\ busy => outcome = "none"
    /\ ~ReadCall => value = Nothing
    /\ ReadCall /\ busy =>
           \A i \in 1 .. LastOf(op) : \A f \in Fields(op, i) :
               i < step => value[f] # "unread"
    /\ ReadCall /\ ~busy /\ outcome = "ok" =>
           \A i \in 1 .. LastOf(op) : \A f \in Fields(op, i) : value[f] # "unread"
    /\ outcome = "error" => value = Nothing

LEMMA ReadingsStep == TypeOK /\ Readings /\ [Next]_vars => Readings'
<1>. SUFFICES ASSUME TypeOK, Readings, [Next]_vars PROVE Readings'
  OBVIOUS
<1>. USE DEF Readings, ReadCall, callVars, Finish
<1>1. ASSUME NEW call \in {"metadata", "metrics", "reconnect"}, Begin(call)
      PROVE  Readings'
  <2>1. /\ op' = call /\ busy' = TRUE /\ step' = 1 /\ outcome' = "none"
        /\ value' = Nothing'
    BY <1>1 DEF Begin, Nothing
  <2>2. ReadCall' => \A i \in 1 .. LastOf(call) : ~(i < 1)
    BY <2>1, FieldFacts
  <2>. QED BY <2>1, <2>2 DEF Fields, LastOf
<1>2. CASE Answered
  <2>0. /\ UNCHANGED op /\ ReadCall /\ busy
        /\ step \in 1 .. LastOf(op) /\ LastOf(op) \in Nat
    BY <1>2, AnsweredFacts, FieldFacts
  <2>1. /\ \/ step = LastOf(op) /\ step' = step /\ busy' = FALSE /\ outcome' = "ok"
           \/ step' = step + 1 /\ UNCHANGED <<busy, outcome>>
    BY <1>2, AnsweredFacts
  <2>2. ASSUME NEW i \in 1 .. LastOf(op), NEW f \in Fields(op, i), i <= step
        PROVE  value'[f] # "unread"
    <3>1. CASE f \in Fields(op, step) BY <1>2, <3>1, AnsweredFacts
    <3>2. CASE f \notin Fields(op, step)
      <4>1. i < step BY <2>0, <2>2, <3>2
      <4>2. value[f] # "unread" BY <2>0, <2>2, <4>1
      <4>3. f \in Field BY <2>0, FieldFacts
      <4>. QED BY <1>2, <3>2, <4>2, <4>3, AnsweredFacts
    <3>. QED BY <3>1, <3>2
  <2>3. ASSUME busy', NEW i \in 1 .. LastOf(op), NEW f \in Fields(op, i), i < step'
        PROVE  value'[f] # "unread"
    <3>1. i <= step BY <2>0, <2>1, <2>3
    <3>. QED BY <2>2, <3>1
  <2>4. ASSUME ~busy', NEW i \in 1 .. LastOf(op), NEW f \in Fields(op, i)
        PROVE  value'[f] # "unread"
    <3>1. step = LastOf(op)
      <4>1. CASE UNCHANGED <<busy, outcome>> BY <2>0, <2>4, <4>1
      <4>. QED BY <2>1, <4>1
    <3>2. i <= step BY <2>0, <3>1
    <3>. QED BY <2>2, <3>2
  <2>5. outcome' # "error" /\ (busy' => outcome' = "none") BY <2>0, <2>1
  <2>. QED BY <2>0, <2>3, <2>4, <2>5 DEF Fields, LastOf
<1>3. CASE RequestFails
  <2>1. /\ busy' = FALSE /\ outcome' = "error" /\ value' = Nothing'
        /\ op' = op /\ ReadCall
    BY <1>3 DEF RequestFails, Reading, Nothing
  <2>. QED BY <2>1
<1>4. ASSUME UNCHANGED <<op, busy, step, value, outcome>> PROVE Readings'
  BY <1>4 DEF Fields, LastOf, Nothing
<1>5. CASE ReconnectAnswered \/ ReconnectFails
  <2>1. /\ op = "reconnect" /\ busy
        /\ UNCHANGED <<op, value>> /\ Nothing' = Nothing
        /\ \/ busy' = FALSE \/ UNCHANGED <<busy, outcome>>
    BY <1>5 DEF ReconnectAnswered, ReconnectFails, Reconnecting, Nothing
  <2>. QED BY <2>1
<1>6. ASSUME NEW c \in Client, LoseLink(c) PROVE Readings'
  BY <1>4, <1>6 DEF LoseLink
<1>7. CASE UNCHANGED vars BY <1>4, <1>7 DEF vars
<1>. QED BY <1>1, <1>2, <1>3, <1>5, <1>6, <1>7, StepCases

LEMMA ReadingsInvariant == Spec => []Readings
<1>1. Init => Readings BY DEF Init, Readings, ReadCall
<1>. QED BY <1>1, ReadingsStep, ClientCallsTyped, PTL DEF Spec

(* A reading call returns every value of its record, or an error and       *)
(* nothing.                                                                *)
THEOREM RecordsAreComplete == Spec => []CompleteOrError
<1>1. TypeOK /\ Readings => CompleteOrError
  BY FieldFacts DEF TypeOK, Readings, ReadCall, CompleteOrError, Fields
<1>. QED BY <1>1, ReadingsInvariant, ClientCallsTyped, PTL
=============================================================================
