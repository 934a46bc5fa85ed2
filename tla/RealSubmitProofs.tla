--------------------------- MODULE RealSubmitProofs ---------------------------
(***************************************************************************)
(* Theorems about RealSubmit, for every number of retries and every nonce  *)
(* the account may start with.                                             *)
(***************************************************************************)
EXTENDS RealSubmit, TLAPS

(* Every step of the specification, by name.                               *)
LEMMA StepCases ==
    ASSUME [Next]_vars
    PROVE  \/ Start \/ GiveUp \/ Pause \/ Launch \/ ReadOutput \/ OutputUnusable
           \/ Timeout \/ Post \/ StrayPost \/ Mine \/ UNCHANGED vars
BY DEF Next, CallStep, Returned

(* What the node does with a transaction.                                 *)
LEMMA VerdictFacts ==
    ASSUME NEW r, Verdict(r)
    PROVE  /\ UNCHANGED <<pc, request, retries, result, nonce, nextNonce>>
           /\ posts' = posts + 1
           /\ \/ /\ r = "hash" /\ ~(nonce < nextNonce) /\ nonce \notin pooled
                 /\ pooled' = pooled \cup {nonce} /\ landed' = landed + 1
              \/ r \in {"nonce", "error"} /\ UNCHANGED <<pooled, landed>>
BY DEF Verdict, callVars

LEMMA VerdictTypes ==
    ASSUME TypeOK, NEW r, Verdict(r)
    PROVE  pooled' \subseteq Nat /\ landed' \in Nat /\ posts' \in Nat
<1>1. pooled' \in {pooled, pooled \cup {nonce}} /\ landed' \in {landed, landed + 1}
      /\ posts' = posts + 1
  BY VerdictFacts
<1>. QED BY <1>1 DEF TypeOK

LEMMA TypeInit == Init => TypeOK
BY NoncesAssumption, RetriesAssumption DEF Init, TypeOK, Reply

(* Past the head of the loop there is an attempt left, which the increment *)
(* of retries needs: the bound is part of the induction.                   *)
AttemptLeft ==
    /\ pc = "start" => retries = 0
    /\ pc \in {"pause", "output"} => retries < MaxRetries

LEMMA TypeStep ==
    TypeOK /\ AttemptLeft /\ [Next]_vars => TypeOK' /\ AttemptLeft'
<1>. SUFFICES ASSUME TypeOK, AttemptLeft, [Next]_vars PROVE TypeOK' /\ AttemptLeft'
  OBVIOUS
<1>. USE RetriesAssumption DEF TypeOK, AttemptLeft, Reply, callVars, childVars, nodeVars
<1>1. CASE Start BY <1>1 DEF Start, Return
<1>2. CASE GiveUp \/ Timeout BY <1>2 DEF GiveUp, Timeout, Return
<1>3. CASE Pause BY <1>3 DEF Pause
<1>4. CASE Launch BY <1>4 DEF Launch
<1>5. CASE ReadOutput BY <1>5 DEF ReadOutput, Return, NextAttempt
<1>6. CASE OutputUnusable BY <1>6 DEF OutputUnusable, NextAttempt
<1>7. CASE Post
  <2>1. Verdict(reply') /\ reply' \in Reply /\ child' = "posted" /\ strays' = strays
    BY <1>7 DEF Post
  <2>. QED BY <2>1, VerdictFacts, VerdictTypes
<1>8. CASE StrayPost
  <2>1. PICK r \in Reply : Verdict(r) BY <1>8 DEF StrayPost
  <2>2. strays' \in Nat /\ UNCHANGED <<child, reply>> BY <1>8 DEF StrayPost
  <2>. QED BY <2>1, <2>2, VerdictFacts, VerdictTypes
<1>9. CASE Mine BY <1>9 DEF Mine
<1>10. CASE UNCHANGED vars BY <1>10 DEF vars
<1>. QED BY <1>1, <1>2, <1>3, <1>4, <1>5, <1>6, <1>7, <1>8, <1>9, <1>10, StepCases

LEMMA TypeInvariant == Spec => [](TypeOK /\ AttemptLeft)
<1>1. Init => AttemptLeft BY DEF Init, AttemptLeft
<1>. QED BY <1>1, TypeInit, TypeStep, PTL DEF Spec

(* Every reachable state is well typed; no attempt exceeds MAX_RETRIES.    *)
THEOREM RealSubmitTyped == Spec => []TypeOK
BY TypeInvariant, PTL

-----------------------------------------------------------------------------
(* The payment.  Once the node has accepted the call's transaction, its    *)
(* nonce stays taken, in the pool or in a block, a hash that is returned   *)
(* or about to be read comes from an acceptance, and a call that has not   *)
(* returned has no result.                                                 *)
Taken == nonce < nextNonce \/ nonce \in pooled

Paying ==
    /\ landed <= 1
    /\ landed >= 1 => Taken
    /\ reply = "hash" \/ result = "hash" => landed >= 1
    /\ pc # "returned" => result = "none"

LEMMA PayingInit == Init => Paying
BY DEF Init, Paying

LEMMA PayingStep == TypeOK /\ Paying /\ [Next]_vars => Paying'
<1>. SUFFICES ASSUME TypeOK, Paying, [Next]_vars PROVE Paying'
  OBVIOUS
<1>. USE DEF TypeOK, Paying, Taken, callVars, childVars, nodeVars
<1>1. CASE Start \/ GiveUp \/ Timeout
  BY <1>1 DEF Start, GiveUp, Timeout, Return
<1>2. CASE Pause \/ Launch BY <1>2 DEF Pause, Launch
<1>3. CASE ReadOutput BY <1>3 DEF ReadOutput, Return, NextAttempt
<1>4. CASE OutputUnusable BY <1>4 DEF OutputUnusable, NextAttempt
<1>5. ASSUME NEW r, Verdict(r), reply' \in {r, reply} PROVE Paying'
  BY <1>5, VerdictFacts
<1>6. CASE Post BY <1>5, <1>6 DEF Post
<1>7. CASE StrayPost BY <1>5, <1>7 DEF StrayPost
<1>8. CASE Mine BY <1>8 DEF Mine
<1>9. CASE UNCHANGED vars BY <1>9 DEF vars
<1>. QED BY <1>1, <1>2, <1>3, <1>4, <1>6, <1>7, <1>8, <1>9, StepCases

LEMMA PayingInvariant == Spec => []Paying
BY PayingInit, PayingStep, RealSubmitTyped, PTL DEF Spec

(* Whatever is lost, late, retried or left behind by the timeout, the      *)
(* account pays at most once: every attempt signs with one nonce.          *)
THEOREM PaysAtMostOnce == Spec => []PaidAtMostOnce
<1>1. Paying => PaidAtMostOnce BY DEF Paying, PaidAtMostOnce
<1>. QED BY <1>1, PayingInvariant, PTL

-----------------------------------------------------------------------------
(* The posts.  Each attempt starts one child, and a child makes one        *)
(* request; the timeout leaves a child that has yet to post, and a child   *)
(* that fails may leave its request on its way.                            *)
ToPost == (IF child = "signing" THEN 1 ELSE 0) + strays

Budget ==
    /\ pc \in {"start", "attempt", "pause"} => child = "none" /\ posts + ToPost <= retries
    /\ pc = "output" => posts + ToPost <= retries + 1
    /\ pc = "returned" => posts + ToPost <= MaxRetries
    /\ ~Served => /\ pc \in {"start", "returned"}
                  /\ child = "none" /\ strays = 0 /\ posts = 0

LEMMA BudgetInit == Init => Budget
BY DEF Init, Budget, ToPost

LEMMA BudgetStep ==
    TypeOK /\ AttemptLeft /\ Budget /\ [Next]_vars => Budget'
<1>. SUFFICES ASSUME TypeOK, AttemptLeft, Budget, [Next]_vars PROVE Budget'
  OBVIOUS
<1>. USE RetriesAssumption
     DEF TypeOK, AttemptLeft, Budget, ToPost, Served, callVars, childVars, nodeVars
<1>1. CASE Start BY <1>1 DEF Start, Return
<1>2. CASE GiveUp \/ Timeout BY <1>2 DEF GiveUp, Timeout, Return
<1>3. CASE Pause BY <1>3 DEF Pause
<1>4. CASE Launch BY <1>4 DEF Launch
<1>5. CASE ReadOutput BY <1>5 DEF ReadOutput, Return, NextAttempt
<1>6. CASE OutputUnusable
  <2>1. /\ pc = "output" /\ pc' = "attempt" /\ child' = "none"
        /\ retries' = retries + 1 /\ posts' = posts /\ request' = request
        /\ strays' = strays \/ (strays' = strays + 1 /\ child = "signing")
        /\ request.kind = "transfer" /\ request.seeded
    BY <1>6 DEF OutputUnusable, NextAttempt
  <2>2. posts' + ToPost' <= retries' BY <2>1
  <2>. QED BY <2>1, <2>2
<1>7. CASE Post
  <2>1. Verdict(reply') /\ child = "signing" /\ child' = "posted" /\ strays' = strays
    BY <1>7 DEF Post
  <2>. QED BY <2>1, VerdictFacts
<1>8. CASE StrayPost
  <2>1. PICK r \in Reply : Verdict(r) BY <1>8 DEF StrayPost
  <2>2. strays > 0 /\ strays' = strays - 1 /\ child' = child BY <1>8 DEF StrayPost
  <2>. QED BY <2>1, <2>2, VerdictFacts
<1>9. CASE Mine BY <1>9 DEF Mine
<1>10. CASE UNCHANGED vars BY <1>10 DEF vars
<1>. QED BY <1>1, <1>2, <1>3, <1>4, <1>5, <1>6, <1>7, <1>8, <1>9, <1>10, StepCases

LEMMA BudgetInvariant == Spec => []Budget
BY BudgetInit, BudgetStep, TypeInvariant, PTL DEF Spec

(* A call posts at most once per attempt, also after it has timed out, and *)
(* a stub or a call without a seed phrase posts nothing.                   *)
THEOREM PostsStayBounded == Spec => []PostsBounded
<1>1. TypeOK /\ AttemptLeft /\ Budget => PostsBounded
  BY RetriesAssumption DEF TypeOK, AttemptLeft, Budget, ToPost, PostsBounded
<1>. QED BY <1>1, BudgetInvariant, TypeInvariant, PTL

-----------------------------------------------------------------------------
(* The call as one payment.                                                *)

(* A step of the node that accepts the transaction is the payment, and any *)
(* other is nothing.                                                       *)
LEMMA VerdictPays ==
    ASSUME TypeOK, Paying, Served, NEW r, Verdict(r)
    PROVE  OnePayment!Pay \/ UNCHANGED OnePayment!vars
<1>1. Served' = Served BY VerdictFacts DEF Served
<1>2. landed' # landed => landed = 0 /\ landed' = 1
  BY VerdictFacts DEF TypeOK, Paying, Taken
<1>. QED BY <1>1, <1>2, VerdictFacts DEF OnePayment!Pay, OnePayment!vars

LEMMA PaymentStep ==
    ASSUME TypeOK, Paying, Budget, [Next]_vars
    PROVE  [OnePayment!Next]_(OnePayment!vars)
<1>. USE DEF callVars, childVars, nodeVars
<1>1. ASSUME UNCHANGED <<request, landed, result>> PROVE UNCHANGED OnePayment!vars
  BY <1>1 DEF OnePayment!vars, Served
<1>2. ASSUME UNCHANGED <<request, landed>>, result = "none",
             NEW a \in OnePayment!Answer, result' = a,
             a = "hash" => landed = 1, ~Served => a = "error"
      PROVE  OnePayment!Next
  <2>1. OnePayment!Tell(a) BY <1>2 DEF OnePayment!Tell, Served
  <2>. QED BY <2>1 DEF OnePayment!Next
<1>. USE DEF OnePayment!Answer
<1>3. CASE Start BY <1>1, <1>2, <1>3 DEF Start, Return, Paying
<1>4. CASE GiveUp BY <1>2, <1>4 DEF GiveUp, Return, Paying
<1>5. CASE Timeout BY <1>2, <1>5 DEF Timeout, Return, Paying, Budget
<1>6. CASE Pause \/ Launch \/ OutputUnusable \/ Mine
  BY <1>1, <1>6 DEF Pause, Launch, OutputUnusable, NextAttempt, Mine
<1>7. CASE ReadOutput
  <2>1. Served /\ result = "none" /\ UNCHANGED <<request, landed>>
        /\ (reply = "hash" => landed = 1)
    BY <1>7 DEF ReadOutput, Paying, Budget, TypeOK
  <2>. QED BY <1>1, <1>2, <1>7, <2>1 DEF ReadOutput, Return, NextAttempt
<1>8. CASE Post
  <2>1. Served BY <1>8 DEF Post, Budget
  <2>. QED BY <1>8, <2>1, VerdictPays DEF Post, OnePayment!Next
<1>9. CASE StrayPost
  <2>1. Served BY <1>9 DEF StrayPost, Budget
  <2>. QED BY <1>9, <2>1, VerdictPays DEF StrayPost, OnePayment!Next
<1>10. CASE UNCHANGED vars BY <1>1, <1>10 DEF vars
<1>. QED BY <1>3, <1>4, <1>5, <1>6, <1>7, <1>8, <1>9, <1>10, StepCases

(* Whatever happens between them, attempts, children and node together     *)
(* make one payment: at most one, one answer, no answer of success before  *)
(* the payment, and none at all from a stub or without a seed phrase.      *)
THEOREM RealSubmitImplementsPayment == Spec => ImplementsPayment
<1>1. Init => OnePayment!Init BY DEF Init, OnePayment!Init, Served, Request
<1>2. TypeOK /\ Paying /\ Budget /\ [Next]_vars => [OnePayment!Next]_(OnePayment!vars)
  BY PaymentStep
<1>. QED BY <1>1, <1>2, TypeInvariant, PayingInvariant, BudgetInvariant, PTL
     DEF Spec, ImplementsPayment, OnePayment!Spec
=============================================================================
