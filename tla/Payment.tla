------------------------------- MODULE Payment -------------------------------
(***************************************************************************)
(* What a call for one payment promises, with neither attempts, child      *)
(* processes, nonces nor a node: a payment that is asked for is made at    *)
(* most once, before or after the answer; there is one answer, and an      *)
(* answer of success follows the payment.                                  *)
(***************************************************************************)
EXTENDS Naturals

VARIABLES
    asked,      \* the call is one that pays
    paid,       \* payments made
    answer      \* what the caller was told

vars == <<asked, paid, answer>>

Answer == {"hash", "nonce", "error", "timeout"}

Init ==
    /\ asked \in BOOLEAN
    /\ paid = 0
    /\ answer = "none"

Pay ==
    /\ asked
    /\ paid = 0
    /\ paid' = 1
    /\ UNCHANGED <<asked, answer>>

(* A call that does not pay answers with an error.                         *)
Tell(a) ==
    /\ answer = "none"
    /\ a = "hash" => paid = 1
    /\ ~asked => a = "error"
    /\ answer' = a
    /\ UNCHANGED <<asked, paid>>

Next == Pay \/ \E a \in Answer : Tell(a)

Spec == Init /\ [][Next]_vars
=============================================================================
