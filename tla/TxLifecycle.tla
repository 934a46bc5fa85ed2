----------------------------- MODULE TxLifecycle -----------------------------
(***************************************************************************)
(* What the benchmark's pipeline promises for each transaction, with       *)
(* neither channel, tasks, lock nor clock: an accepted transaction is      *)
(* announced once, tracked, resolved by one result, and that one result is *)
(* booked; until the tracker closes, none is forgotten.                    *)
(***************************************************************************)
EXTENDS Naturals, FiniteSets

CONSTANT Hash

VARIABLES
    phase,      \* where each transaction stands
    open,       \* the tracker still listens
    accepted,   \* transactions counted as submitted
    confirmed   \* transactions counted as confirmed

Phase == {"new", "announced", "tracked", "resolved", "booked"}

vars == <<phase, open, accepted, confirmed>>

In(p) == {h \in Hash : phase[h] = p}

Init ==
    /\ phase = [h \in Hash |-> "new"]
    /\ open = TRUE
    /\ accepted = 0
    /\ confirmed = 0

Accept(h) ==
    /\ phase[h] = "new"
    /\ phase' = [phase EXCEPT ![h] = "announced"]
    /\ accepted' = accepted + 1
    /\ UNCHANGED <<open, confirmed>>

Track(h) ==
    /\ open
    /\ phase[h] = "announced"
    /\ phase' = [phase EXCEPT ![h] = "tracked"]
    /\ UNCHANGED <<open, accepted, confirmed>>

(* One result at a time is resolved and then booked.                       *)
Resolve(h) ==
    /\ open
    /\ phase[h] = "tracked"
    /\ In("resolved") = {}
    /\ phase' = [phase EXCEPT ![h] = "resolved"]
    /\ UNCHANGED <<open, accepted, confirmed>>

Book(h) ==
    /\ phase[h] = "resolved"
    /\ phase' = [phase EXCEPT ![h] = "booked"]
    /\ confirmed' \in {confirmed, confirmed + 1}
    /\ UNCHANGED <<open, accepted>>

(* The tracker may only stop between two results.                          *)
Close ==
    /\ open
    /\ In("resolved") = {}
    /\ open' = FALSE
    /\ UNCHANGED <<phase, accepted, confirmed>>

Next ==
    \/ Close
    \/ \E h \in Hash : Accept(h) \/ Track(h) \/ Resolve(h) \/ Book(h)

Spec == Init /\ [][Next]_vars
=============================================================================
