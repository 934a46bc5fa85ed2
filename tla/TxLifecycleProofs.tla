-------------------------- MODULE TxLifecycleProofs --------------------------
(***************************************************************************)
(* What the lifecycle promises about its two counts, for any finite set of *)
(* transactions: each accepted one is counted once, and a confirmation     *)
(* belongs to a transaction that was booked.                               *)
(***************************************************************************)
EXTENDS TxLifecycle, FiniteSetTheorems, TLAPS

Accepted == Hash \ In("new")

Counts ==
    /\ phase \in [Hash -> Phase]
    /\ accepted \in Nat /\ accepted = Cardinality(Accepted)
    /\ confirmed \in Nat /\ confirmed <= Cardinality(In("booked"))

(* Taking one transaction from one phase to another moves it between the   *)
(* two sets and leaves every other set as it was.                          *)
LEMMA Moves ==
    ASSUME phase \in [Hash -> Phase], NEW h \in Hash, NEW p \in Phase,
           phase' = [phase EXCEPT ![h] = p], phase[h] # p
    PROVE  /\ phase' \in [Hash -> Phase]
           /\ In(p)' = In(p) \cup {h} /\ h \notin In(p)
           /\ \A q \in Phase \ {p, phase[h]} : In(q)' = In(q)
           /\ \A q \in Phase : q = phase[h] => In(q)' = In(q) \ {h}
BY DEF In

(* One element more makes a finite set larger by one.                      *)
LEMMA OneLarger ==
    ASSUME IsFiniteSet(Hash), NEW S \in SUBSET Hash, NEW h \in Hash, h \notin S
    PROVE  /\ Cardinality(S) \in Nat
           /\ Cardinality(S \cup {h}) = Cardinality(S) + 1
<1>1. IsFiniteSet(S) BY FS_Subset
<1>. QED BY <1>1, FS_CardinalityType, FS_AddElement

LEMMA CountsInit == ASSUME IsFiniteSet(Hash) PROVE Init => Counts
<1>. SUFFICES ASSUME Init PROVE Counts
  OBVIOUS
<1>1. Accepted = {} /\ In("booked") = {} BY DEF Init, In, Accepted
<1>2. Cardinality({}) = 0 BY FS_EmptySet
<1>. QED BY <1>1, <1>2 DEF Init, Counts, Phase

LEMMA CountsStep ==
    ASSUME IsFiniteSet(Hash), Counts, [Next]_vars
    PROVE  Counts'
<1>1. ASSUME UNCHANGED <<phase, accepted, confirmed>> PROVE Counts'
  BY <1>1 DEF Counts, Accepted, In
<1>2. ASSUME NEW h \in Hash, Accept(h) PROVE Counts'
  <2>1. /\ phase' = [phase EXCEPT ![h] = "announced"] /\ phase[h] = "new"
        /\ accepted' = accepted + 1 /\ confirmed' = confirmed
        /\ phase \in [Hash -> Phase]
    BY <1>2 DEF Accept, Counts
  <2>2. /\ phase' \in [Hash -> Phase] /\ In("booked")' = In("booked")
        /\ In("new")' = In("new") \ {h}
    BY <2>1, Moves DEF Phase
  <2>3. Accepted' = Accepted \cup {h} /\ h \notin Accepted /\ Accepted \in SUBSET Hash
    BY <2>1, <2>2 DEF Accepted, In
  <2>4. Cardinality(Accepted') = Cardinality(Accepted) + 1 BY <2>3, OneLarger
  <2>. QED BY <2>1, <2>2, <2>4 DEF Counts
<1>3. ASSUME NEW h \in Hash, NEW p \in {"tracked", "resolved"},
             phase[h] \in {"announced", "tracked"}, phase[h] # p,
             phase' = [phase EXCEPT ![h] = p], UNCHANGED <<accepted, confirmed>>
      PROVE  Counts'
  <2>1. /\ phase' \in [Hash -> Phase] /\ In("booked")' = In("booked")
        /\ In("new")' = In("new")
    BY <1>3, Moves DEF Phase, Counts
  <2>. QED BY <1>3, <2>1 DEF Counts, Accepted
<1>4. ASSUME NEW h \in Hash, Book(h) PROVE Counts'
  <2>1. /\ phase' = [phase EXCEPT ![h] = "booked"] /\ phase[h] = "resolved"
        /\ accepted' = accepted /\ confirmed' \in {confirmed, confirmed + 1}
        /\ phase \in [Hash -> Phase]
    BY <1>4 DEF Book, Counts
  <2>2. /\ phase' \in [Hash -> Phase] /\ In("new")' = In("new")
        /\ In("booked")' = In("booked") \cup {h} /\ h \notin In("booked")
    BY <2>1, Moves DEF Phase
  <2>3. In("booked") \in SUBSET Hash BY DEF In
  <2>4. Cardinality(In("booked")') = Cardinality(In("booked")) + 1
        /\ Cardinality(In("booked")) \in Nat
    BY <2>2, <2>3, OneLarger
  <2>. QED BY <2>1, <2>2, <2>4 DEF Counts, Accepted
<1>5. ASSUME NEW h \in Hash, Track(h) \/ Resolve(h) PROVE Counts'
  BY <1>3, <1>5 DEF Track, Resolve
<1>. QED BY <1>1, <1>2, <1>4, <1>5 DEF Next, Close, vars

(* Every accepted transaction is counted once as submitted, and there are  *)
(* never more confirmations than booked transactions.                      *)
THEOREM LifecycleCounts == ASSUME IsFiniteSet(Hash) PROVE Spec => []Counts
BY CountsInit, CountsStep, PTL DEF Spec
=============================================================================
