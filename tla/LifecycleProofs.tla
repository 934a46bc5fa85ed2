--------------------------- MODULE LifecycleProofs ---------------------------
(***************************************************************************)
(* If no hash is repeated Benchmark implements TxLifecycle, for any value  *)
(* of its constants: each step of a task is a step of one transaction's    *)
(* lifecycle, the closing of the tracker, or nothing.                      *)
(***************************************************************************)
EXTENDS BenchmarkProofs

(* The phases of all transactions: the value of Lifecycle's phase.         *)
Phases == [h \in Hash |-> PhaseOf(h)]

(* A step that takes transaction h, and no other, to phase p.              *)
LEMMA OneMoves ==
    ASSUME NEW h \in Hash, NEW p,
           PhaseOf(h)' = p,
           \A g \in Hash \ {h} : PhaseOf(g)' = PhaseOf(g)
    PROVE  Phases' = [Phases EXCEPT ![h] = p]
<1>1. Phases' = [g \in Hash |-> PhaseOf(g)'] BY DEF Phases
<1>. QED BY <1>1 DEF Phases

LEMMA NoneMoves ==
    ASSUME \A g \in Hash : PhaseOf(g)' = PhaseOf(g)
    PROVE  Phases' = Phases
<1>1. Phases' = [g \in Hash |-> PhaseOf(g)'] BY DEF Phases
<1>. QED BY <1>1 DEF Phases

(* Nothing the phases are read off changes.                                *)
LEMMA SamePhases ==
    ASSUME UNCHANGED <<submittedAt, pending, settled, held>>,
           collPc' = "book" <=> collPc = "book"
    PROVE  Phases' = Phases
<1>1. \A g \in Hash : PhaseOf(g)' = PhaseOf(g) BY DEF PhaseOf, Stamped, Tracked
<1>. QED BY <1>1, NoneMoves

(* While no result is being booked, no transaction is resolved.            *)
LEMMA NoneResolved ==
    ASSUME collPc # "book"
    PROVE  Lifecycle!In("resolved") = {}
BY DEF Lifecycle!In, PhaseOf

LEMMA LifecycleInit == Init => Lifecycle!Init
<1>. SUFFICES ASSUME Init PROVE Lifecycle!Init
  OBVIOUS
<1>1. \A h \in Hash : PhaseOf(h) = "new" BY DEF Init, PhaseOf, Stamped
<1>2. ReceiverOpen = TRUE BY DEF Init, CollInit, ReceiverOpen
<1>. QED BY <1>1, <1>2 DEF Init, Lifecycle!Init

LEMMA LifecycleStep ==
    ASSUME Repeats = {}, TypeOK, HandOver, OneStory, [Next]_vars
    PROVE  [Lifecycle!Next]_(Lifecycle!vars)
<1>. DEFINE View == <<Phases, ReceiverOpen, submitted, confirmed>>
<1>0. Lifecycle!vars = View /\ Lifecycle!vars' = View' BY DEF Lifecycle!vars, Phases
<1>1. CASE Quiet
  BY <1>0, <1>1, SamePhases DEF Quiet, ReceiverOpen
<1>2. ASSUME UNCHANGED <<submittedAt, pending, settled, held, collPc, submitted, confirmed>>
      PROVE  UNCHANGED Lifecycle!vars
  BY <1>0, <1>2, SamePhases DEF ReceiverOpen
<1>3. ASSUME NEW h \in Hash, SubOk(h) PROVE Lifecycle!Accept(h)
  <2>1. UNCHANGED <<pending, settled, held, collPc, confirmed, ReceiverOpen>>
        /\ submitted' = submitted + 1
    BY <1>3 DEF SubOk, collVars, ReceiverOpen
  <2>2. Stamped' = Stamped \cup {h} /\ Tracked' = Tracked /\ h \notin Stamped
    BY <1>3, SubOkFacts
  <2>3. h \notin settled /\ h \notin Tracked /\ (collPc = "book" => held.hash # h)
    BY <2>2 DEF HandOver
  <2>4. PhaseOf(h) = "new" BY <2>2 DEF PhaseOf
  <2>5. PhaseOf(h)' = "announced" BY <2>1, <2>2, <2>3 DEF PhaseOf
  <2>6. \A g \in Hash \ {h} : PhaseOf(g)' = PhaseOf(g) BY <2>1, <2>2 DEF PhaseOf
  <2>7. Phases' = [Phases EXCEPT ![h] = "announced"] BY <2>5, <2>6, OneMoves
  <2>. QED BY <2>1, <2>4, <2>7 DEF Lifecycle!Accept, Phases
<1>4. CASE CollExit \/ CollGiveUp
  <2>1. /\ UNCHANGED <<submittedAt, pending, settled, held, submitted, confirmed>>
        /\ collPc = "top" /\ collPc' = "exit"
    BY <1>4 DEF CollExit, CollGiveUp, CloseReceiver, stats
  <2>2. Phases' = Phases BY <2>1, SamePhases
  <2>3. ReceiverOpen = TRUE /\ ReceiverOpen' = FALSE BY <2>1 DEF ReceiverOpen
  <2>4. Lifecycle!Close
    BY <2>1, <2>2, <2>3, NoneResolved DEF Lifecycle!Close, Phases
  <2>. QED BY <2>4 DEF Lifecycle!Next
<1>5. CASE CollTrack
  <2>0. PICK h \in Hash : h = Head(queue).hash BY <1>5, TrackFacts
  <2>1. UNCHANGED <<settled, held, submitted, confirmed>> /\ collPc = "recv" /\ collPc' = "scan"
    BY <1>5 DEF CollTrack, stats
  <2>2. /\ h \in Hash /\ Tracked' = Tracked \cup {h} /\ Stamped' = Stamped
        /\ ReceiverOpen /\ ReceiverOpen'
    BY <1>5, <2>0, TrackFacts
  <2>3. 1 \in DOMAIN queue /\ queue[1] = Head(queue) /\ queue[1].kind = "Submitted"
    BY <1>5, TrackFacts, ReceiveFacts DEF TypeOK
  <2>4. h \in Stamped /\ h \notin settled /\ h \notin Tracked
    BY <2>0, <2>3 DEF HandOver, OneStory, Alone, Fresh
  <2>5. PhaseOf(h) = "announced" /\ PhaseOf(h)' = "tracked"
    BY <2>1, <2>2, <2>4 DEF PhaseOf
  <2>6. \A g \in Hash \ {h} : PhaseOf(g)' = PhaseOf(g) BY <2>1, <2>2 DEF PhaseOf
  <2>7. Phases' = [Phases EXCEPT ![h] = "tracked"] BY <2>2, <2>5, <2>6, OneMoves
  <2>8. Lifecycle!Track(h)
    BY <2>1, <2>2, <2>5, <2>7 DEF Lifecycle!Track, Phases, ReceiverOpen
  <2>. QED BY <2>2, <2>8 DEF Lifecycle!Next
<1>6. CASE CollSettle
  <2>0. PICK h \in Hash : h = Head(queue).hash
    BY <1>6, SettleFacts DEF Tracked
  <2>1. UNCHANGED <<submitted, confirmed>> /\ collPc = "recv" /\ collPc' = "book"
    BY <1>6 DEF CollSettle, stats
  <2>2. /\ h \in Tracked /\ h \in Hash /\ Tracked' = Tracked \ {h} /\ Stamped' = Stamped
        /\ settled' = settled \cup {h} /\ held'.hash = h
        /\ ReceiverOpen /\ ReceiverOpen'
    BY <1>6, <2>0, SettleFacts
  <2>3. h \in Stamped /\ h \notin settled BY <2>2 DEF HandOver, OneStory
  <2>4. PhaseOf(h) = "tracked" /\ PhaseOf(h)' = "resolved"
    BY <2>1, <2>2, <2>3 DEF PhaseOf
  <2>5. \A g \in Hash \ {h} : PhaseOf(g)' = PhaseOf(g) BY <2>1, <2>2 DEF PhaseOf
  <2>6. Phases' = [Phases EXCEPT ![h] = "resolved"] BY <2>2, <2>4, <2>5, OneMoves
  <2>7. Lifecycle!Resolve(h)
    BY <2>1, <2>2, <2>4, <2>6, NoneResolved
       DEF Lifecycle!Resolve, Phases, ReceiverOpen
  <2>. QED BY <2>2, <2>7 DEF Lifecycle!Next
<1>7. CASE CollIgnore \/ CollScan
  <2>1. /\ UNCHANGED <<submittedAt, pending, settled, held, submitted, confirmed>>
        /\ collPc \in {"recv", "scan"} /\ collPc' \in {"scan", "dispatch"}
    BY <1>7 DEF CollIgnore, CollScan, stats
  <2>. QED BY <1>0, <2>1, SamePhases DEF ReceiverOpen
<1>8. CASE CollBook
  <2>1. /\ UNCHANGED <<submittedAt, pending, settled, submitted>>
        /\ collPc = "book" /\ collPc' = "scan" /\ confirmed' \in {confirmed, confirmed + 1}
    BY <1>8 DEF CollBook, One, TypeOK
  <2>2. PICK h \in Hash : h = held.hash /\ h \in settled /\ h \in Stamped
    BY <2>1 DEF HandOver, Stamped
  <2>3. Stamped' = Stamped /\ Tracked' = Tracked BY <2>1 DEF Stamped, Tracked
  <2>4. PhaseOf(h) = "resolved" /\ PhaseOf(h)' = "booked"
    BY <2>1, <2>2, <2>3 DEF PhaseOf
  <2>5. \A g \in Hash \ {h} : PhaseOf(g)' = PhaseOf(g)
    BY <2>1, <2>2, <2>3 DEF PhaseOf
  <2>6. Phases' = [Phases EXCEPT ![h] = "booked"] BY <2>4, <2>5, OneMoves
  <2>7. Lifecycle!Book(h)
    BY <2>1, <2>2, <2>4, <2>6 DEF Lifecycle!Book, Phases, ReceiverOpen
  <2>. QED BY <2>7 DEF Lifecycle!Next
<1>9. ASSUME NEW h \in Hash, NEW k \in ResultKind,
             CheckAnswered(h, k) \/ (k = "TimedOut" /\ ExpirySend(h))
      PROVE  UNCHANGED Lifecycle!vars
  BY <1>2, <1>9, AnswerFacts
<1>. QED BY <1>1, <1>2, <1>3, <1>4, <1>5, <1>6, <1>7, <1>8, <1>9, StepCases
     DEF Tick, CollExpire, CollSpawn, CheckPending, stats, subVars, collVars,
         Lifecycle!Next

(* Every run of the benchmark with distinct hashes is a run of the         *)
(* abstract lifecycle: each transaction is announced, tracked, resolved    *)
(* and booked in this order and at most once, and none after the close.    *)
THEOREM BenchmarkImplementsLifecycle ==
    ASSUME Repeats = {}
    PROVE  Spec => ImplementsLifecycle
<1>1. TypeOK /\ HandOver /\ OneStory /\ [Next]_vars => [Lifecycle!Next]_(Lifecycle!vars)
  BY LifecycleStep
<1>. QED BY <1>1, LifecycleInit, TypeCorrect, HandOverInvariant, OneStoryInvariant,
            PTL DEF Spec, ImplementsLifecycle, Lifecycle!Spec

-----------------------------------------------------------------------------
(* What was proved of the abstract lifecycle holds of the benchmark too.   *)
Counting == INSTANCE TxLifecycleProofs WITH
                phase <- [h \in Hash |-> PhaseOf(h)],
                open <- ReceiverOpen,
                accepted <- submitted,
                confirmed <- confirmed

Booked == {h \in Hash : PhaseOf(h) = "booked"}

(* The report's submissions are the distinct transactions the node         *)
(* accepted, and its confirmations are no more than the transactions whose *)
(* one result was booked, whatever the spawned checks answer and however   *)
(* often: proved of the lifecycle and carried over by the refinement.      *)
THEOREM CountsAreTransactions ==
    ASSUME Repeats = {}
    PROVE  Spec => [](submitted = Cardinality(Stamped) /\ confirmed <= Cardinality(Booked))
<1>1. Counting!IsFiniteSet(Hash)
  BY HashAssumption DEF IsFiniteSet, Counting!IsFiniteSet
<1>2. ASSUME NEW S PROVE Counting!Cardinality(S) = Cardinality(S)
  BY DEF Cardinality, Counting!Cardinality
<1>3. Lifecycle!Init => Counting!Counts
  <2>1. Lifecycle!Init => Counting!Init BY DEF Lifecycle!Init, Counting!Init
  <2>. QED BY <1>1, <2>1, Counting!CountsInit
<1>4. Counting!Counts /\ [Lifecycle!Next]_(Lifecycle!vars) => Counting!Counts'
  <2>1. [Lifecycle!Next]_(Lifecycle!vars) => [Counting!Next]_(Counting!vars)
    BY DEF Lifecycle!Next, Lifecycle!Accept, Lifecycle!Track, Lifecycle!Resolve,
           Lifecycle!Book, Lifecycle!Close, Lifecycle!In, Lifecycle!vars,
           Counting!Next, Counting!Accept, Counting!Track, Counting!Resolve,
           Counting!Book, Counting!Close, Counting!In, Counting!vars
  <2>. QED BY <1>1, <2>1, Counting!CountsStep
<1>5. Counting!Counts => submitted = Cardinality(Stamped) /\ confirmed <= Cardinality(Booked)
  BY <1>2 DEF Counting!Counts, Counting!Accepted, Counting!In, Booked, Stamped, PhaseOf
<1>. QED BY <1>3, <1>4, <1>5, BenchmarkImplementsLifecycle, PTL
     DEF ImplementsLifecycle, Lifecycle!Spec
=============================================================================
