------------------------ MODULE BenchmarkCountProofs ------------------------
(***************************************************************************)
(* Theorems about the counts, the limits, the report and the hang of       *)
(* Benchmark, for every value of its constants.  They rest on the          *)
(* hand-over invariants proved in BenchmarkProofs.                         *)
(***************************************************************************)
EXTENDS BenchmarkProofs

(* How one more hash changes the size of a set of hashes.                  *)
LEMMA OneMore ==
    ASSUME NEW S \in SUBSET Hash, NEW h \in Hash
    PROVE  /\ Cardinality(S) \in Nat /\ Cardinality(S \cup {h}) \in Nat
           /\ Cardinality(S \cup {h}) <= Cardinality(S) + 1
           /\ h \notin S => Cardinality(S \cup {h}) = Cardinality(S) + 1
           /\ h \in S => Cardinality(S \ {h}) = Cardinality(S) - 1
           /\ h \notin S => Cardinality(S \ {h}) = Cardinality(S)
<1>1. IsFiniteSet(S) /\ Cardinality(S) \in Nat BY HashSets
<1>2. S \cup {h} \in SUBSET Hash OBVIOUS
<1>3. Cardinality(S \cup {h}) \in Nat BY <1>2, HashSets
<1>. QED BY <1>1, <1>3, FS_AddElement, FS_RemoveElement

-----------------------------------------------------------------------------
(* The limit on submissions.  Past the test of the limit the submitter is  *)
(* below it, and when no hash is repeated in_flight counts submissions.    *)
Capped ==
    /\ Cardinality(inFlight) <= MaxInFlight
    /\ subPc \in {"pace", "call"} => Cardinality(inFlight) < MaxInFlight
    /\ inFlight = Stamped
    /\ Repeats = {} => submitted = Cardinality(inFlight)

LEMMA CappedInit == Init => Capped
<1>. SUFFICES ASSUME Init PROVE Capped
  OBVIOUS
<1>1. inFlight = {} /\ Cardinality(inFlight) = 0
  BY FS_EmptySet DEF Init, SubInit
<1>. QED BY <1>1, SizeAssumption DEF Init, SubInit, Stamped, Capped

LEMMA CappedStep == TypeOK /\ Capped /\ [Next]_vars => Capped'
<1>. SUFFICES ASSUME TypeOK, Capped, [Next]_vars PROVE Capped'
  OBVIOUS
<1>. USE DEF Capped
<1>1. CASE Quiet BY <1>1 DEF Quiet, Stamped
<1>2. ASSUME NEW h \in Hash, SubOk(h) PROVE Capped'
  <2>1. /\ inFlight' = inFlight \cup {h} /\ submitted' = submitted + 1
        /\ subPc = "call" /\ subPc' = "sending"
    BY <1>2 DEF SubOk
  <2>2. Stamped' = Stamped \cup {h} /\ (h \notin Repeats => h \notin Stamped)
    BY <1>2, SubOkFacts
  <2>3. inFlight \in SUBSET Hash BY DEF TypeOK
  <2>4. /\ Cardinality(inFlight) \in Nat /\ Cardinality(inFlight') \in Nat
        /\ Cardinality(inFlight') <= Cardinality(inFlight) + 1
        /\ h \notin inFlight => Cardinality(inFlight') = Cardinality(inFlight) + 1
    BY <2>1, <2>3, OneMore
  <2>5. Cardinality(inFlight') <= MaxInFlight BY <2>1, <2>4, SizeAssumption
  <2>6. /\ inFlight' = Stamped'
        /\ Repeats = {} => submitted' = Cardinality(inFlight')
    BY <2>1, <2>2, <2>4
  <2>. QED BY <2>1, <2>5, <2>6
<1>3. ASSUME UNCHANGED <<submitted, submittedAt, inFlight, subPc>> PROVE Capped'
  BY <1>3 DEF Stamped
<1>. QED BY <1>1, <1>2, <1>3, StepCases, AnswerFacts
     DEF Tick, CollExit, CollGiveUp, CollTrack, CollSettle, CollIgnore, CollBook,
         CollScan, CollExpire, CollSpawn, CheckPending, stats, subVars

(* The limit on in-flight submissions is never exceeded, and as nothing    *)
(* leaves in_flight it limits the submissions of a whole benchmark.        *)
THEOREM SubmissionsStayCapped == Spec => []SubmissionsCapped
<1>1. Capped => SubmissionsCapped BY DEF Capped, SubmissionsCapped
<1>. QED BY <1>1, CappedInit, CappedStep, TypeCorrect, PTL DEF Spec

-----------------------------------------------------------------------------
(* The books.                                                              *)


LEMMA BooksInit == Init => BooksCoverTracked
<1>. SUFFICES ASSUME Init PROVE BooksCoverTracked
  OBVIOUS
<1>1. Cardinality(settled) = 0 BY FS_EmptySet DEF Init, CollInit
<1>. QED BY <1>1 DEF Init, CollInit, BooksCoverTracked, ReceiverOpen, One

LEMMA BooksStep ==
    TypeOK /\ HandOver /\ BooksCoverTracked /\ [Next]_vars => BooksCoverTracked'
<1>. SUFFICES ASSUME TypeOK, HandOver, BooksCoverTracked, [Next]_vars
              PROVE  BooksCoverTracked'
  OBVIOUS
<1>. USE DEF BooksCoverTracked, One
<1>0. /\ confirmed \in Nat /\ failed \in Nat /\ timeouts \in Nat
      /\ Cardinality(settled) \in Nat /\ Cardinality(Tracked) \in Nat
  BY HashSets, DerivedSets DEF TypeOK
<1>1. CASE Quiet
  <2>1. Tracked' = Tracked /\ (collPc' = "book" <=> collPc = "book")
        /\ ReceiverOpen' = ReceiverOpen
    BY <1>1 DEF Quiet, Tracked, ReceiverOpen
  <2>. QED BY <1>0, <1>1, <2>1 DEF Quiet
<1>2. ASSUME UNCHANGED <<confirmed, failed, timeouts, settled, collPc, pending>>
      PROVE  BooksCoverTracked'
  BY <1>2 DEF Tracked, ReceiverOpen
<1>3. CASE CollExit
  <2>1. Cardinality(Tracked') = 0 BY <1>3, FS_EmptySet DEF CollExit, Tracked
  <2>. QED BY <1>0, <1>3, <2>1 DEF CollExit, CloseReceiver, ReceiverOpen, stats
<1>4. CASE CollGiveUp
  <2>1. Tracked' = Tracked BY <1>4 DEF CollGiveUp, Tracked
  <2>. QED BY <1>0, <1>4, <2>1 DEF CollGiveUp, CloseReceiver, ReceiverOpen
<1>5. CASE CollTrack \/ CollIgnore \/ CollScan
  BY <1>0, <1>5 DEF CollTrack, CollIgnore, CollScan, ReceiverOpen, stats
<1>6. CASE CollSettle
  <2>1. /\ settled' = settled \cup {Head(queue).hash} /\ Head(queue).hash \in Hash
        /\ ReceiverOpen /\ ReceiverOpen'
    BY <1>6, SettleFacts DEF Tracked
  <2>2. Cardinality(settled') <= Cardinality(settled) + 1
    BY <2>1, OneMore DEF TypeOK
  <2>3. Cardinality(settled') \in Nat BY <2>1, OneMore DEF TypeOK
  <2>. QED BY <1>0, <1>6, <2>1, <2>2, <2>3 DEF CollSettle, stats
<1>7. CASE CollBook
  <2>1. held.kind \in ResultKind BY <1>7 DEF CollBook, HandOver, ResultMsg
  <2>2. confirmed' + failed' + timeouts' = confirmed + failed + timeouts + 1
    BY <1>0, <1>7, <2>1 DEF CollBook, ResultKind
  <2>. QED BY <1>0, <1>7, <2>2 DEF CollBook, ReceiverOpen
<1>8. ASSUME NEW h \in Hash, CollExpire(h) PROVE BooksCoverTracked'
  <2>1. Tracked' = Tracked BY <1>8 DEF CollExpire, Tracked
  <2>. QED BY <1>0, <1>8, <2>1 DEF CollExpire, ReceiverOpen
<1>. QED BY <1>1, <1>2, <1>3, <1>4, <1>5, <1>6, <1>7, <1>8, StepCases, AnswerFacts
     DEF Tick, SubOk, CollSpawn, CheckPending, stats, subVars, collVars

(* Every transaction the collector has tracked is counted in the report    *)
(* when it leaves pending and when the collector ends.                     *)
THEOREM BooksAreComplete == Spec => []BooksCoverTracked
<1>. QED BY BooksInit, BooksStep, HandOverInvariant, TypeCorrect, PTL DEF Spec

-----------------------------------------------------------------------------
(* Timeouts.  What makes the collector report a transaction as timed out:  *)
(* its scan, an expiry task, a message or the result it is booking.        *)
Alarmed(h) ==
    \/ h \in toExpire
    \/ expiries[h] > 0
    \/ h \in Answered("TimedOut")
    \/ held = Result("TimedOut", h)

Overdue(h) == submittedAt[h] # Absent /\ now - submittedAt[h] > TxTimeout

(* The timeout messages in the channel, before and after a send and a      *)
(* receive.                                                                *)
LEMMA AnsweredAfterSend ==
    ASSUME TypeOK, NEW m \in Message, queue' = Sent(m)
    PROVE  \A h \in Answered("TimedOut")' :
              h \in Answered("TimedOut") \/ (m.kind = "TimedOut" /\ m.hash = h)
<1>. SUFFICES ASSUME NEW h \in Answered("TimedOut")', h \notin Answered("TimedOut")
              PROVE  m.kind = "TimedOut" /\ m.hash = h
  OBVIOUS
<1>. DEFINE n == Len(queue)
<1>1. PICK i \in DOMAIN queue' : queue'[i].kind = "TimedOut" /\ queue'[i].hash = h
  BY DEF Answered
<1>2. h \in Hash /\ \A j \in DOMAIN queue : ~(queue[j].kind = "TimedOut" /\ queue[j].hash = h)
  BY DEF Answered
<1>3. /\ n \in Nat /\ DOMAIN queue = 1 .. n
      /\ \/ queue' = queue
         \/ /\ DOMAIN queue' = 1 .. n + 1 /\ queue'[n + 1] = m
            /\ \A j \in 1 .. n : queue'[j] = queue[j]
  BY SendFacts DEF TypeOK
<1>. HIDE DEF n
<1>4. ~(i \in DOMAIN queue /\ queue'[i] = queue[i]) BY <1>1, <1>2
<1>5. queue' # queue BY <1>1, <1>4
<1>6. DOMAIN queue' = 1 .. n + 1 /\ i \notin 1 .. n /\ queue'[n + 1] = m
  BY <1>3, <1>4, <1>5
<1>7. i = n + 1
  <2>1. i \in 1 .. n + 1 BY <1>6
  <2>. QED BY <1>3, <1>6, <2>1
<1>. QED BY <1>1, <1>6, <1>7

LEMMA AnsweredAfterReceive ==
    ASSUME TypeOK, queue # <<>>, queue' = Tail(queue)
    PROVE  Answered("TimedOut")' \subseteq Answered("TimedOut")
<1>1. \A i \in DOMAIN queue' : i + 1 \in DOMAIN queue /\ queue'[i] = queue[i + 1]
  BY ReceiveFacts DEF TypeOK
<1>. QED BY <1>1 DEF Answered

LEMMA OverdueStep ==
    TypeOK /\ HandOver /\ OneStory /\ TimeoutsAreOverdue /\ [Next]_vars
        => TimeoutsAreOverdue'
<1>. SUFFICES ASSUME TypeOK, HandOver, OneStory, TimeoutsAreOverdue, [Next]_vars,
                     NEW h \in Hash \ Repeats, Alarmed(h)'
              PROVE  Overdue(h)'
  BY DEF TimeoutsAreOverdue, Alarmed, Overdue
<1>0. Alarmed(h) => Overdue(h) BY DEF TimeoutsAreOverdue, Alarmed, Overdue
<1>. USE DEF Alarmed, Overdue
<1>1. CASE Quiet BY <1>0, <1>1 DEF Quiet, Answered
<1>2. CASE Tick
  <2>1. Alarmed(h) /\ submittedAt' = submittedAt /\ now' = now + 1
    BY <1>2 DEF Tick, Answered, taskVars, collVars
  <2>2. /\ now \in Nat /\ TxTimeout \in Nat
        /\ submittedAt[h] \in Nat \cup {Absent} /\ Absent = -1
    BY TimeAssumption DEF TypeOK, Absent
  <2>. HIDE DEF Alarmed
  <2>. QED BY <1>0, <2>1, <2>2
<1>3. ASSUME NEW g \in Hash, SubOk(g) PROVE Overdue(h)'
  <2>1. UNCHANGED <<now, toExpire, expiries, held>>
    BY <1>3 DEF SubOk, collVars, taskVars
  <2>2. Alarmed(h)
    BY <1>3, <2>1, SubOkFacts, AnsweredAfterSend
  <2>3. h # g BY <1>0, <1>3, <2>2, SubOkFacts DEF Stamped
  <2>. QED BY <1>0, <1>3, <2>1, <2>2, <2>3, SubOkFacts
<1>4. CASE CollExit \/ CollGiveUp
  <2>1. Answered("TimedOut")' = {} /\ UNCHANGED <<now, submittedAt, toExpire, expiries, held>>
    BY <1>4 DEF CollExit, CollGiveUp, CloseReceiver, Answered, taskVars
  <2>. QED BY <1>0, <2>1
<1>5. CASE CollTrack \/ CollIgnore
  <2>1. /\ queue # <<>> /\ queue' = Tail(queue)
        /\ UNCHANGED <<now, submittedAt, toExpire, expiries, held>>
    BY <1>5 DEF CollTrack, CollIgnore, taskVars
  <2>. QED BY <1>0, <2>1, AnsweredAfterReceive
<1>6. CASE CollSettle
  <2>1. /\ queue # <<>> /\ queue' = Tail(queue) /\ held' = Head(queue)
        /\ UNCHANGED <<now, submittedAt, toExpire, expiries>>
    BY <1>6 DEF CollSettle, taskVars
  <2>2. held' = Result("TimedOut", h) => h \in Answered("TimedOut")
    <3>1. 1 \in DOMAIN queue /\ queue[1] = Head(queue)
      BY <2>1, ReceiveFacts DEF TypeOK
    <3>2. /\ Result("TimedOut", h).kind = "TimedOut"
          /\ Result("TimedOut", h).hash = h
      BY DEF Result
    <3>. QED BY <2>1, <3>1, <3>2 DEF Answered
  <2>. QED BY <1>0, <2>1, <2>2, AnsweredAfterReceive
<1>7. CASE CollBook
  <2>1. NoMessage # Result("TimedOut", h) BY NewMessages, MessageKinds DEF ResultKind
  <2>. QED BY <1>0, <1>7, <2>1 DEF CollBook, Answered, taskVars
<1>8. CASE CollScan
  <2>1. UNCHANGED <<now, queue, submittedAt, expiries, held>>
    BY <1>8 DEF CollScan, taskVars
  <2>2. h \in toExpire' => Overdue(h)
    BY <1>8 DEF CollScan, Older, OneStory, Tracked
  <2>. QED BY <1>0, <2>1, <2>2 DEF Answered
<1>9. ASSUME NEW g \in Hash, CollExpire(g) PROVE Overdue(h)'
  <2>1. /\ g \in toExpire /\ toExpire' \subseteq toExpire
        /\ UNCHANGED <<now, queue, submittedAt, held>>
    BY <1>9 DEF CollExpire
  <2>2. h # g => expiries'[h] = expiries[h] BY <1>9 DEF CollExpire, TypeOK
  <2>. QED BY <1>0, <2>1, <2>2 DEF Answered
<1>10. ASSUME NEW batch \in SUBSET toCheck, CollSpawn(batch) PROVE Overdue(h)'
  BY <1>0, <1>10 DEF CollSpawn, Answered
<1>11. ASSUME NEW g \in Hash, CheckPending(g) PROVE Overdue(h)'
  BY <1>0, <1>11 DEF CheckPending, Answered, collVars
<1>12. ASSUME NEW g \in Hash, NEW k \in ResultKind,
              CheckAnswered(g, k) \/ (k = "TimedOut" /\ ExpirySend(g))
       PROVE  Overdue(h)'
  <2>1. \/ h \in Answered("TimedOut")
        \/ k = "TimedOut" /\ g = h /\ expiries[h] > 0
        \/ h \notin Answered("TimedOut")'
    BY <1>12, AnswerFacts, AnsweredAfterSend
  <2>2. UNCHANGED <<now, submittedAt, toExpire, held>>
        /\ (expiries'[h] > 0 => expiries[h] > 0)
    BY <1>12, AnswerFacts
  <2>. QED BY <1>0, <2>1, <2>2
<1>. QED BY <1>1, <1>2, <1>3, <1>4, <1>5, <1>6, <1>7, <1>8, <1>9, <1>10, <1>11,
            <1>12, StepCases

(* No transaction is timed out early: unless its hash is repeated, what is *)
(* about to be reported as timed out was submitted too long ago.           *)
THEOREM NoEarlyTimeout == Spec => []TimeoutsAreOverdue
<1>1. Init => TimeoutsAreOverdue
  BY DEF Init, CollInit, TimeoutsAreOverdue, Answered, NoMessage, Result
<1>. QED BY <1>1, OverdueStep, OneStoryInvariant, HandOverInvariant, TypeCorrect,
            PTL DEF Spec

-----------------------------------------------------------------------------
(* Confirmations.  Each submission is worth one confirmation, and it is in *)
(* one place at a time: in the channel, in pending, in the collector's     *)
(* hands, or counted.                                                      *)
Waiting == {i \in DOMAIN queue : queue[i].kind = "Submitted"}

Supply ==
    confirmed + One(collPc = "book") + Cardinality(Tracked) + Cardinality(Waiting)
        <= submitted

LEMMA WaitingType ==
    ASSUME TypeOK
    PROVE  /\ IsFiniteSet(Waiting) /\ Cardinality(Waiting) \in Nat
           /\ DOMAIN queue = 1 .. Len(queue) /\ Len(queue) \in Nat
<1>1. DOMAIN queue = 1 .. Len(queue) /\ Len(queue) \in Nat BY LenProperties DEF TypeOK
<1>2. IsFiniteSet(DOMAIN queue) BY <1>1, FS_Interval
<1>3. Waiting \in SUBSET DOMAIN queue BY DEF Waiting
<1>. QED BY <1>1, <1>2, <1>3, FS_Subset, FS_CardinalityType

LEMMA WaitingAfterSend ==
    ASSUME TypeOK, NEW m \in Message, queue' = Sent(m)
    PROVE  /\ Cardinality(Waiting') \in Nat
           /\ Cardinality(Waiting') <= Cardinality(Waiting) + One(m.kind = "Submitted")
<1>. DEFINE n == Len(queue)
<1>1. /\ n \in Nat /\ DOMAIN queue = 1 .. n
      /\ \/ queue' = queue
         \/ /\ DOMAIN queue' = 1 .. n + 1 /\ queue'[n + 1] = m
            /\ \A j \in 1 .. n : queue'[j] = queue[j]
  BY SendFacts DEF TypeOK
<1>. HIDE DEF n
<1>2. \/ Waiting' = Waiting
      \/ m.kind = "Submitted" /\ Waiting' = Waiting \cup {n + 1}
  BY <1>1 DEF Waiting
<1>3. /\ Cardinality(Waiting \cup {n + 1}) <= Cardinality(Waiting) + 1
      /\ Cardinality(Waiting \cup {n + 1}) \in Nat /\ Cardinality(Waiting) \in Nat
  <2>1. IsFiniteSet(Waiting) /\ Cardinality(Waiting) \in Nat BY WaitingType
  <2>2. Cardinality(Waiting \cup {n + 1}) =
          IF n + 1 \in Waiting THEN Cardinality(Waiting) ELSE Cardinality(Waiting) + 1
    BY <2>1, FS_AddElement
  <2>. QED BY <2>1, <2>2
<1>4. CASE Waiting' = Waiting BY <1>3, <1>4 DEF One
<1>5. CASE m.kind = "Submitted" /\ Waiting' = Waiting \cup {n + 1}
  BY <1>3, <1>5 DEF One
<1>. QED BY <1>2, <1>4, <1>5

LEMMA WaitingAfterReceive ==
    ASSUME TypeOK, queue # <<>>, queue' = Tail(queue)
    PROVE  /\ Cardinality(Waiting') \in Nat
           /\ Cardinality(Waiting') + One(Head(queue).kind = "Submitted")
                 <= Cardinality(Waiting)
<1>. DEFINE f == [i \in Waiting' |-> i + 1]
<1>1. /\ DOMAIN queue' \subseteq Nat /\ queue[1] = Head(queue) /\ 1 \in DOMAIN queue
      /\ \A i \in DOMAIN queue' : i + 1 \in DOMAIN queue \ {1} /\ queue'[i] = queue[i + 1]
  BY ReceiveFacts DEF TypeOK
<1>2. f \in Injection(Waiting', Waiting \ {1})
  <2>1. Waiting' \subseteq Nat /\ \A i \in Waiting' : i + 1 \in Waiting \ {1}
    BY <1>1 DEF Waiting
  <2>. QED BY <2>1 DEF Injection, IsInjective
<1>3. /\ IsFiniteSet(Waiting) /\ Cardinality(Waiting) \in Nat
      /\ IsFiniteSet(Waiting \ {1})
      /\ Cardinality(Waiting \ {1}) + One(1 \in Waiting) = Cardinality(Waiting)
  <2>1. IsFiniteSet(Waiting) /\ Cardinality(Waiting) \in Nat BY WaitingType
  <2>2. /\ IsFiniteSet(Waiting \ {1})
        /\ Cardinality(Waiting \ {1}) =
              IF 1 \in Waiting THEN Cardinality(Waiting) - 1 ELSE Cardinality(Waiting)
    BY <2>1, FS_RemoveElement
  <2>. QED BY <2>1, <2>2 DEF One
<1>. HIDE DEF f
<1>4. IsFiniteSet(Waiting') /\ Cardinality(Waiting') <= Cardinality(Waiting \ {1})
  BY <1>2, <1>3, FS_Injection
<1>5. Cardinality(Waiting') \in Nat /\ Cardinality(Waiting \ {1}) \in Nat
  BY <1>3, <1>4, FS_CardinalityType
<1>6. Head(queue).kind = "Submitted" <=> 1 \in Waiting BY <1>1 DEF Waiting
<1>. QED BY <1>3, <1>4, <1>5, <1>6 DEF One

LEMMA SupplyInit == Init => Supply
<1>. SUFFICES ASSUME Init PROVE Supply
  OBVIOUS
<1>1. Tracked = {} /\ Waiting = {} BY DEF Init, CollInit, Tracked, Waiting
<1>. QED BY <1>1, FS_EmptySet DEF Init, CollInit, Supply, One

LEMMA SupplyStep == TypeOK /\ Supply /\ [Next]_vars => Supply'
<1>. SUFFICES ASSUME TypeOK, Supply, [Next]_vars PROVE Supply'
  OBVIOUS
<1>. USE DEF Supply, One
<1>0. /\ confirmed \in Nat /\ submitted \in Nat
      /\ Cardinality(Tracked) \in Nat /\ Cardinality(Waiting) \in Nat
  BY DerivedSets, WaitingType DEF TypeOK
<1>1. CASE Quiet
  <2>1. Tracked' = Tracked /\ Waiting' = Waiting /\ (collPc' = "book" <=> collPc = "book")
    BY <1>1 DEF Quiet, Tracked, Waiting
  <2>. QED BY <1>0, <1>1, <2>1 DEF Quiet
<1>2. ASSUME UNCHANGED <<confirmed, submitted, collPc, pending, queue>> PROVE Supply'
  BY <1>2 DEF Tracked, Waiting
<1>3. ASSUME NEW h \in Hash, SubOk(h) PROVE Supply'
  <2>1. Cardinality(Waiting') \in Nat /\ Cardinality(Waiting') <= Cardinality(Waiting) + 1
    BY <1>3, SubOkFacts, WaitingAfterSend
  <2>2. submitted' = submitted + 1 /\ Tracked' = Tracked
        /\ UNCHANGED <<confirmed, collPc>>
    BY <1>3, SubOkFacts DEF SubOk, collVars
  <2>. QED BY <1>0, <2>1, <2>2
<1>4. CASE CollExit \/ CollGiveUp
  <2>1. /\ UNCHANGED <<confirmed, submitted, Tracked>> /\ collPc # "book"
        /\ collPc' # "book" /\ Waiting' = {}
    BY <1>4 DEF CollExit, CollGiveUp, CloseReceiver, Tracked, Waiting, stats
  <2>2. Cardinality(Waiting') = 0 BY <2>1, FS_EmptySet
  <2>. QED BY <1>0, <2>1, <2>2
<1>5. CASE CollTrack
  <2>1. /\ Cardinality(Waiting') \in Nat
        /\ Cardinality(Waiting') + 1 <= Cardinality(Waiting)
    BY <1>5, WaitingAfterReceive DEF CollTrack
  <2>2. Tracked' = Tracked \cup {Head(queue).hash} /\ Head(queue).hash \in Hash
    BY <1>5, TrackFacts
  <2>3. Cardinality(Tracked') \in Nat /\ Cardinality(Tracked') <= Cardinality(Tracked) + 1
    BY <2>2, OneMore, DerivedSets
  <2>. QED BY <1>0, <1>5, <2>1, <2>3 DEF CollTrack, stats
<1>6. CASE CollSettle
  <2>1. Cardinality(Waiting') \in Nat /\ Cardinality(Waiting') <= Cardinality(Waiting)
    BY <1>0, <1>6, WaitingAfterReceive DEF CollSettle
  <2>2. Tracked' = Tracked \ {Head(queue).hash} /\ Head(queue).hash \in Tracked
    BY <1>6, SettleFacts
  <2>3. Cardinality(Tracked') = Cardinality(Tracked) - 1
    BY <2>2, OneMore, DerivedSets
  <2>. QED BY <1>0, <1>6, <2>1, <2>3 DEF CollSettle, stats
<1>7. CASE CollIgnore
  <2>1. Cardinality(Waiting') \in Nat /\ Cardinality(Waiting') <= Cardinality(Waiting)
    BY <1>0, <1>7, WaitingAfterReceive DEF CollIgnore
  <2>. QED BY <1>0, <1>7, <2>1 DEF CollIgnore, Tracked, stats
<1>8. CASE CollBook
  <2>1. Tracked' = Tracked /\ Waiting' = Waiting
    BY <1>8 DEF CollBook, Tracked, Waiting
  <2>. QED BY <1>0, <1>8, <2>1 DEF CollBook
<1>9. CASE CollScan
  <2>1. Tracked' = Tracked /\ Waiting' = Waiting
    BY <1>9 DEF CollScan, Tracked, Waiting
  <2>. QED BY <1>0, <1>9, <2>1 DEF CollScan, stats
<1>10. ASSUME NEW h \in Hash, NEW k \in ResultKind,
              CheckAnswered(h, k) \/ (k = "TimedOut" /\ ExpirySend(h))
       PROVE  Supply'
  <2>1. k # "Submitted" BY DEF ResultKind
  <2>2. Cardinality(Waiting') \in Nat /\ Cardinality(Waiting') <= Cardinality(Waiting)
    BY <1>0, <1>10, <2>1, AnswerFacts, WaitingAfterSend
  <2>. QED BY <1>0, <1>10, <2>2, AnswerFacts
<1>. QED BY <1>1, <1>2, <1>3, <1>4, <1>5, <1>6, <1>7, <1>8, <1>9, <1>10, StepCases
     DEF Tick, CollExpire, CollSpawn, CheckPending, stats, collVars

(* The reported confirmations never exceed the reported submissions, also  *)
(* when the node repeats a hash.                                           *)
THEOREM ConfirmationsAreSubmissions == Spec => []ConfirmedWithinSubmitted
<1>1. TypeOK /\ Supply => ConfirmedWithinSubmitted
  <2>. SUFFICES ASSUME TypeOK, Supply PROVE ConfirmedWithinSubmitted
    OBVIOUS
  <2>1. /\ confirmed \in Nat /\ submitted \in Nat
        /\ Cardinality(Tracked) \in Nat /\ Cardinality(Waiting) \in Nat
    BY DerivedSets, WaitingType DEF TypeOK
  <2>. QED BY <2>1 DEF Supply, One, ConfirmedWithinSubmitted
<1>. QED BY <1>1, SupplyInit, SupplyStep, TypeCorrect, PTL DEF Spec

-----------------------------------------------------------------------------
(* The copy that run() returns.  While no check answers "failed" no result *)
(* does, and so failed counts failed submissions only.                     *)
NoFailures ==
    /\ \A i \in DOMAIN queue : queue[i].kind # "Failed"
    /\ held.kind # "Failed"

LEMMA NoFailuresStep ==
    ASSUME "Failed" \notin CheckOutcomes, TypeOK, NoFailures, [Next]_vars
    PROVE  NoFailures'
<1>. USE DEF NoFailures
<1>0. queue \in Seq(Message) BY DEF TypeOK
<1>1. ASSUME UNCHANGED <<queue, held>> PROVE NoFailures'
  BY <1>1
<1>2. ASSUME NEW m \in Message, m.kind # "Failed", queue' = Sent(m), held' = held
      PROVE  NoFailures'
  BY <1>0, <1>2, SendFacts
<1>3. ASSUME queue # <<>>, queue' = Tail(queue), held' \in {held, Head(queue)}
      PROVE  NoFailures'
  BY <1>0, <1>3, ReceiveFacts
<1>4. ASSUME NEW h \in Hash, SubOk(h) PROVE NoFailures'
  BY <1>2, <1>4, SubOkFacts DEF SubOk, collVars
<1>5. CASE CollExit \/ CollGiveUp
  BY <1>5 DEF CollExit, CollGiveUp, CloseReceiver
<1>6. CASE CollTrack \/ CollSettle \/ CollIgnore
  BY <1>3, <1>6 DEF CollTrack, CollSettle, CollIgnore
<1>7. CASE CollBook BY <1>7 DEF CollBook, NoMessage
<1>8. ASSUME NEW h \in Hash, NEW k \in ResultKind,
             CheckAnswered(h, k) \/ (k = "TimedOut" /\ ExpirySend(h))
      PROVE  NoFailures'
  <2>1. k # "Failed" BY <1>8 DEF CheckAnswered
  <2>. QED BY <1>2, <1>8, <2>1, AnswerFacts
<1>. QED BY <1>1, <1>4, <1>5, <1>6, <1>7, <1>8, StepCases
     DEF Quiet, Tick, CollScan, CollExpire, CollSpawn, CheckPending, collVars

(* The steps as run() sees them: those that count a submission, let the    *)
(* submitter go on or belong to run(), and those that leave all this alone *)
Aside ==
    /\ UNCHANGED <<submitted, failed, runPc, reported>>
    /\ now' \in {now, now + 1}
    /\ subPc' \in {"pace", "call"} => subPc \in {"pace", "call"}
    /\ SubmitterOver => SubmitterOver'

LEMMA RunCases ==
    ASSUME "Failed" \notin CheckOutcomes, TypeOK, NoFailures, [Next]_vars
    PROVE  \/ Aside \/ SubErr \/ SubPace \/ RunStep
           \/ \E h \in Hash : SubOk(h)
<1>. USE DEF Aside, SubmitterOver, TypeOK, stats, subVars, collVars, taskVars, runVars
<1>1. CASE SubmitterStep
  <2>1. CASE SubStop BY <2>1 DEF SubStop
  <2>2. CASE SubPanic BY <2>2 DEF SubPanic
  <2>3. CASE SubCall BY <2>3 DEF SubCall
  <2>4. CASE SubSent BY <2>4 DEF SubSent
  <2>5. CASE SubWake BY <2>5 DEF SubWake
  <2>. QED BY <1>1, <2>1, <2>2, <2>3, <2>4, <2>5 DEF SubmitterStep
<1>2. CASE CollectorStep
  <2>1. CASE CollExit \/ CollGiveUp BY <2>1 DEF CollExit, CollGiveUp, CloseReceiver
  <2>2. CASE CollContinue \/ CollIdle \/ CollSleep
    BY <2>2 DEF CollContinue, CollIdle, CollSleep
  <2>3. CASE CollTrack \/ CollSettle \/ CollIgnore
    BY <2>3 DEF CollTrack, CollSettle, CollIgnore
  <2>4. CASE CollBook
    <3>1. failed' = failed BY <2>4 DEF CollBook, One, NoFailures
    <3>. QED BY <2>4, <3>1 DEF CollBook
  <2>5. CASE CollScan BY <2>5 DEF CollScan
  <2>6. ASSUME NEW h \in Hash, CollExpire(h) PROVE Aside
    BY <2>6 DEF CollExpire
  <2>7. ASSUME NEW batch \in SUBSET toCheck, CollSpawn(batch) PROVE Aside
    BY <2>7 DEF CollSpawn
  <2>. QED BY <1>2, <2>1, <2>2, <2>3, <2>4, <2>5, <2>6, <2>7 DEF CollectorStep
<1>3. CASE TaskStep
  BY <1>3 DEF TaskStep, CheckPending, CheckAnswered, ExpirySend
<1>4. CASE Tick BY <1>4 DEF Tick
<1>5. CASE Terminated \/ UNCHANGED vars BY <1>5 DEF Terminated, vars
<1>. QED BY <1>1, <1>2, <1>3, <1>4, <1>5 DEF Next

(* Once run() has stopped waiting the submitter is over or its wait is:    *)
(* unless the wait was capped it then starts no further submission, and    *)
(* one that is still under way was so when the copy was made.              *)
Capless == Duration <= SubmitterWait

Current ==
    /\ NoFailures
    /\ runPc # "joinSubmitter" => SubmitterOver \/ now >= SubmitterWait
    /\ runPc = "returned" /\ Capless /\ subPc \in {"pace", "call"} =>
          submitted + failed = reported.submitted + reported.failed

LEMMA WaitIsTime == SubmitterWait \in Nat
BY TimeAssumption DEF SubmitterWait

LEMMA CurrentInit == Init => Current
BY DEF Init, CollInit, Current, NoFailures, NoMessage

LEMMA CurrentStep ==
    ASSUME "Failed" \notin CheckOutcomes, TypeOK, Current, [Next]_vars
    PROVE  Current'
<1>0. NoFailures' BY NoFailuresStep DEF Current
<1>. USE WaitIsTime, TimeAssumption DEF SubmitterOver, Capless, TypeOK
<1>1. CASE Aside BY <1>0, <1>1 DEF Aside, Current
<1>2. CASE SubErr
  BY <1>0, <1>2 DEF SubErr, Current, runVars
<1>3. ASSUME NEW h \in Hash, SubOk(h) PROVE Current'
  BY <1>0, <1>3 DEF SubOk, Current, runVars
<1>4. CASE SubPace
  BY <1>0, <1>4 DEF SubPace, Current, runVars, stats
<1>5. CASE RunStep
  <2>. USE DEF Current, subVars, stats
  <2>1. CASE RunJoinSubmitter BY <1>0, <2>1 DEF RunJoinSubmitter
  <2>2. CASE RunSubmitterTimeout BY <1>0, <2>2 DEF RunSubmitterTimeout
  <2>3. CASE RunJoinCollector \/ RunCollectorTimeout
    BY <1>0, <2>3 DEF RunJoinCollector, RunCollectorTimeout
  <2>4. CASE RunReport BY <1>0, <2>4 DEF RunReport
  <2>. QED BY <1>5, <2>1, <2>2, <2>3, <2>4 DEF RunStep
<1>. QED BY <1>1, <1>2, <1>3, <1>4, <1>5, RunCases DEF Current

LEMMA SummaryStep ==
    ASSUME "Failed" \notin CheckOutcomes, TypeOK, Current, [Next]_vars
    PROVE  [Summary!Next]_(Summary!vars)
<1>1. ASSUME UNCHANGED <<submitted, failed, reported>>,
             runPc' = "returned" <=> runPc = "returned"
      PROVE  UNCHANGED Summary!vars
  BY <1>1 DEF Summary!vars
<1>2. ASSUME submitted' + failed' = (submitted + failed) + 1, subPc = "call",
             UNCHANGED <<runPc, reported>>
      PROVE  Summary!Next
  <2>1. Duration > SubmitterWait \/ Capless
    BY WaitIsTime, TimeAssumption DEF Capless
  <2>2. Summary!Count BY <1>2, <2>1 DEF Summary!Count, Current
  <2>. QED BY <2>2 DEF Summary!Next
<1>3. CASE Aside BY <1>1, <1>3 DEF Aside
<1>4. CASE SubErr BY <1>2, <1>4 DEF SubErr, runVars, TypeOK
<1>5. ASSUME NEW h \in Hash, SubOk(h) PROVE Summary!Next
  BY <1>2, <1>5 DEF SubOk, runVars, TypeOK
<1>6. CASE SubPace BY <1>1, <1>6 DEF SubPace, runVars, stats
<1>7. CASE RunReport
  <2>1. Summary!Return BY <1>7 DEF RunReport, Summary!Return, stats
  <2>. QED BY <2>1 DEF Summary!Next
<1>8. CASE RunStep /\ ~RunReport
  BY <1>1, <1>8 DEF RunStep, RunJoinSubmitter, RunSubmitterTimeout,
                    RunJoinCollector, RunCollectorTimeout, stats
<1>. QED BY <1>3, <1>4, <1>5, <1>6, <1>7, <1>8, RunCases DEF Current

(* The statistics run() returns have every submission counted until then,  *)
(* and a submitter that is left running adds at most one, unless the       *)
(* duration is longer than run() waits.  No check answers "failed", which  *)
(* StatusCheck shows of the code.                                          *)
THEOREM BenchmarkImplementsSummary ==
    ASSUME "Failed" \notin CheckOutcomes
    PROVE  Spec => ImplementsSummary
<1>1. Init => Summary!Init BY DEF Init, Summary!Init
<1>2. TypeOK /\ Current /\ [Next]_vars => Current' BY CurrentStep
<1>3. TypeOK /\ Current /\ [Next]_vars => [Summary!Next]_(Summary!vars)
  BY SummaryStep
<1>. QED BY <1>1, <1>2, <1>3, CurrentInit, TypeCorrect, PTL
     DEF Spec, ImplementsSummary, Summary!Spec

(* What the summary promises of the copy, as a relation of the counters.   *)
ReportedTotal == reported.submitted + reported.failed

AtMostOneLate ==
    runPc = "returned" /\ Capless =>
        submitted + failed \in {ReportedTotal, ReportedTotal + 1}

(* After run() has returned the report never misses more than one          *)
(* submission, whatever the tasks that are left running do, if the         *)
(* duration is within the two hours that run() waits.                      *)
THEOREM ReportIsCurrent ==
    ASSUME "Failed" \notin CheckOutcomes
    PROVE  Spec => []AtMostOneLate
<1>1. Init => AtMostOneLate BY DEF Init, AtMostOneLate
<1>2. TypeOK /\ AtMostOneLate /\ [Summary!Next]_(Summary!vars) => AtMostOneLate'
  <2>. SUFFICES ASSUME TypeOK, AtMostOneLate, [Summary!Next]_(Summary!vars)
                PROVE  AtMostOneLate'
    OBVIOUS
  <2>. USE WaitIsTime, TimeAssumption DEF AtMostOneLate, ReportedTotal, Capless, TypeOK
  <2>1. CASE Summary!Count BY <2>1 DEF Summary!Count
  <2>2. CASE Summary!Return BY <2>2 DEF Summary!Return
  <2>3. CASE UNCHANGED Summary!vars BY <2>3 DEF Summary!vars
  <2>. QED BY <2>1, <2>2, <2>3 DEF Summary!Next
<1>. QED BY <1>1, <1>2, BenchmarkImplementsSummary, TypeCorrect, PTL
     DEF Spec, ImplementsSummary, Summary!Spec

-----------------------------------------------------------------------------
(* The hang, from which no step leads away.                                *)
LEMMA HungStep ==
    ASSUME TypeOK, Hung, [Next]_vars
    PROVE  NoWayOut
<1>. USE DEF Hung, NoWayOut
<1>1. ASSUME UNCHANGED <<subPc, collPc, toExpire, pending>>, done => done',
             now' \in {now, now + 1},
             queue' = queue \/ \E m \in Message : queue' = Append(queue, m),
             runPc' = "returned" => runPc = "returned"
      PROVE  NoWayOut
  <2>1. PICK i \in DOMAIN queue : i > Capacity /\ queue[i].kind = "Submitted"
    BY DEF SubmitterBlocked
  <2>2. i \in DOMAIN queue' /\ queue'[i] = queue[i]
    <3>1. queue \in Seq(Message) BY DEF TypeOK
    <3>2. CASE queue' = queue BY <2>1, <3>2
    <3>3. ASSUME NEW m \in Message, queue' = Append(queue, m)
          PROVE  i \in DOMAIN queue' /\ queue'[i] = queue[i]
      BY <2>1, <3>1, <3>3
    <3>. QED BY <1>1, <3>2, <3>3
  <2>3. SubmitterBlocked' BY <2>1, <2>2 DEF SubmitterBlocked
  <2>4. now > MaxWait => now' > MaxWait BY <1>1, TimeAssumption DEF TypeOK
  <2>. QED BY <1>1, <2>3, <2>4 DEF Tracked
<1>2. CASE SubmitterStep
  BY <1>2 DEF SubmitterStep, SubStop, SubPace, SubPanic, SubCall, SubOk, SubSent,
              SubErr, SubWake
<1>3. CASE CollectorStep
  <2>1. ~StatsFree BY DEF StatsFree
  <2>2. ~(\E h \in Hash : CollExpire(h)) BY <2>1 DEF CollExpire
  <2>3. ~(\E batch \in SUBSET toCheck : CollSpawn(batch)) BY DEF CollSpawn
  <2>4. ~CollContinue BY TimeAssumption DEF CollContinue, TypeOK
  <2>. QED BY <1>3, <2>1, <2>2, <2>3, <2>4
       DEF CollectorStep, CollExit, CollGiveUp, CollIdle, CollTrack, CollSettle,
           CollIgnore, CollBook, CollScan, CollSleep
<1>4. CASE TaskStep
  <2>1. ASSUME NEW h \in Hash, CheckPending(h) PROVE NoWayOut
    BY <1>1, <2>1 DEF CheckPending, subVars, collVars, runVars, TypeOK
  <2>2. ASSUME NEW h \in Hash, NEW k \in ResultKind,
               CheckAnswered(h, k) \/ (k = "TimedOut" /\ ExpirySend(h))
        PROVE  NoWayOut
    <3>1. Result(k, h) \in Message BY DEF Result, Message, ResultMsg
    <3>2. queue' = queue \/ queue' = Append(queue, Result(k, h))
      BY <2>2 DEF CheckAnswered, ExpirySend, Sent
    <3>. QED BY <1>1, <2>2, <3>1, <3>2
         DEF CheckAnswered, ExpirySend, subVars, collVars, runVars, TypeOK
  <2>3. ASSUME NEW o \in CheckOutcomes \ {"Pending"} PROVE o \in ResultKind
    BY <2>3, InputAssumption DEF ResultKind
  <2>. QED BY <1>4, <2>1, <2>2, <2>3 DEF TaskStep, CheckAnswered, ResultKind
<1>5. CASE Tick BY <1>1, <1>5 DEF Tick, subVars, collVars, runVars, TypeOK
<1>6. CASE RunStep
  BY <1>1, <1>6 DEF RunStep, RunJoinSubmitter, RunSubmitterTimeout, RunJoinCollector,
         RunCollectorTimeout, RunReport, StatsFree, subVars, collVars, TypeOK
<1>7. CASE Terminated \/ UNCHANGED vars
  BY <1>1, <1>7 DEF Terminated, vars, subVars, collVars, runVars, TypeOK
<1>. QED BY <1>2, <1>3, <1>4, <1>5, <1>6, <1>7 DEF Next

(* The hang is final: no step of any task, no timeout and no answer of the *)
(* node ends it, and run() does not return from it, for every capacity of  *)
(* the channel and every order of the deadlines.                           *)
THEOREM HangsAreFinal == Spec => HangIsFinal
<1>1. TypeOK /\ [Next]_vars => [Hung => NoWayOut]_vars BY HungStep
<1>. QED BY <1>1, TypeCorrect, PTL DEF Spec, HangIsFinal
=============================================================================
