--------------------------- MODULE BenchmarkProofs ---------------------------
(***************************************************************************)
(* Theorems about Benchmark, for every value of its constants.             *)
(***************************************************************************)
EXTENDS Benchmark, TLAPS, FiniteSetTheorems, SequenceTheorems

(* A message is a submission or a result, and its kind tells which.        *)
LEMMA MessageKinds ==
    ASSUME NEW m \in Message
    PROVE  /\ m.hash \in Hash
           /\ m.kind = "Submitted" <=> m \in SubmissionMsg
           /\ m.kind \in ResultKind <=> m \in ResultMsg
           /\ m.kind = "Submitted" => m.at \in Nat /\ m.kind \notin ResultKind
           /\ m.kind # "Submitted" => m.kind \in ResultKind
           /\ m # NoMessage
    BY DEF Message, SubmissionMsg, ResultMsg, ResultKind, NoMessage

(* What a send does to the channel.                                        *)
LEMMA SendFacts ==
    ASSUME queue \in Seq(Message), NEW m \in Message
    PROVE  /\ Sent(m) \in Seq(Message)
           /\ Len(queue) \in Nat /\ DOMAIN queue = 1 .. Len(queue)
           /\ \A i \in 1 .. Len(queue) : queue[i] \in Message
           /\ ~ReceiverOpen => Sent(m) = queue
           /\ ReceiverOpen =>
                /\ Len(Sent(m)) = Len(queue) + 1
                /\ DOMAIN Sent(m) = 1 .. Len(queue) + 1
                /\ \A i \in 1 .. Len(queue) : Sent(m)[i] = queue[i]
                /\ Sent(m)[Len(queue) + 1] = m
    BY DEF Sent

(* What a receive does to the channel.                                     *)
LEMMA ReceiveFacts ==
    ASSUME queue \in Seq(Message), queue # <<>>
    PROVE  /\ Head(queue) \in Message /\ Head(queue) = queue[1]
           /\ Tail(queue) \in Seq(Message)
           /\ Len(queue) \in Nat \ {0} /\ DOMAIN queue = 1 .. Len(queue)
           /\ DOMAIN Tail(queue) = 1 .. Len(queue) - 1
           /\ \A i \in 1 .. Len(queue) - 1 : Tail(queue)[i] = queue[i + 1]
           /\ \A i \in 1 .. Len(queue) : queue[i] \in Message
    BY HeadTailProperties, LenProperties, EmptySeq

LEMMA NewMessages ==
    ASSUME NEW h \in Hash, NEW t \in Nat, NEW k \in ResultKind
    PROVE  /\ Submission(h, t) \in Message
           /\ Submission(h, t).kind = "Submitted"
           /\ Submission(h, t).hash = h /\ Submission(h, t).at = t
           /\ Result(k, h) \in Message
           /\ Result(k, h).kind = k /\ Result(k, h).hash = h
    BY DEF Submission, Result, Message, SubmissionMsg, ResultMsg, ResultKind

(* Sets of hashes are finite, and so their sizes are natural numbers.      *)
LEMMA HashSets ==
    ASSUME NEW S \in SUBSET Hash
    PROVE  IsFiniteSet(S) /\ Cardinality(S) \in Nat
    BY HashAssumption, FS_Subset, FS_CardinalityType

LEMMA DerivedSets ==
    /\ Tracked \in SUBSET Hash /\ Stamped \in SUBSET Hash /\ Queued \in SUBSET Hash
    /\ Cardinality(Tracked) \in Nat
    /\ \A age : Older(age) \in SUBSET Hash /\ Older(age) \subseteq Tracked
<1>1. Tracked \in SUBSET Hash BY DEF Tracked
<1>. QED BY <1>1, HashSets DEF Tracked, Stamped, Queued, Older

-----------------------------------------------------------------------------
(* Type correctness.                                                       *)

LEMMA TypeInit == Init => TypeOK
<1>. SUFFICES ASSUME Init PROVE TypeOK
  OBVIOUS
<1>. USE DEF Init, SubInit, CollInit
<1>1. queue \in Seq(Message) BY EmptySeq
<1>2. /\ submittedAt \in [Hash -> Nat \cup {Absent}]
      /\ pending \in [Hash -> Nat \cup {Absent}]
  OBVIOUS
<1>3. checks \in [Hash -> Nat] /\ expiries \in [Hash -> Nat]
  OBVIOUS
<1>4. accounts \in Nat BY InputAssumption
<1>. QED BY <1>1, <1>2, <1>3, <1>4 DEF TypeOK

LEMMA TypeSubmitter == TypeOK /\ SubmitterStep => TypeOK'
<1>. SUFFICES ASSUME TypeOK, SubmitterStep PROVE TypeOK'
  OBVIOUS
<1>. USE DEF TypeOK, stats, subVars, collVars, taskVars, runVars
<1>1. CASE SubStop BY <1>1 DEF SubStop
<1>2. CASE SubPace BY <1>2 DEF SubPace
<1>3. CASE SubPanic BY <1>3 DEF SubPanic
<1>4. CASE SubCall BY <1>4 DEF SubCall
<1>5. CASE SubSent BY <1>5 DEF SubSent
<1>6. CASE SubErr BY <1>6 DEF SubErr
<1>7. CASE SubWake BY <1>7 DEF SubWake
<1>8. ASSUME NEW h \in Hash, SubOk(h) PROVE TypeOK'
  <2>1. queue' \in Seq(Message)
    BY <1>8, SendFacts, NewMessages DEF SubOk, ResultKind
  <2>2. submittedAt' \in [Hash -> Nat \cup {Absent}]
    BY <1>8 DEF SubOk
  <2>. QED BY <1>8, <2>1, <2>2 DEF SubOk
<1>. QED BY <1>1, <1>2, <1>3, <1>4, <1>5, <1>6, <1>7, <1>8 DEF SubmitterStep

LEMMA TypeCollector == TypeOK /\ CollectorStep => TypeOK'
<1>. SUFFICES ASSUME TypeOK, CollectorStep PROVE TypeOK'
  OBVIOUS
<1>. USE DEF TypeOK, stats, subVars, collVars, taskVars, runVars
<1>1. CASE CollExit BY <1>1, EmptySeq DEF CollExit, CloseReceiver
<1>2. CASE CollGiveUp BY <1>2, EmptySeq, DerivedSets DEF CollGiveUp, CloseReceiver
<1>3. CASE CollContinue BY <1>3 DEF CollContinue
<1>4. CASE CollIdle BY <1>4 DEF CollIdle
<1>5. CASE CollTrack
  <2>1. queue' \in Seq(Message) /\ pending' \in [Hash -> Nat \cup {Absent}]
    BY <1>5, ReceiveFacts, MessageKinds DEF CollTrack
  <2>. QED BY <1>5, <2>1 DEF CollTrack
<1>6. CASE CollSettle
  <2>1. Head(queue) \in ResultMsg /\ Head(queue).hash \in Hash
    BY <1>6, ReceiveFacts, MessageKinds DEF CollSettle
  <2>2. queue' \in Seq(Message) BY <1>6, ReceiveFacts DEF CollSettle
  <2>3. pending' \in [Hash -> Nat \cup {Absent}] BY <1>6, <2>1 DEF CollSettle
  <2>. QED BY <1>6, <2>1, <2>2, <2>3 DEF CollSettle
<1>7. CASE CollIgnore BY <1>7, ReceiveFacts DEF CollIgnore
<1>8. CASE CollBook BY <1>8 DEF CollBook, One
<1>9. CASE CollScan BY <1>9, DerivedSets DEF CollScan
<1>10. CASE CollSleep BY <1>10 DEF CollSleep
<1>11. ASSUME NEW h \in Hash, CollExpire(h) PROVE TypeOK'
  BY <1>11 DEF CollExpire
<1>12. ASSUME NEW batch \in SUBSET toCheck, CollSpawn(batch) PROVE TypeOK'
  BY <1>12 DEF CollSpawn
<1>. QED BY <1>1, <1>2, <1>3, <1>4, <1>5, <1>6, <1>7, <1>8, <1>9, <1>10, <1>11,
            <1>12 DEF CollectorStep

LEMMA TypeRest == TypeOK /\ (Tick \/ TaskStep \/ RunStep \/ Terminated) => TypeOK'
<1>. SUFFICES ASSUME TypeOK, Tick \/ TaskStep \/ RunStep \/ Terminated PROVE TypeOK'
  OBVIOUS
<1>. USE DEF TypeOK, stats, subVars, collVars, taskVars, runVars
<1>1. CASE Tick BY <1>1 DEF Tick
<1>2. ASSUME NEW h \in Hash, CheckPending(h) PROVE TypeOK'
  BY <1>2 DEF CheckPending
<1>3. ASSUME NEW h \in Hash, NEW o \in CheckOutcomes, CheckAnswered(h, o)
      PROVE  TypeOK'
  <2>1. o \in ResultKind
    BY <1>3, InputAssumption DEF CheckAnswered, ResultKind
  <2>2. queue' \in Seq(Message) BY <1>3, <2>1, SendFacts, NewMessages DEF CheckAnswered
  <2>. QED BY <1>3, <2>2 DEF CheckAnswered
<1>4. ASSUME NEW h \in Hash, ExpirySend(h) PROVE TypeOK'
  <2>1. queue' \in Seq(Message)
    BY <1>4, SendFacts, NewMessages DEF ExpirySend, ResultKind
  <2>. QED BY <1>4, <2>1 DEF ExpirySend
<1>5. CASE TaskStep BY <1>2, <1>3, <1>4, <1>5 DEF TaskStep
<1>6. CASE RunJoinSubmitter BY <1>6, TimeAssumption DEF RunJoinSubmitter
<1>7. CASE RunSubmitterTimeout BY <1>7, TimeAssumption DEF RunSubmitterTimeout
<1>8. CASE RunJoinCollector BY <1>8 DEF RunJoinCollector
<1>9. CASE RunCollectorTimeout BY <1>9 DEF RunCollectorTimeout
<1>10. CASE RunReport BY <1>10 DEF RunReport
<1>11. CASE Terminated BY <1>11 DEF Terminated, vars
<1>. QED BY <1>1, <1>5, <1>6, <1>7, <1>8, <1>9, <1>10, <1>11 DEF RunStep

(* Every variable of run() and of its tasks keeps its type.                *)
THEOREM TypeCorrect == Spec => []TypeOK
<1>1. TypeOK /\ [Next]_vars => TypeOK'
  <2>1. TypeOK /\ UNCHANGED vars => TypeOK'
    BY DEF TypeOK, vars, stats, subVars, collVars, taskVars, runVars
  <2>. QED BY <2>1, TypeSubmitter, TypeCollector, TypeRest DEF Next
<1>. QED BY TypeInit, <1>1, PTL DEF Spec

-----------------------------------------------------------------------------
(* The steps that move a transaction, its messages, its tasks or a counter *)
(* of results; every other step is quiet.                                  *)
Quiet ==
    /\ UNCHANGED <<now, queue, submitted, confirmed, timeouts, times, submittedAt,
                   inFlight, pending, held, toExpire, toCheck, settled, checks,
                   expiries>>
    /\ failed' \in {failed, failed + 1}
    /\ \/ collPc' = collPc
       \/ collPc \notin {"book", "exit"} /\ collPc' \notin {"book", "exit"}
    /\ subPc' \in {"pace", "call"} =>
          subPc \in {"pace", "call"} \/ Cardinality(inFlight) < MaxInFlight

LEMMA StepCases ==
    ASSUME TypeOK, [Next]_vars
    PROVE  \/ Quiet \/ Tick
           \/ \E h \in Hash : SubOk(h)
           \/ CollExit \/ CollGiveUp \/ CollTrack \/ CollSettle \/ CollIgnore
           \/ CollBook \/ CollScan
           \/ \E h \in Hash : CollExpire(h)
           \/ \E batch \in SUBSET toCheck : CollSpawn(batch)
           \/ \E h \in Hash : CheckPending(h)
           \/ \E h \in Hash, k \in ResultKind :
                 CheckAnswered(h, k) \/ (k = "TimedOut" /\ ExpirySend(h))
<1>. USE DEF stats, subVars, collVars, taskVars, runVars, Quiet
<1>1. CASE UNCHANGED vars BY <1>1 DEF vars, TypeOK
<1>2. CASE SubmitterStep
  <2>. USE <1>2 DEF TypeOK
  <2>1. CASE SubStop BY <2>1 DEF SubStop
  <2>2. CASE SubPace BY <2>2 DEF SubPace
  <2>3. CASE SubPanic BY <2>3 DEF SubPanic
  <2>4. CASE SubCall BY <2>4 DEF SubCall
  <2>5. CASE SubSent BY <2>5 DEF SubSent
  <2>6. CASE SubErr BY <2>6 DEF SubErr
  <2>7. CASE SubWake BY <2>7 DEF SubWake
  <2>. QED BY <1>2, <2>1, <2>2, <2>3, <2>4, <2>5, <2>6, <2>7 DEF SubmitterStep
<1>3. CASE CollContinue BY <1>3 DEF CollContinue
<1>4. CASE CollIdle BY <1>4 DEF CollIdle
<1>5. CASE CollSleep BY <1>5 DEF CollSleep
<1>6. CASE TaskStep
  <2>1. ASSUME NEW h \in Hash, NEW o \in CheckOutcomes, CheckAnswered(h, o)
        PROVE  o \in ResultKind
    BY <2>1, InputAssumption DEF CheckAnswered, ResultKind
  <2>. QED BY <1>6, <2>1 DEF TaskStep, ResultKind
<1>7. CASE RunStep
  <2>1. CASE RunJoinSubmitter BY <2>1 DEF RunJoinSubmitter
  <2>2. CASE RunSubmitterTimeout BY <2>2 DEF RunSubmitterTimeout
  <2>3. CASE RunJoinCollector BY <2>3 DEF RunJoinCollector
  <2>4. CASE RunCollectorTimeout BY <2>4 DEF RunCollectorTimeout
  <2>5. CASE RunReport BY <2>5 DEF RunReport
  <2>. QED BY <1>7, <2>1, <2>2, <2>3, <2>4, <2>5 DEF RunStep
<1>8. CASE Terminated BY <1>1, <1>8 DEF Terminated
<1>. QED BY <1>1, <1>2, <1>3, <1>4, <1>5, <1>6, <1>7, <1>8 DEF Next, CollectorStep

-----------------------------------------------------------------------------
(* The hand-over between the tasks: whatever speaks of a transaction, in   *)
(* the channel, in the collector or in a spawned task, speaks of one that  *)
(* the submitter has stamped; and none of the stamped ones is forgotten.   *)
HandOver ==
    /\ \A i \in DOMAIN queue : queue[i].hash \in Stamped
    /\ Tracked \cup settled \cup toCheck \cup toExpire \subseteq Stamped
    /\ \A h \in Hash : checks[h] > 0 \/ expiries[h] > 0 => h \in Stamped
    /\ collPc = "book" => held \in ResultMsg /\ held.hash \in settled
    /\ collPc # "book" => held = NoMessage
    /\ ~ReceiverOpen => queue = <<>>
    /\ NothingLost
    /\ EveryConfirmationTimed

LEMMA HandOverInit == Init => HandOver
BY DEF Init, SubInit, CollInit, HandOver, NothingLost, EveryConfirmationTimed,
       ReceiverOpen, Tracked, Stamped

(* What the steps that touch the channel or pending do to the derived sets. *)
LEMMA SubOkFacts ==
    ASSUME TypeOK, NEW h \in Hash, SubOk(h)
    PROVE  /\ Stamped' = Stamped \cup {h} /\ Tracked' = Tracked
           /\ submittedAt'[h] = now
           /\ \A g \in Hash \ {h} : submittedAt'[g] = submittedAt[g]
           /\ h \notin Repeats => h \notin Stamped
           /\ queue' = Sent(Submission(h, now))
           /\ Submission(h, now) \in Message
           /\ Submission(h, now).kind = "Submitted"
           /\ Submission(h, now).hash = h /\ Submission(h, now).at = now
           /\ ReceiverOpen' = ReceiverOpen
<1>1. queue' = Sent(Submission(h, now)) BY DEF SubOk
<1>2. Submission(h, now) \in Message /\ Submission(h, now).kind = "Submitted"
      /\ Submission(h, now).hash = h /\ Submission(h, now).at = now
  BY NewMessages DEF TypeOK, ResultKind
<1>3. pending' = pending /\ collPc' = collPc BY DEF SubOk, collVars
<1>4. submittedAt' = [submittedAt EXCEPT ![h] = now] BY DEF SubOk
<1>5. h \notin Repeats => h \notin Stamped BY DEF SubOk, Stamped
<1>. QED BY <1>1, <1>2, <1>3, <1>4, <1>5
     DEF TypeOK, Stamped, Tracked, Absent, ReceiverOpen

LEMMA TrackFacts ==
    ASSUME TypeOK, CollTrack
    PROVE  /\ queue # <<>> /\ queue' = Tail(queue)
           /\ Head(queue).hash \in Hash /\ Head(queue).at \in Nat
           /\ queue[1].kind = "Submitted"
           /\ Tracked' = Tracked \cup {Head(queue).hash} /\ Stamped' = Stamped
           /\ pending'[Head(queue).hash] = Head(queue).at
           /\ \A g \in Hash \ {Head(queue).hash} : pending'[g] = pending[g]
           /\ ReceiverOpen /\ ReceiverOpen'
<1>1. Head(queue) \in Message /\ Head(queue) = queue[1]
  BY ReceiveFacts DEF TypeOK, CollTrack
<1>2. Head(queue).hash \in Hash /\ Head(queue).at \in Nat
  BY <1>1, MessageKinds DEF CollTrack
<1>. QED BY <1>1, <1>2
     DEF CollTrack, TypeOK, Stamped, Tracked, Absent, ReceiverOpen

LEMMA SettleFacts ==
    ASSUME TypeOK, CollSettle
    PROVE  /\ queue # <<>> /\ queue' = Tail(queue)
           /\ Head(queue) \in ResultMsg
           /\ queue[1].kind # "Submitted"
           /\ Head(queue).hash \in Tracked
           /\ held' = Head(queue)
           /\ Tracked' = Tracked \ {Head(queue).hash} /\ Stamped' = Stamped
           /\ settled' = settled \cup {Head(queue).hash}
           /\ \A g \in Hash \ {Head(queue).hash} : pending'[g] = pending[g]
           /\ ReceiverOpen /\ ReceiverOpen'
<1>1. Head(queue) \in Message /\ Head(queue) = queue[1]
  BY ReceiveFacts DEF TypeOK, CollSettle
<1>2. Head(queue) \in ResultMsg /\ Head(queue).kind # "Submitted"
      /\ Head(queue).hash \in Hash
  BY <1>1, MessageKinds DEF CollSettle, ResultKind
<1>3. pending' = [pending EXCEPT ![Head(queue).hash] = Absent] BY DEF CollSettle
<1>4. Tracked' = Tracked \ {Head(queue).hash}
  BY <1>2, <1>3 DEF TypeOK, Tracked
<1>. QED BY <1>1, <1>2, <1>3, <1>4 DEF CollSettle, TypeOK, Stamped, ReceiverOpen

LEMMA AnswerFacts ==
    ASSUME TypeOK, NEW h \in Hash, NEW k \in ResultKind,
           CheckAnswered(h, k) \/ (k = "TimedOut" /\ ExpirySend(h))
    PROVE  /\ checks[h] > 0 \/ expiries[h] > 0
           /\ k = "TimedOut" => expiries[h] > 0
           /\ queue' = Sent(Result(k, h))
           /\ Result(k, h) \in Message
           /\ Result(k, h).kind = k /\ Result(k, h).hash = h
           /\ \A g \in Hash : /\ checks'[g] > 0 => checks[g] > 0
                              /\ expiries'[g] > 0 => expiries[g] > 0
           /\ UNCHANGED <<now, submitted, confirmed, failed, timeouts, times,
                          submittedAt, inFlight, subPc, collPc, pending, held,
                          toExpire, toCheck, settled, Tracked, Stamped>>
<1>1. Result(k, h) \in Message /\ Result(k, h).kind = k /\ Result(k, h).hash = h
  BY NewMessages DEF ResultKind
<1>2. CASE CheckAnswered(h, k)
  BY <1>1, <1>2, InputAssumption
     DEF CheckAnswered, TypeOK, Tracked, Stamped, stats, subVars, collVars
<1>3. CASE k = "TimedOut" /\ ExpirySend(h)
  BY <1>1, <1>3 DEF ExpirySend, TypeOK, Tracked, Stamped, stats, subVars, collVars
<1>. QED BY <1>2, <1>3

(* The transactions whose submission is in the channel, before and after a *)
(* send and a receive.                                                     *)
LEMMA QueuedAfterSend ==
    ASSUME TypeOK, NEW m \in Message, ReceiverOpen, queue' = Sent(m)
    PROVE  Queued' = Queued \cup (IF m.kind = "Submitted" THEN {m.hash} ELSE {})
<1>. DEFINE n == Len(queue)
<1>1. m.hash \in Hash BY MessageKinds
<1>2. /\ n \in Nat /\ DOMAIN queue = 1 .. n /\ DOMAIN queue' = 1 .. n + 1
      /\ \A i \in 1 .. n : queue'[i] = queue[i]
      /\ queue'[n + 1] = m
  BY SendFacts DEF TypeOK
<1>. HIDE DEF n
<1>3. ASSUME NEW h \in Queued PROVE h \in Queued'
  BY <1>2, <1>3 DEF Queued
<1>4. ASSUME NEW h \in Queued', h \notin Queued
      PROVE  m.kind = "Submitted" /\ h = m.hash
  <2>1. PICK i \in 1 .. n + 1 : queue'[i].kind = "Submitted" /\ queue'[i].hash = h
    BY <1>2 DEF Queued
  <2>2. i \notin 1 .. n BY <1>2, <1>4, <2>1 DEF Queued
  <2>. QED BY <1>2, <2>1, <2>2
<1>5. m.kind = "Submitted" => m.hash \in Queued'
  BY <1>1, <1>2 DEF Queued
<1>. QED BY <1>3, <1>4, <1>5

LEMMA QueuedAfterReceive ==
    ASSUME TypeOK, queue # <<>>, queue' = Tail(queue)
    PROVE  /\ Queued' \subseteq Queued
           /\ Queued \subseteq Queued' \cup {Head(queue).hash}
           /\ Head(queue).kind # "Submitted" => Queued' = Queued
<1>1. queue \in Seq(Message) BY DEF TypeOK
<1>2. \A i \in DOMAIN queue' : i + 1 \in DOMAIN queue /\ queue'[i] = queue[i + 1]
  BY <1>1, ReceiveFacts
<1>3. \A i \in DOMAIN queue : \/ i = 1 /\ queue[i] = Head(queue)
                              \/ i - 1 \in DOMAIN queue' /\ queue'[i - 1] = queue[i]
  BY <1>1, ReceiveFacts
<1>4. Queued' \subseteq Queued BY <1>2 DEF Queued
<1>5. \A h \in Queued : h \in Queued' \/ (h = Head(queue).hash /\ Head(queue).kind = "Submitted")
  BY <1>3 DEF Queued
<1>. QED BY <1>4, <1>5

LEMMA HandOverStep == TypeOK /\ HandOver /\ [Next]_vars => HandOver'
<1>. SUFFICES ASSUME TypeOK, HandOver, [Next]_vars PROVE HandOver'
  OBVIOUS
<1>0. queue \in Seq(Message) BY DEF TypeOK
<1>. USE DEF HandOver, NothingLost, EveryConfirmationTimed
<1>1. CASE Quiet
  BY <1>1 DEF Quiet, ReceiverOpen, Stamped, Tracked, Queued
<1>2. CASE Tick
  BY <1>2 DEF Tick, ReceiverOpen, Stamped, Tracked, Queued, stats, subVars,
              collVars, taskVars
<1>3. ASSUME NEW h \in Hash, SubOk(h) PROVE HandOver'
  <2>. DEFINE m == Submission(h, now)
  <2>1. UNCHANGED <<collPc, held, settled, toCheck, toExpire, checks, expiries,
                    confirmed, times>>
    BY <1>3 DEF SubOk, collVars, taskVars
  <2>2. \A i \in DOMAIN queue' : queue'[i].hash \in Stamped'
    BY <1>0, <1>3, SubOkFacts, SendFacts
  <2>3. NothingLost'
    <3>1. ReceiverOpen => Queued' = Queued \cup {h}
      BY <1>3, SubOkFacts, QueuedAfterSend
    <3>. QED BY <1>3, <2>1, <3>1, SubOkFacts
  <2>4. ~ReceiverOpen' => queue' = <<>>
    BY <1>0, <1>3, SubOkFacts, SendFacts
  <2>. QED BY <1>3, <2>1, <2>2, <2>3, <2>4, SubOkFacts
<1>4. CASE CollExit \/ CollGiveUp
  BY <1>4 DEF CollExit, CollGiveUp, CloseReceiver, ReceiverOpen, Stamped, Tracked,
              stats, subVars, taskVars
<1>5. CASE CollTrack
  <2>1. UNCHANGED <<held, settled, toCheck, toExpire, checks, expiries, confirmed,
                    times>> /\ collPc = "recv" /\ collPc' = "scan"
    BY <1>5 DEF CollTrack, stats, taskVars
  <2>2. \A i \in DOMAIN queue' : queue'[i].hash \in Stamped'
    BY <1>0, <1>5, TrackFacts, ReceiveFacts
  <2>3. Head(queue).hash \in Stamped
    BY <1>0, <1>5, TrackFacts, ReceiveFacts
  <2>4. NothingLost'
    BY <1>5, <2>1, TrackFacts, QueuedAfterReceive
  <2>. QED BY <1>5, <2>1, <2>2, <2>3, <2>4, TrackFacts
<1>6. CASE CollSettle
  <2>1. UNCHANGED <<toCheck, toExpire, checks, expiries, confirmed, times>>
        /\ collPc' = "book"
    BY <1>6 DEF CollSettle, stats, taskVars
  <2>2. \A i \in DOMAIN queue' : queue'[i].hash \in Stamped'
    BY <1>0, <1>6, SettleFacts, ReceiveFacts
  <2>3. NothingLost'
    BY <1>6, <2>1, SettleFacts, QueuedAfterReceive
  <2>. QED BY <1>6, <2>1, <2>2, <2>3, SettleFacts
<1>7. CASE CollIgnore
  <2>1. UNCHANGED <<pending, held, settled, toCheck, toExpire, checks, expiries,
                    confirmed, times, Stamped, Tracked>>
        /\ collPc = "recv" /\ collPc' = "scan"
        /\ queue # <<>> /\ queue' = Tail(queue) /\ Head(queue).kind \in ResultKind
    BY <1>7 DEF CollIgnore, stats, taskVars, Stamped, Tracked
  <2>2. \A i \in DOMAIN queue' : queue'[i].hash \in Stamped'
    BY <1>0, <2>1, ReceiveFacts
  <2>3. NothingLost'
    BY <2>1, QueuedAfterReceive DEF ResultKind, ReceiverOpen
  <2>. QED BY <2>1, <2>2, <2>3 DEF ReceiverOpen
<1>8. CASE CollBook
  <2>1. held.hash \in Stamped BY <1>8 DEF CollBook
  <2>2. times' = confirmed'
    BY <1>8, <2>1 DEF CollBook, One, Stamped, TypeOK
  <2>. QED BY <1>8, <2>2
       DEF CollBook, ReceiverOpen, Stamped, Tracked, Queued, taskVars
<1>9. CASE CollScan
  <2>1. toExpire' \subseteq Stamped /\ toCheck' \subseteq Stamped
    BY <1>9, DerivedSets DEF CollScan
  <2>. QED BY <1>9, <2>1
       DEF CollScan, ReceiverOpen, Stamped, Tracked, Queued, stats, taskVars
<1>10. ASSUME NEW h \in Hash, CollExpire(h) PROVE HandOver'
  BY <1>10 DEF CollExpire, ReceiverOpen, Stamped, Tracked, Queued, TypeOK
<1>11. ASSUME NEW batch \in SUBSET toCheck, CollSpawn(batch) PROVE HandOver'
  BY <1>11 DEF CollSpawn, ReceiverOpen, Stamped, Tracked, Queued, TypeOK, stats
<1>12. ASSUME NEW h \in Hash, CheckPending(h) PROVE HandOver'
  BY <1>12 DEF CheckPending, ReceiverOpen, Stamped, Tracked, Queued, TypeOK, stats,
               collVars
<1>13. ASSUME NEW h \in Hash, NEW k \in ResultKind,
              CheckAnswered(h, k) \/ (k = "TimedOut" /\ ExpirySend(h))
       PROVE  HandOver'
  <2>1. h \in Stamped BY <1>13, AnswerFacts
  <2>2. \A i \in DOMAIN queue' : queue'[i].hash \in Stamped'
    BY <1>0, <1>13, <2>1, AnswerFacts, SendFacts
  <2>3. ReceiverOpen' = ReceiverOpen BY <1>13, AnswerFacts DEF ReceiverOpen
  <2>4. NothingLost'
    BY <1>13, <2>3, AnswerFacts, QueuedAfterSend
  <2>5. ~ReceiverOpen' => queue' = <<>>
    BY <1>0, <1>13, <2>3, AnswerFacts, SendFacts
  <2>. QED BY <1>13, <2>2, <2>3, <2>4, <2>5, AnswerFacts
<1>. QED BY <1>1, <1>2, <1>3, <1>4, <1>5, <1>6, <1>7, <1>8, <1>9, <1>10, <1>11,
            <1>12, <1>13, StepCases

LEMMA HandOverInvariant == Spec => []HandOver
<1>. QED BY HandOverInit, HandOverStep, TypeCorrect, PTL DEF Spec

(* No step makes the running collector forget a submitted transaction: it  *)
(* is always in the channel, pending or settled.                           *)
THEOREM NothingIsLost == Spec => []NothingLost
<1>1. HandOver => NothingLost BY DEF HandOver
<1>. QED BY <1>1, HandOverInvariant, PTL

(* Every confirmation the collector counts finds its submission timestamp. *)
THEOREM ConfirmationsAreTimed == Spec => []EveryConfirmationTimed
<1>1. HandOver => EveryConfirmationTimed BY DEF HandOver
<1>. QED BY <1>1, HandOverInvariant, PTL

-----------------------------------------------------------------------------
(* Hashes that are not repeated.  While the submission of a transaction is *)
(* in the channel, nothing else speaks of that transaction; once it is     *)
(* tracked, it is tracked from its submission on, and it is settled once.  *)
Fresh(m) == m.kind = "Submitted" /\ m.hash \notin Repeats

Alone(h) ==
    /\ h \notin Tracked \cup settled \cup toCheck \cup toExpire
    /\ ~(checks[h] > 0) /\ ~(expiries[h] > 0)

OneStory ==
    /\ \A i \in DOMAIN queue : Fresh(queue[i]) =>
          /\ Alone(queue[i].hash)
          /\ queue[i].at = submittedAt[queue[i].hash]
          /\ \A j \in DOMAIN queue \ {i} : queue[j].hash # queue[i].hash
    /\ \A h \in Tracked \ Repeats : pending[h] = submittedAt[h]
    /\ Tracked \cap settled \subseteq Repeats

LEMMA OneStoryInit == Init => OneStory
BY DEF Init, CollInit, OneStory, Tracked

LEMMA OneStoryStep == TypeOK /\ HandOver /\ OneStory /\ [Next]_vars => OneStory'
<1>. SUFFICES ASSUME TypeOK, HandOver, OneStory, [Next]_vars
              PROVE  OneStory'
  BY DEF OneStory
<1>0. queue \in Seq(Message) BY DEF TypeOK
<1>. USE DEF OneStory, Alone, Fresh
<1>1. CASE Quiet
  BY <1>1 DEF Quiet, Tracked
<1>2. CASE Tick
  BY <1>2 DEF Tick, Tracked, collVars, taskVars
<1>3. ASSUME NEW h \in Hash, SubOk(h) PROVE OneStory'
  <2>. DEFINE n == Len(queue)
  <2>1. UNCHANGED <<pending, settled, toCheck, toExpire, checks, expiries>>
    BY <1>3 DEF SubOk, collVars, taskVars
  <2>2. h \notin Repeats => h \notin Stamped BY <1>3, SubOkFacts
  <2>3. h \notin Repeats => Alone(h) BY <2>2 DEF HandOver
  <2>4. \A i \in DOMAIN queue : queue[i].hash = h => h \in Repeats
    BY <2>2 DEF HandOver
  <2>5. Tracked' = Tracked /\ (h \notin Repeats => h \notin Tracked)
    BY <1>3, <2>3, SubOkFacts
  <2>6. \A g \in Tracked \ Repeats : pending'[g] = submittedAt'[g]
    BY <1>3, <2>1, <2>5, SubOkFacts DEF Tracked
  <2>7. ASSUME NEW i \in DOMAIN queue', Fresh(queue'[i])
        PROVE  /\ Alone(queue[i].hash)'
               /\ queue'[i].at = submittedAt'[queue'[i].hash]
               /\ \A j \in DOMAIN queue' \ {i} : queue'[j].hash # queue'[i].hash
    <3>1. CASE ~ReceiverOpen
      BY <1>0, <1>3, <3>1, <2>7, SubOkFacts, SendFacts DEF HandOver
    <3>2. CASE ReceiverOpen
      <4>1. /\ n \in Nat /\ DOMAIN queue = 1 .. n /\ DOMAIN queue' = 1 .. n + 1
            /\ \A j \in 1 .. n : queue'[j] = queue[j] /\ queue[j].hash \in Hash
            /\ queue'[n + 1].hash = h /\ queue'[n + 1].at = now
        <5>1. /\ queue' = Sent(Submission(h, now)) /\ Submission(h, now) \in Message
              /\ Submission(h, now).hash = h /\ Submission(h, now).at = now
          BY <1>3, SubOkFacts
        <5>2. /\ n \in Nat /\ DOMAIN queue = 1 .. n /\ DOMAIN queue' = 1 .. n + 1
              /\ \A j \in 1 .. n : queue'[j] = queue[j] /\ queue[j] \in Message
              /\ queue'[n + 1] = Submission(h, now)
          BY <1>0, <3>2, <5>1, SendFacts
        <5>. QED BY <5>1, <5>2, MessageKinds
      <4>. HIDE DEF n
      <4>2. CASE i = n + 1
        <5>1. queue'[i].hash = h /\ queue'[i].at = submittedAt'[h]
          BY <1>3, <4>1, <4>2, SubOkFacts
        <5>2. h \notin Repeats /\ Alone(h)' BY <2>1, <2>3, <2>5, <2>7, <4>1, <4>2
        <5>3. \A j \in DOMAIN queue' \ {i} : j \in DOMAIN queue /\ queue'[j] = queue[j]
          BY <4>1, <4>2
        <5>. QED BY <2>4, <5>1, <5>2, <5>3
      <4>3. CASE i \in 1 .. n
        <5>1. queue'[i] = queue[i] /\ i \in DOMAIN queue BY <4>1, <4>3
        <5>2. queue[i].hash # h BY <5>1, <2>4, <2>7
        <5>3. submittedAt'[queue[i].hash] = submittedAt[queue[i].hash]
          BY <1>3, <4>1, <4>3, <5>2, SubOkFacts
        <5>. QED BY <2>7, <4>1, <5>1, <5>2, <5>3, <2>1, <2>5
      <4>. QED BY <4>1, <4>2, <4>3
    <3>. QED BY <3>1, <3>2
  <2>. QED BY <2>1, <2>5, <2>6, <2>7
<1>4. CASE CollExit \/ CollGiveUp
  BY <1>4 DEF CollExit, CollGiveUp, CloseReceiver, Tracked, taskVars
<1>5. CASE CollTrack
  <2>. DEFINE g == Head(queue).hash
  <2>1. UNCHANGED <<submittedAt, settled, toCheck, toExpire, checks, expiries>>
    BY <1>5 DEF CollTrack, taskVars
  <2>2. /\ 1 \in DOMAIN queue /\ queue[1] = Head(queue)
        /\ \A i \in DOMAIN queue' : i + 1 \in DOMAIN queue \ {1}
                                   /\ queue'[i] = queue[i + 1]
    BY <1>0, <1>5, TrackFacts, ReceiveFacts
  <2>3. g \notin Repeats =>
           /\ Alone(g) /\ Head(queue).at = submittedAt[g]
           /\ \A j \in DOMAIN queue \ {1} : queue[j].hash # g
    BY <1>5, <2>2, TrackFacts
  <2>4. /\ Tracked' = Tracked \cup {g}
        /\ g \notin Repeats => pending'[g] = submittedAt[g]
        /\ \A f \in Tracked \ (Repeats \cup {g}) : pending'[f] = submittedAt[f]
    BY <1>5, <2>3, TrackFacts DEF Tracked
  <2>5. \A i, j \in DOMAIN queue' : i # j => i + 1 # j + 1
    BY <1>0, <1>5, TrackFacts, ReceiveFacts
  <2>. HIDE DEF g
  <2>. QED BY <2>1, <2>2, <2>3, <2>4, <2>5
<1>6. CASE CollSettle
  <2>. DEFINE g == Head(queue).hash
  <2>1. UNCHANGED <<submittedAt, toCheck, toExpire, checks, expiries>>
    BY <1>6 DEF CollSettle, taskVars
  <2>2. /\ 1 \in DOMAIN queue /\ queue[1] = Head(queue)
        /\ \A i \in DOMAIN queue' : i + 1 \in DOMAIN queue \ {1}
                                   /\ queue'[i] = queue[i + 1]
    BY <1>0, <1>6, SettleFacts, ReceiveFacts
  <2>3. \A i, j \in DOMAIN queue' : i # j => i + 1 # j + 1
    BY <1>0, <1>6, SettleFacts, ReceiveFacts
  <2>4. Tracked' = Tracked \ {g} /\ settled' = settled \cup {g}
        /\ \A f \in Tracked' \ Repeats : pending'[f] = submittedAt[f]
    BY <1>6, SettleFacts DEF Tracked
  <2>5. \A i \in DOMAIN queue \ {1} : Fresh(queue[i]) => queue[i].hash # g
    BY <2>2
  <2>. HIDE DEF g
  <2>. QED BY <2>1, <2>2, <2>3, <2>4, <2>5
<1>7. CASE CollIgnore
  <2>1. UNCHANGED <<submittedAt, pending, Tracked, settled, toCheck, toExpire, checks,
                    expiries>>
        /\ queue # <<>> /\ queue' = Tail(queue)
    BY <1>7 DEF CollIgnore, taskVars, Tracked
  <2>2. \A i \in DOMAIN queue' : i + 1 \in DOMAIN queue /\ queue'[i] = queue[i + 1]
    BY <1>0, <2>1, ReceiveFacts
  <2>3. \A i, j \in DOMAIN queue' : i # j => i + 1 # j + 1
    BY <1>0, <2>1, ReceiveFacts
  <2>. QED BY <2>1, <2>2, <2>3
<1>8. CASE CollBook
  BY <1>8 DEF CollBook, Tracked, taskVars
<1>9. CASE CollScan
  <2>1. toExpire' \subseteq Tracked /\ toCheck' \subseteq Tracked
    BY <1>9, DerivedSets DEF CollScan
  <2>. QED BY <1>9, <2>1 DEF CollScan, Tracked, taskVars
<1>10. ASSUME NEW h \in Hash, CollExpire(h) PROVE OneStory'
  <2>1. /\ h \in toExpire /\ toExpire' = toExpire \ {h}
        /\ \A g \in Hash \ {h} : expiries'[g] = expiries[g]
        /\ UNCHANGED <<queue, submittedAt, pending, Tracked, settled, toCheck, checks>>
    BY <1>10 DEF CollExpire, Tracked, TypeOK
  <2>2. \A i \in DOMAIN queue : queue[i].hash \in Hash
    BY <1>0, MessageKinds, SendFacts
  <2>. QED BY <2>1, <2>2
<1>11. ASSUME NEW batch \in SUBSET toCheck, CollSpawn(batch) PROVE OneStory'
  <2>1. /\ toCheck' = toCheck \ batch
        /\ \A g \in Hash \ batch : checks'[g] = checks[g]
        /\ UNCHANGED <<queue, submittedAt, pending, Tracked, settled, toExpire, expiries>>
    BY <1>11 DEF CollSpawn, Tracked, TypeOK
  <2>2. \A i \in DOMAIN queue : queue[i].hash \in Hash
    BY <1>0, MessageKinds, SendFacts
  <2>. QED BY <2>1, <2>2
<1>12. ASSUME NEW h \in Hash, CheckPending(h) PROVE OneStory'
  <2>1. /\ \A g \in Hash : checks'[g] > 0 => checks[g] > 0
        /\ UNCHANGED <<queue, submittedAt, pending, Tracked, settled, toCheck, toExpire,
                       expiries>>
    BY <1>12 DEF CheckPending, Tracked, TypeOK, collVars
  <2>2. \A i \in DOMAIN queue : queue[i].hash \in Hash
    BY <1>0, MessageKinds, SendFacts
  <2>. QED BY <2>1, <2>2
<1>13. ASSUME NEW h \in Hash, NEW k \in ResultKind,
              CheckAnswered(h, k) \/ (k = "TimedOut" /\ ExpirySend(h))
       PROVE  OneStory'
  <2>. DEFINE n == Len(queue)
  <2>1. checks[h] > 0 \/ expiries[h] > 0 BY <1>13, AnswerFacts
  <2>2. \A i \in DOMAIN queue : Fresh(queue[i]) => queue[i].hash # h
    BY <2>1
  <2>3. CASE ~ReceiverOpen
    BY <1>0, <1>13, <2>3, AnswerFacts, SendFacts DEF HandOver
  <2>4. CASE ReceiverOpen
    <3>1. /\ n \in Nat /\ DOMAIN queue = 1 .. n /\ DOMAIN queue' = 1 .. n + 1
          /\ \A j \in 1 .. n : queue'[j] = queue[j] /\ queue[j].hash \in Hash
          /\ queue'[n + 1].hash = h /\ queue'[n + 1].kind # "Submitted"
      BY <1>0, <1>13, <2>4, AnswerFacts, SendFacts, MessageKinds DEF ResultKind
    <3>2. /\ \A g \in Hash : /\ checks'[g] > 0 => checks[g] > 0
                             /\ expiries'[g] > 0 => expiries[g] > 0
          /\ UNCHANGED <<submittedAt, pending, settled, toCheck, toExpire, Tracked>>
      BY <1>13, AnswerFacts
    <3>. HIDE DEF n
    <3>3. ASSUME NEW i \in DOMAIN queue', Fresh(queue'[i])
          PROVE  /\ Alone(queue[i].hash)'
                 /\ queue'[i].at = submittedAt'[queue'[i].hash]
                 /\ \A j \in DOMAIN queue' \ {i} : queue'[j].hash # queue'[i].hash
      <4>1. i \in DOMAIN queue /\ queue'[i] = queue[i] BY <3>1, <3>3
      <4>2. Alone(queue[i].hash) /\ queue[i].hash # h BY <2>2, <3>3, <4>1
      <4>3. \A j \in DOMAIN queue' \ {i} : queue'[j].hash # queue[i].hash
        BY <3>1, <3>3, <4>1, <4>2
      <4>4. Fresh(queue[i]) /\ queue[i].hash \in Hash
        BY <3>1, <3>3, <4>1
      <4>5. queue[i].at = submittedAt'[queue[i].hash] BY <3>2, <4>1, <4>4
      <4>6. \A g \in Hash : Alone(g) => Alone(g)' BY <3>2
      <4>7. Alone(queue[i].hash)' BY <4>1, <4>2, <4>4, <4>6
      <4>. QED BY <4>1, <4>3, <4>5, <4>7
    <3>. QED BY <3>2, <3>3
  <2>. QED BY <2>3, <2>4
<1>. QED BY <1>1, <1>2, <1>3, <1>4, <1>5, <1>6, <1>7, <1>8, <1>9, <1>10, <1>11,
            <1>12, <1>13, StepCases

LEMMA OneStoryInvariant == Spec => []OneStory
<1>. QED BY OneStoryInit, OneStoryStep, HandOverInvariant, TypeCorrect, PTL DEF Spec

(* No result of a transaction can overtake its submission in the channel,  *)
(* so that the collector never drops it as unknown.                        *)
THEOREM ResultsFollow == Spec => []ResultsFollowSubmission
<1>1. TypeOK /\ OneStory => ResultsFollowSubmission
  <2>. SUFFICES ASSUME TypeOK, OneStory, NEW h \in Queued \ Repeats
                PROVE  /\ h \notin Tracked \cup settled \cup toCheck \cup toExpire
                       /\ checks[h] = 0 /\ expiries[h] = 0
                       /\ \A k \in ResultKind : h \notin Answered(k)
    BY DEF ResultsFollowSubmission
  <2>1. PICK i \in DOMAIN queue : queue[i].kind = "Submitted" /\ queue[i].hash = h
    BY DEF Queued
  <2>2. Alone(h) /\ \A j \in DOMAIN queue \ {i} : queue[j].hash # h
    BY <2>1 DEF OneStory, Fresh
  <2>3. checks[h] \in Nat /\ expiries[h] \in Nat BY DEF TypeOK, Queued
  <2>4. \A k \in ResultKind : h \notin Answered(k)
    BY <2>1, <2>2 DEF Answered, ResultKind
  <2>. QED BY <2>2, <2>3, <2>4 DEF Alone
<1>. QED BY <1>1, OneStoryInvariant, TypeCorrect, PTL
=============================================================================
