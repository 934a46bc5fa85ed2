------------------------------ MODULE Benchmark ------------------------------
(***************************************************************************)
(* BenchmarkRunner::run (src/benchmark/mod.rs): the submitter and the      *)
(* collector, the status-check and expiry tasks the collector spawns, and  *)
(* run() itself, which waits for the two with timeouts and then reports.   *)
(***************************************************************************)
EXTENDS Submitter, Collector

Init ==
    /\ now = 0
    /\ done = FALSE
    /\ queue = <<>>
    /\ submitted = 0 /\ confirmed = 0 /\ failed = 0 /\ timeouts = 0 /\ times = 0
    /\ submittedAt = [h \in Hash |-> Absent]
    /\ SubInit
    /\ CollInit
    /\ checks = [h \in Hash |-> 0]
    /\ expiries = [h \in Hash |-> 0]
    /\ runPc = "joinSubmitter"
    /\ collDeadline = 0
    /\ reported = [submitted |-> 0, failed |-> 0]

-----------------------------------------------------------------------------
(* The tasks the collector spawns.                                         *)

(* A status check is answered "still pending": its task ends.              *)
CheckPending(h) ==
    /\ checks[h] > 0
    /\ "Pending" \in CheckOutcomes
    /\ checks' = [checks EXCEPT ![h] = @ - 1]
    /\ UNCHANGED <<now, done, queue, stats, submittedAt, subVars, collVars,
                   expiries, runVars>>

(* A status check is answered with a result: its task sends it.            *)
CheckAnswered(h, outcome) ==
    /\ checks[h] > 0
    /\ outcome \in CheckOutcomes \ {"Pending"}
    /\ Len(queue) < MaxQueue
    /\ queue' = Sent(Result(outcome, h))
    /\ checks' = [checks EXCEPT ![h] = @ - 1]
    /\ UNCHANGED <<now, done, stats, submittedAt, subVars, collVars, expiries,
                   runVars>>

ExpirySend(h) ==
    /\ expiries[h] > 0
    /\ Len(queue) < MaxQueue
    /\ queue' = Sent(Result("TimedOut", h))
    /\ expiries' = [expiries EXCEPT ![h] = @ - 1]
    /\ UNCHANGED <<now, done, stats, submittedAt, subVars, collVars, checks,
                   runVars>>

TaskStep ==
    \E h \in Hash :
        \/ CheckPending(h) \/ ExpirySend(h)
        \/ \E outcome \in CheckOutcomes : CheckAnswered(h, outcome)

-----------------------------------------------------------------------------
(* run(): join the submitter, join the collector, report.                  *)

SubmitterOver == subPc \in {"ended", "panicked"}

(* The submitter is over, by its own return or by a panic that is logged:  *)
(* start waiting for the collector.                                        *)
RunJoinSubmitter ==
    /\ runPc = "joinSubmitter"
    /\ SubmitterOver
    /\ runPc' = "joinCollector"
    /\ collDeadline' = now + CollectorWait
    /\ UNCHANGED <<now, done, queue, stats, submittedAt, subVars, collVars,
                   taskVars, reported>>

(* The submitter takes too long: it is left running and done is raised.    *)
RunSubmitterTimeout ==
    /\ runPc = "joinSubmitter"
    /\ ~SubmitterOver
    /\ now >= SubmitterWait
    /\ done' = TRUE
    /\ runPc' = "joinCollector"
    /\ collDeadline' = now + CollectorWait
    /\ UNCHANGED <<now, queue, stats, submittedAt, subVars, collVars, taskVars,
                   reported>>

RunJoinCollector ==
    /\ runPc = "joinCollector"
    /\ collPc = "exit"
    /\ runPc' = "report"
    /\ UNCHANGED <<now, done, queue, stats, submittedAt, subVars, collVars,
                   taskVars, collDeadline, reported>>

(* MUTANT: the collector is only abandoned once the benchmark is done. *)
CollectorTimeoutWhenDone ==
    /\ runPc = "joinCollector"
    /\ done
    /\ collPc # "exit"
    /\ now >= collDeadline
    /\ runPc' = "report"
    /\ UNCHANGED <<now, done, queue, stats, submittedAt, subVars, collVars,
                   taskVars, collDeadline, reported>>

(* The collector takes too long: it is left running.                       *)
RunCollectorTimeout ==
    /\ runPc = "joinCollector"
    /\ collPc # "exit"
    /\ now >= collDeadline
    /\ runPc' = "report"
    /\ UNCHANGED <<now, done, queue, stats, submittedAt, subVars, collVars,
                   taskVars, collDeadline, reported>>

(* The stats are cloned under the guard and returned.                      *)
RunReport ==
    /\ runPc = "report"
    /\ StatsFree
    /\ runPc' = "returned"
    /\ reported' = [submitted |-> submitted, failed |-> failed]
    /\ UNCHANGED <<now, done, queue, stats, submittedAt, subVars, collVars,
                   taskVars, collDeadline>>

RunStep ==
    \/ RunJoinSubmitter \/ RunSubmitterTimeout
    \/ RunJoinCollector \/ RunCollectorTimeout \/ RunReport

-----------------------------------------------------------------------------
(* The clock advances until the horizon, and on to the collector deadline. *)
Tick ==
    /\ now < Horizon \/ now < collDeadline
    /\ now' = now + 1
    /\ UNCHANGED <<done, queue, stats, submittedAt, subVars, collVars, taskVars,
                   runVars>>

(* run() has returned.  The tasks it left behind go on until the process   *)
(* exits, which may be at any time.                                        *)
Terminated ==
    /\ runPc = "returned"
    /\ UNCHANGED vars

Next == Tick \/ SubmitterStep \/ CollectorStep \/ TaskStep \/ RunStep \/ Terminated

Spec == Init /\ [][Next]_vars

(* The runtime polls every ready task and the clock never stops.  Whether  *)
(* the node ever answers a status check is left open.                      *)
Fairness ==
    /\ WF_vars(Tick)
    /\ WF_vars(SubmitterStep)
    /\ WF_vars(CollectorStep)
    /\ WF_vars(RunStep)

FairSpec == Spec /\ Fairness

-----------------------------------------------------------------------------
(* Every variable keeps its type.                                          *)
TypeOK ==
    /\ now \in Nat
    /\ done \in BOOLEAN
    /\ queue \in Seq(Message)
    /\ submitted \in Nat /\ confirmed \in Nat /\ failed \in Nat
    /\ timeouts \in Nat /\ times \in Nat
    /\ submittedAt \in [Hash -> Nat \cup {Absent}]
    /\ subPc \in {"check", "pace", "call", "sending", "backoff", "ended",
                  "panicked"}
    /\ txCount \in Nat
    /\ inFlight \in SUBSET Hash
    /\ accounts \in Nat
    /\ collPc \in {"top", "recv", "book", "scan", "dispatch", "exit"}
    /\ pending \in [Hash -> Nat \cup {Absent}]
    /\ held \in ResultMsg \cup {NoMessage}
    /\ toExpire \in SUBSET Hash
    /\ toCheck \in SUBSET Hash
    /\ completed \in Nat
    /\ settled \in SUBSET Hash
    /\ checks \in [Hash -> Nat]
    /\ expiries \in [Hash -> Nat]
    /\ runPc \in {"joinSubmitter", "joinCollector", "report", "returned"}
    /\ collDeadline \in Nat
    /\ reported \in [submitted : Nat, failed : Nat]

(* While the collector runs, every hash the submitter counted is in the    *)
(* channel, pending or settled: no step of either task, nor any task the   *)
(* collector spawned, makes it forget one (the hand-over between           *)
(* submitted_timestamps, the channel and pending_tx_checks).               *)
NothingLost ==
    ReceiverOpen => Stamped \subseteq Queued \cup Tracked \cup settled

(* A result of a transaction exists, as an outstanding check or expiry, as *)
(* a message or as a booking, only after the collector has received the    *)
(* transaction's Submitted message: a result is never dropped as unknown   *)
(* because it overtook the submission.  A repeated hash may still be under *)
(* check when its next submission is sent.                                 *)
ResultsFollowSubmission ==
    \A h \in Queued \ Repeats :
        /\ h \notin Tracked \cup settled \cup toCheck \cup toExpire
        /\ checks[h] = 0 /\ expiries[h] = 0
        /\ \A k \in ResultKind : h \notin Answered(k)

(* The reported confirmations never exceed the reported submissions, even  *)
(* when several checks of one transaction answer and when a transaction    *)
(* was timed out and confirmed.                                            *)
ConfirmedWithinSubmitted == confirmed <= submitted

(* Each confirmation counted has its duration in confirmation_times: the   *)
(* stamp is written before the message that leads to it is sent.           *)
EveryConfirmationTimed == times = confirmed

(* Every transaction the collector tracked is in a count of the report:    *)
(* booked as confirmed, failed or timed out, or charged as a timeout by a  *)
(* collector that gives up.                                                *)
BooksCoverTracked ==
    Cardinality(settled) + (IF ReceiverOpen THEN 0 ELSE Cardinality(Tracked))
        <= confirmed + failed + timeouts + One(collPc = "book")

(* No transaction is timed out early: whatever is about to be, being or    *)
(* was reported as timed out has been submitted for longer than the        *)
(* five-minute limit, whenever the message is sent or received, unless its *)
(* hash is repeated, when an older timeout may meet a newer submission.    *)
(* It is about these messages: a collector that gives up charges every     *)
(* pending transaction, also one that is younger than the limit.           *)
TimeoutsAreOverdue ==
    \A h \in Hash \ Repeats :
        \/ h \in toExpire
        \/ expiries[h] > 0
        \/ h \in Answered("TimedOut")
        \/ held = Result("TimedOut", h)
        => submittedAt[h] # Absent /\ now - submittedAt[h] > TxTimeout

(* in_flight only grows, so the limit on concurrent submissions is a limit *)
(* on the hashes of a whole benchmark, and on its submissions when no hash *)
(* is repeated.                                                            *)
SubmissionsCapped ==
    /\ Cardinality(Stamped) <= MaxInFlight
    /\ Repeats = {} => submitted <= MaxInFlight

-----------------------------------------------------------------------------
(* The abstract lifecycle, read off the concrete state.                    *)
PhaseOf(h) ==
    IF h \notin Stamped THEN "new"
    ELSE IF collPc = "book" /\ held.hash = h THEN "resolved"
    ELSE IF h \in settled THEN "booked"
    ELSE IF h \in Tracked THEN "tracked"
    ELSE "announced"

Lifecycle == INSTANCE TxLifecycle WITH
                 phase <- [h \in Hash |-> PhaseOf(h)],
                 open <- ReceiverOpen,
                 accepted <- submitted,
                 confirmed <- confirmed

(* When no hash is repeated run() implements the lifecycle: each           *)
(* transaction is resolved once and booked at most once.                   *)
ImplementsLifecycle == Lifecycle!Spec

(* The copy that run() returns is current when it is made.  A submitter    *)
(* that was left running has at most one submission under way, unless its  *)
(* duration is longer than the two hours run() waits.  A check never       *)
(* answers that a transaction failed, so that failed counts submissions.   *)
Summary == INSTANCE RunSummary WITH
               counted <- submitted + failed,
               reported <- reported.submitted + reported.failed,
               over <- runPc = "returned",
               capped <- Duration > SubmitterWait

ImplementsSummary == Summary!Spec

(* run() returns whatever the node and the spawned tasks do: the timeouts   *)
(* on the two joins are there so that it does not hang.  It needs a channel *)
(* in which no send has to wait: see the README on the lock and the channel *)
RunReturns == <>(runPc = "returned")


(* The hang.  The submitter waits for a slot with the stats guard in hand, *)
(* and the collector, the only one to make room, waits for the guard: to   *)
(* book a result, to charge an overdue transaction or to give up.          *)
Hung ==
    /\ subPc = "sending" /\ SubmitterBlocked
    /\ \/ collPc = "book"
       \/ collPc = "dispatch" /\ toExpire # {}
       \/ collPc = "top" /\ done /\ Tracked # {} /\ now > MaxWait

NoWayOut == Hung' /\ (runPc' = "returned" => runPc = "returned")

(* The hang is final: no step of any task, no timeout and no answer of the *)
(* node ends it, and run() does not return from it.                        *)
HangIsFinal == [][Hung => NoWayOut]_vars

-----------------------------------------------------------------------------
(* Claims of comments and log messages that the code does not keep.        *)

(* completed_count is declared as tracking the completed transactions and  *)
(* logged as such: there are never more of them than were submitted.       *)
CompletedOnce == completed <= submitted

(* in_flight is declared as the in-flight transactions and limits          *)
(* concurrency: none of them has been resolved already.                    *)
InFlightAreUnresolved == ReceiverOpen => inFlight \cap settled = {}

(* The collector is said to exit after checking the remaining              *)
(* transactions: when it ends, every submitted one has been tracked.       *)
ExitAfterChecking ==
    runPc = "report" /\ ~ReceiverOpen => Stamped \subseteq Tracked \cup settled
=============================================================================
