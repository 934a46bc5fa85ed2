----------------------------- MODULE BenchState -----------------------------
(***************************************************************************)
(* The state shared by the tasks of BenchmarkRunner::run                   *)
(* (src/benchmark/mod.rs): the constants of the program, the mpsc channel, *)
(* the stats mutex, and the local variables of each task.  Submitter,      *)
(* Collector and Benchmark extend this module with the tasks' steps.       *)
(*                                                                         *)
(* Time is an integer clock.  Only the order of the program's deadlines is *)
(* kept, never their length: a model may scale 500 ms, 5 min, 10 min, the  *)
(* duration and the waits down as long as it keeps the order they have in  *)
(* the run it stands for.                                                  *)
(***************************************************************************)
EXTENDS Integers, Sequences, FiniteSets

CONSTANTS
    Hash,          \* transaction hashes the node may answer a submission with
    Capacity,      \* slots of the mpsc channel (1000)
    MaxInFlight,   \* max_concurrent_submissions (1, 3 or 10)
    Interval,      \* tx_interval_ms; 0 is "send as fast as possible"
    Duration,      \* duration_seconds: the submitter's deadline
    Grace,         \* 30 s that run() grants the submitter after the deadline
    WaitCap,       \* 7200 s, the cap on that wait
    CollectorWait, \* 60 s that run() then grants the collector
    CheckDelay,    \* STATUS_CHECK_INITIAL_DELAY_MS
    TxTimeout,     \* 5 min: a pending transaction is marked as timed out
    MaxWait,       \* MAX_WAIT_TIME_MINUTES: the collector gives up
    BatchSize,     \* status checks spawned between two pauses (5)
    AccountCounts, \* lengths of the account list the program may be run with
    CheckOutcomes, \* what check_transaction_status may answer
    Repeats        \* the hashes among them that it may answer again

CONSTANTS          \* bounds of the model; the program has none of them
    MaxTx,         \* submission attempts
    MaxTasks,      \* outstanding status checks, and expiries, of one hash
    MaxQueue,      \* messages in the channel when a status task may send
    Horizon        \* last instant at which the clock ticks on its own

ASSUME HashAssumption == IsFiniteSet(Hash)
ASSUME SizeAssumption ==
    /\ Capacity \in Nat \ {0}
    /\ MaxInFlight \in Nat \ {0}
    /\ BatchSize \in Nat \ {0}
ASSUME TimeAssumption ==
    /\ Interval \in Nat /\ Duration \in Nat /\ Grace \in Nat
    /\ WaitCap \in Nat /\ CollectorWait \in Nat
    /\ CheckDelay \in Nat /\ TxTimeout \in Nat /\ MaxWait \in Nat
ASSUME InputAssumption ==
    /\ AccountCounts \subseteq Nat
    /\ CheckOutcomes \subseteq {"Confirmed", "Failed", "Pending"}
    /\ Repeats \subseteq Hash
ASSUME BoundAssumption ==
    /\ MaxTx \in Nat /\ MaxTasks \in Nat
    /\ MaxQueue \in Nat /\ Horizon \in Nat

VARIABLES
    now,           \* Instant::now() - start_time
    done,          \* the benchmark_done flag
    queue,         \* the channel: buffered messages, then blocked senders
    submitted,     \* the counters of BenchmarkStats: submitted,
    confirmed,     \*   confirmed,
    failed,        \*   failed,
    timeouts,      \*   timeouts,
    times,         \*   and the length of confirmation_times
    submittedAt,   \* stats.submitted_timestamps
    subPc,         \* the submitter task
    txCount,       \*   its tx_count
    inFlight,      \*   keys of in_flight
    accounts,      \*   accounts.len()
    collPc,        \* the collector task
    pending,       \*   pending_tx_checks
    held,          \*   the message whose transaction it is booking
    toExpire,      \*   overdue transactions it has still to time out
    toCheck,       \*   tx_to_check: transactions it has still to check
    completed,     \*   completed_count
    settled,       \*   history: hashes ever removed from pending
    checks,        \* outstanding status-check tasks, per hash
    expiries,      \* outstanding TimedOut-sending tasks, per hash
    runPc,         \* run() itself
    collDeadline,  \*   when it stops waiting for the collector
    reported       \*   the submitted and failed it has returned

stats    == <<submitted, confirmed, failed, timeouts, times>>
subVars  == <<subPc, txCount, inFlight, accounts>>
collVars == <<collPc, pending, held, toExpire, toCheck, completed, settled>>
taskVars == <<checks, expiries>>
runVars  == <<runPc, collDeadline, reported>>
vars == <<now, done, queue, stats, submittedAt, subVars, collVars, taskVars,
          runVars>>

-----------------------------------------------------------------------------
(* Messages: TransactionStatus.                                            *)

Absent == -1
ResultKind == {"Confirmed", "Failed", "TimedOut"}

Submission(h, t) == [kind |-> "Submitted", hash |-> h, at |-> t]
Result(k, h) == [kind |-> k, hash |-> h]
NoMessage == [kind |-> "none"]

SubmissionMsg == [kind : {"Submitted"}, hash : Hash, at : Nat]
ResultMsg == [kind : ResultKind, hash : Hash]
Message == SubmissionMsg \cup ResultMsg

(* The channel.  tokio hands the slot freed by a pop to the sender that has *)
(* waited longest, so buffer and blocked senders are one FIFO: the first    *)
(* Capacity entries are in the buffer, the senders of the others wait.      *)
(* Once the receiver is dropped every send returns an error at once.        *)

ReceiverOpen == collPc # "exit"
(* MUTANT: a full channel drops the message instead of blocking its sender. *)
SentIfRoom(m) ==
    IF ReceiverOpen /\ Len(queue) < Capacity THEN Append(queue, m) ELSE queue
Sent(m) == IF ReceiverOpen THEN Append(queue, m) ELSE queue
SubmitterBlocked ==
    \E i \in DOMAIN queue : i > Capacity /\ queue[i].kind = "Submitted"

(* The stats mutex.  Only the submitter keeps its guard across an await:   *)
(* across the channel send, and across the pause after a failed submission *)
StatsFree == subPc \notin {"sending", "backoff"}

-----------------------------------------------------------------------------
(* Derived views of the state.                                             *)

Tracked == {h \in Hash : pending[h] # Absent}
Stamped == {h \in Hash : submittedAt[h] # Absent}
(* MUTANT: the scan looks at every submitted transaction, tracked or not. *)
OlderStamped(age) == {h \in Stamped : now - submittedAt[h] > age}
Older(age) == {h \in Tracked : now - pending[h] > age}
Queued == {h \in Hash : \E i \in DOMAIN queue :
               queue[i].kind = "Submitted" /\ queue[i].hash = h}
Answered(k) == {h \in Hash : \E i \in DOMAIN queue :
                    queue[i].kind = k /\ queue[i].hash = h}

NextTxTime == txCount * Interval
SubmitterWait == IF Duration + Grace <= WaitCap THEN Duration + Grace ELSE WaitCap
=============================================================================
