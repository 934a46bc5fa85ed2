------------------------------ MODULE Submitter ------------------------------
(***************************************************************************)
(* The submitter task (src/benchmark/mod.rs): submits transactions at the  *)
(* target rate until the deadline, then raises benchmark_done.             *)
(*                                                                         *)
(*   check    the head of the while loop                                   *)
(*   pace     sleeping until next_tx_time                                  *)
(*   call     waiting for the node's answer to submit_transfer & co        *)
(*   sending  holding the stats guard, sending Submitted                   *)
(*   backoff  holding the stats guard, pausing after a failed submission   *)
(*   ended    the loop is over and done is set                             *)
(*   panicked the account index panicked: done stays as it is              *)
(***************************************************************************)
EXTENDS BenchState

SubInit ==
    /\ subPc = "check"
    /\ txCount = 0
    /\ inFlight = {}
    /\ accounts \in AccountCounts


(* The deadline has passed: leave the loop and signal completion.          *)
SubStop ==
    /\ subPc = "check"
    /\ now >= Duration
    /\ subPc' = "ended"
    /\ done' = TRUE
    /\ UNCHANGED <<now, queue, stats, submittedAt, txCount, inFlight, accounts,
                   collVars, taskVars, runVars>>

(* MUTANT: one submission more than the limit is let through. *)
SubPaceOneMore ==
    /\ subPc = "check"
    /\ now < Duration
    /\ Cardinality(inFlight) <= MaxInFlight
    /\ txCount < MaxTx
    /\ subPc' = "pace"
    /\ UNCHANGED <<now, done, queue, stats, submittedAt, txCount, inFlight,
                   accounts, collVars, taskVars, runVars>>

(* MUTANT: the loop only ends when the submitter is told to stop. *)
SubPaceAnyTime ==
    /\ subPc = "check"
    /\ Cardinality(inFlight) < MaxInFlight
    /\ txCount < MaxTx
    /\ subPc' = "pace"
    /\ UNCHANGED <<now, done, queue, stats, submittedAt, txCount, inFlight,
                   accounts, collVars, taskVars, runVars>>

(* Before the deadline and below the in-flight limit: wait for the pace.   *)
(* At the limit the task sleeps and looks again, which changes nothing.    *)
SubPace ==
    /\ subPc = "check"
    /\ now < Duration
    /\ Cardinality(inFlight) < MaxInFlight
    /\ txCount < MaxTx
    /\ subPc' = "pace"
    /\ UNCHANGED <<now, done, queue, stats, submittedAt, txCount, inFlight,
                   accounts, collVars, taskVars, runVars>>

(* tx_count % accounts.len() with no accounts: the task panics.            *)
SubPanic ==
    /\ subPc = "pace"
    /\ now >= NextTxTime
    /\ accounts = 0
    /\ subPc' = "panicked"
    /\ UNCHANGED <<now, done, queue, stats, submittedAt, txCount, inFlight,
                   accounts, collVars, taskVars, runVars>>

(* The pace is reached, possibly after the deadline: call the node.        *)
SubCall ==
    /\ subPc = "pace"
    /\ now >= NextTxTime
    /\ accounts > 0
    /\ subPc' = "call"
    /\ UNCHANGED <<now, done, queue, stats, submittedAt, txCount, inFlight,
                   accounts, collVars, taskVars, runVars>>

(* MUTANT: the timestamp of the submission is not kept. *)
SubOkUnstamped(h) ==
    /\ subPc = "call"
    /\ h \notin inFlight
    /\ inFlight' = inFlight \cup {h}
    /\ submitted' = submitted + 1
    /\ queue' = Sent(Submission(h, now))
    /\ subPc' = "sending"
    /\ UNCHANGED <<now, done, confirmed, failed, timeouts, times, submittedAt,
                   txCount, accounts, collVars, taskVars, runVars>>

(* The node answers with hash h: it goes in flight, is counted and stamped *)
(* under the stats guard, and the guard is kept while the message is sent. *)
SubOk(h) ==
    /\ subPc = "call"
    /\ h \in Repeats \/ submittedAt[h] = Absent
    /\ inFlight' = inFlight \cup {h}
    /\ submitted' = submitted + 1
    /\ submittedAt' = [submittedAt EXCEPT ![h] = now]
    /\ queue' = Sent(Submission(h, now))
    /\ subPc' = "sending"
    /\ UNCHANGED <<now, done, confirmed, failed, timeouts, times, txCount, accounts,
                   collVars, taskVars, runVars>>

(* The send completes, or fails because the receiver is gone: the guard is *)
(* released and the attempt counted.                                       *)
SubSent ==
    /\ subPc = "sending"
    /\ ~SubmitterBlocked
    /\ subPc' = "check"
    /\ txCount' = txCount + 1
    /\ UNCHANGED <<now, done, queue, stats, submittedAt, inFlight, accounts,
                   collVars, taskVars, runVars>>

(* The submission fails: counted, and the guard is kept during the pause.  *)
SubErr ==
    /\ subPc = "call"
    /\ failed' = failed + 1
    /\ subPc' = "backoff"
    /\ UNCHANGED <<now, done, queue, submitted, confirmed, timeouts, times,
                   submittedAt, txCount, inFlight, accounts, collVars,
                   taskVars, runVars>>

SubWake ==
    /\ subPc = "backoff"
    /\ subPc' = "check"
    /\ txCount' = txCount + 1
    /\ UNCHANGED <<now, done, queue, stats, submittedAt, inFlight, accounts,
                   collVars, taskVars, runVars>>

SubmitterStep ==
    \/ SubStop \/ SubPace \/ SubPanic \/ SubCall \/ SubSent \/ SubErr \/ SubWake
    \/ \E h \in Hash : SubOk(h)
=============================================================================
