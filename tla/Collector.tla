------------------------------ MODULE Collector ------------------------------
(***************************************************************************)
(* The status collector task (src/benchmark/mod.rs): receives one status   *)
(* message per iteration, then scans the pending transactions, charges the *)
(* overdue ones as timeouts and spawns status checks for the others.       *)
(*                                                                         *)
(*   top      the head of the loop                                         *)
(*   recv     before try_recv                                              *)
(*   book     a transaction was removed from pending; its stats are due    *)
(*   scan     before the scan of pending                                   *)
(*   dispatch expiring and checking what the scan found                    *)
(*   exit     the task is over and the receiver dropped                    *)
(***************************************************************************)
EXTENDS BenchState

CollInit ==
    /\ collPc = "top"
    /\ pending = [h \in Hash |-> Absent]
    /\ held = NoMessage
    /\ toExpire = {}
    /\ toCheck = {}
    /\ completed = 0
    /\ settled = {}

(* Dropping the receiver discards what the channel still holds.            *)
CloseReceiver ==
    /\ collPc' = "exit"
    /\ queue' = <<>>

(* The benchmark is done and nothing is pending: leave the loop.           *)
CollExit ==
    /\ collPc = "top"
    /\ done
    /\ Tracked = {}
    /\ CloseReceiver
    /\ UNCHANGED <<now, done, stats, submittedAt, subVars, pending, held,
                   toExpire, toCheck, completed, settled, taskVars, runVars>>

(* MUTANT: giving up does not charge the transactions given up on. *)
GiveUpUncharged ==
    /\ collPc = "top"
    /\ done
    /\ Tracked # {}
    /\ now > MaxWait
    /\ CloseReceiver
    /\ UNCHANGED <<now, done, stats, submittedAt, subVars, pending, held, toExpire,
                   toCheck, completed, settled, taskVars, runVars>>

(* The benchmark is done and has waited too long: charge what is pending.  *)
CollGiveUp ==
    /\ collPc = "top"
    /\ done
    /\ Tracked # {}
    /\ now > MaxWait
    /\ StatsFree
    /\ timeouts' = timeouts + Cardinality(Tracked)
    /\ CloseReceiver
    /\ UNCHANGED <<now, done, submitted, confirmed, failed, times, submittedAt,
                   subVars, pending, held, toExpire, toCheck, completed, settled, taskVars, runVars>>

CollContinue ==
    /\ collPc = "top"
    /\ done => Tracked # {} /\ now <= MaxWait
    /\ collPc' = "recv"
    /\ UNCHANGED <<now, done, queue, stats, submittedAt, subVars, pending, held,
                   toExpire, toCheck, completed, settled, taskVars, runVars>>

-----------------------------------------------------------------------------
(* try_recv                                                                *)

CollIdle ==
    /\ collPc = "recv"
    /\ queue = <<>>
    /\ collPc' = "scan"
    /\ UNCHANGED <<now, done, queue, stats, submittedAt, subVars, pending, held,
                   toExpire, toCheck, completed, settled, taskVars, runVars>>

(* Submitted: the transaction is pending from its timestamp on.            *)
CollTrack ==
    /\ collPc = "recv"
    /\ queue # <<>>
    /\ Head(queue).kind = "Submitted"
    /\ pending' = [pending EXCEPT ![Head(queue).hash] = Head(queue).at]
    /\ queue' = Tail(queue)
    /\ collPc' = "scan"
    /\ UNCHANGED <<now, done, stats, submittedAt, subVars, held, toExpire,
                   toCheck, completed, settled, taskVars, runVars>>

(* MUTANT: the transaction is looked up but not removed from pending. *)
SettleKeepsPending ==
    /\ collPc = "recv"
    /\ queue # <<>>
    /\ Head(queue).kind \in ResultKind
    /\ Head(queue).hash \in Tracked
    /\ settled' = settled \cup {Head(queue).hash}
    /\ held' = Head(queue)
    /\ queue' = Tail(queue)
    /\ collPc' = "book"
    /\ UNCHANGED <<now, done, stats, submittedAt, subVars, pending, toExpire,
                   toCheck, completed, taskVars, runVars>>

(* A result of a pending transaction: it leaves pending before the stats   *)
(* guard is awaited.                                                       *)
CollSettle ==
    /\ collPc = "recv"
    /\ queue # <<>>
    /\ Head(queue).kind \in ResultKind
    /\ Head(queue).hash \in Tracked
    /\ pending' = [pending EXCEPT ![Head(queue).hash] = Absent]
    /\ settled' = settled \cup {Head(queue).hash}
    /\ held' = Head(queue)
    /\ queue' = Tail(queue)
    /\ collPc' = "book"
    /\ UNCHANGED <<now, done, stats, submittedAt, subVars, toExpire, toCheck,
                   completed, taskVars, runVars>>

(* A result of a transaction that is not pending any more is dropped.      *)
CollIgnore ==
    /\ collPc = "recv"
    /\ queue # <<>>
    /\ Head(queue).kind \in ResultKind
    /\ Head(queue).hash \notin Tracked
    /\ queue' = Tail(queue)
    /\ collPc' = "scan"
    /\ UNCHANGED <<now, done, stats, submittedAt, subVars, pending, held,
                   toExpire, toCheck, completed, settled, taskVars, runVars>>

(* Under the stats guard, count the result.  A confirmation is timed when  *)
(* the submission left a timestamp.                                        *)
One(condition) == IF condition THEN 1 ELSE 0

(* MUTANT: a confirmation that comes late takes back a timeout charge.     *)
BookUncharges ==
    /\ collPc = "book"
    /\ StatsFree
    /\ confirmed' = confirmed + One(held.kind = "Confirmed")
    /\ times' = times + One(held.kind = "Confirmed"
                             /\ submittedAt[held.hash] # Absent)
    /\ failed' = failed + One(held.kind = "Failed")
    /\ timeouts' = timeouts + One(held.kind = "TimedOut")
                        - One(held.kind = "Confirmed"
                               /\ now - submittedAt[held.hash] > TxTimeout)
    /\ completed' = completed + 1
    /\ held' = NoMessage
    /\ collPc' = "scan"
    /\ UNCHANGED <<now, done, queue, submitted, submittedAt, subVars, pending,
                   toExpire, toCheck, settled, taskVars, runVars>>

(* MUTANT: the result is booked without waiting for the stats guard.       *)
BookUnguarded ==
    /\ collPc = "book"
    /\ confirmed' = confirmed + One(held.kind = "Confirmed")
    /\ times' = times + One(held.kind = "Confirmed"
                             /\ submittedAt[held.hash] # Absent)
    /\ failed' = failed + One(held.kind = "Failed")
    /\ timeouts' = timeouts + One(held.kind = "TimedOut")
    /\ completed' = completed + 1
    /\ held' = NoMessage
    /\ collPc' = "scan"
    /\ UNCHANGED <<now, done, queue, submitted, submittedAt, subVars, pending,
                   toExpire, toCheck, settled, taskVars, runVars>>

CollBook ==
    /\ collPc = "book"
    /\ StatsFree
    /\ confirmed' = confirmed + One(held.kind = "Confirmed")
    /\ times' = times + One(held.kind = "Confirmed"
                             /\ submittedAt[held.hash] # Absent)
    /\ failed' = failed + One(held.kind = "Failed")
    /\ timeouts' = timeouts + One(held.kind = "TimedOut")
    /\ completed' = completed + 1
    /\ held' = NoMessage
    /\ collPc' = "scan"
    /\ UNCHANGED <<now, done, queue, submitted, submittedAt, subVars, pending,
                   toExpire, toCheck, settled, taskVars, runVars>>

-----------------------------------------------------------------------------
(* MUTANT: the delay of the first check is used as the timeout. *)
ScanExpiresEarly ==
    /\ collPc = "scan"
    /\ toExpire' = {h \in Older(CheckDelay) : expiries[h] < MaxTasks}
    /\ toCheck' = {h \in Older(CheckDelay) : checks[h] < MaxTasks}
    /\ collPc' = "dispatch"
    /\ UNCHANGED <<now, done, queue, stats, submittedAt, subVars, pending, held,
                   completed, settled, taskVars, runVars>>

(* The scan, with one reading of the clock for all transactions.  MaxTasks *)
(* bounds the tasks that may be outstanding for one hash.                  *)
CollScan ==
    /\ collPc = "scan"
    /\ toExpire' = {h \in Older(TxTimeout) : expiries[h] < MaxTasks}
    /\ toCheck' = {h \in Older(CheckDelay) : checks[h] < MaxTasks}
    /\ collPc' = "dispatch"
    /\ UNCHANGED <<now, done, queue, stats, submittedAt, subVars, pending, held,
                   completed, settled, taskVars, runVars>>

(* An overdue transaction is charged and a task spawned that will report   *)
(* it; it stays pending until that report is received.                     *)
CollExpire(h) ==
    /\ collPc = "dispatch"
    /\ h \in toExpire
    /\ StatsFree
    /\ timeouts' = timeouts + 1
    /\ completed' = completed + 1
    /\ toExpire' = toExpire \ {h}
    /\ expiries' = [expiries EXCEPT ![h] = @ + 1]
    /\ UNCHANGED <<now, done, queue, submitted, confirmed, failed, times,
                   submittedAt, subVars, collPc, pending, held, toCheck, settled,
                   checks, runVars>>

(* Spawn the checks of the next batch.                                     *)
CollSpawn(batch) ==
    /\ collPc = "dispatch"
    /\ toExpire = {}
    /\ batch # {}
    /\ batch \subseteq toCheck
    /\ Cardinality(batch) = BatchSize \/ batch = toCheck
    /\ Cardinality(batch) <= BatchSize
    /\ toCheck' = toCheck \ batch
    /\ checks' = [h \in Hash |-> IF h \in batch THEN checks[h] + 1 ELSE checks[h]]
    /\ UNCHANGED <<now, done, queue, stats, submittedAt, subVars, collPc, pending,
                   held, toExpire, completed, settled, expiries, runVars>>

(* Every batch is out: sleep, and start the next iteration.                *)
CollSleep ==
    /\ collPc = "dispatch"
    /\ toExpire = {}
    /\ toCheck = {}
    /\ collPc' = "top"
    /\ UNCHANGED <<now, done, queue, stats, submittedAt, subVars, pending, held,
                   toExpire, toCheck, completed, settled, taskVars, runVars>>

CollectorStep ==
    \/ CollExit \/ CollGiveUp \/ CollContinue
    \/ CollIdle \/ CollTrack \/ CollSettle \/ CollIgnore \/ CollBook
    \/ CollScan \/ CollSleep
    \/ \E h \in Hash : CollExpire(h)
    \/ \E batch \in SUBSET toCheck : CollSpawn(batch)
=============================================================================
