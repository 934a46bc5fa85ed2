------------------------------- MODULE Program -------------------------------
(***************************************************************************)
(* The whole program (src/main.rs): command line, validation, the runner   *)
(* and its client, the signing scripts, the benchmark, the report and the  *)
(* result file.  Of the benchmark only the submissions are kept, with what *)
(* they carry; Benchmark has its tasks.                                    *)
(*                                                                         *)
(*   parse, validate, connect, scripts, run, print, save, ended            *)
(***************************************************************************)
EXTENDS Connection

CONSTANTS
    NodeUrls,      \* values of --node-url, each a list
    BackupUrls,    \* values of --backup-url; <<>> if it is not given
    AccountCounts, \* values of --accounts
    Kinds,         \* values of --tx-type
    Amounts,       \* values of --min-amount and --max-amount
    MaxTx          \* submissions of one run; a bound of the model

ASSUME InputsAssumption ==
    /\ NodeUrls \subseteq Seq(Url) \ {<<>>}
    /\ BackupUrls \subseteq Seq(Url)
    /\ AccountCounts \subseteq Nat
    /\ Kinds \subseteq {"transfer", "erc20", "complex"}
    /\ Amounts \subseteq Nat
    /\ MaxTx \in Nat

VARIABLES
    args,          \* the other options
    scripts,       \* steps of create_transaction_script that are done
    payloads,      \* what each submission of the run carries
    timeUp,        \* target_end_time has passed
    begun,         \* the submitter is past its test of the time
    panicked,      \* the submitter task has panicked
    submitted,     \* the counters of BenchmarkStats
    failed,
    report,        \* what run() has returned, and the rate that is printed
    file,          \* the result file: absent, old, cut or whole
    exit           \* how main() ended

runVars == <<payloads, timeUp, begun, panicked, submitted, failed>>
outVars == <<report, file, exit>>
vars == <<given, pc, connVars, args, scripts, runVars, outVars>>

(* parsed: --accounts, --tx-type and the other values can be parsed.       *)
(* duration: "long" is longer than the two hours run() waits at most, and  *)
(* "overflow" is more seconds than can be added to the present time.       *)
CommandLine ==
    [parsed : BOOLEAN, duration : {"normal", "long", "overflow"},
     accounts : AccountCounts, kind : Kinds, real : BOOLEAN, seeded : BOOLEAN,
     min : Amounts, max : Amounts, output : {"none", "writable", "forbidden"}]

ScriptSteps == 6   \* directory, package.json, sign.js, run.sh, chmod, npm

NoReport == [total |-> 0, failed |-> 0, rate |-> "none"]

Init ==
    /\ \E n \in NodeUrls, b \in BackupUrls : given = n \o b
    /\ args \in CommandLine
    /\ pc = "parse"
    /\ ConnInit
    /\ scripts = 0
    /\ payloads = <<>>
    /\ timeUp = FALSE
    /\ begun = FALSE
    /\ panicked = FALSE
    /\ submitted = 0
    /\ failed = 0
    /\ report = NoReport
    /\ file \in {"absent", "old"}
    /\ exit = "none"

End(code) == pc' = "ended" /\ exit' = code

-----------------------------------------------------------------------------
(* Before the benchmark.                                                   *)

(* A value that cannot be parsed ends the program.                         *)
Parse ==
    /\ pc = "parse"
    /\ IF args.parsed THEN pc' = "validate" /\ exit' = exit ELSE End("error")
    /\ UNCHANGED <<given, connVars, args, scripts, runVars, report, file>>

(* MUTANT: the amounts are only compared for real transactions.            *)
ValidRealOnly == args.real => args.seeded /\ args.min <= args.max

Valid == (args.real => args.seeded) /\ args.min <= args.max

Validate ==
    /\ pc = "validate"
    /\ IF Valid THEN pc' = "connect" /\ exit' = exit ELSE End("error")
    /\ UNCHANGED <<given, connVars, args, scripts, runVars, report, file>>

(* The scripts are only set up for real transactions.                      *)
Connect ==
    /\ TryEndpoint
    /\ pc' = IF link' = "none" THEN pc ELSE IF args.real THEN "scripts" ELSE "run"
    /\ UNCHANGED <<given, args, scripts, runVars, outVars>>

Refuse ==
    /\ NoneLeft
    /\ End("error")
    /\ UNCHANGED <<given, connVars, args, scripts, runVars, report, file>>

(* MUTANT: a step that fails is passed over.                               *)
SetUpAnyhow ==
    /\ pc = "scripts"
    /\ scripts' \in {scripts, scripts + 1}
    /\ pc' = IF scripts' = ScriptSteps \/ scripts' = scripts THEN "run" ELSE pc
    /\ UNCHANGED <<given, connVars, args, runVars, outVars>>

(* One step of create_transaction_script succeeds or ends the program.     *)
SetUp ==
    /\ pc = "scripts"
    /\ \/ /\ scripts' = scripts + 1
          /\ pc' = IF scripts' = ScriptSteps THEN "run" ELSE pc
          /\ exit' = exit
       \/ scripts' = scripts /\ End("error")
    /\ UNCHANGED <<given, connVars, args, runVars, report, file>>

-----------------------------------------------------------------------------
(* The benchmark.                                                          *)

Attempts == Len(payloads)

(* MUTANT: the account is chosen by what was submitted so far.             *)
AccountBySuccess == submitted % args.accounts
(* MUTANT: accounts are numbered from one.                                 *)
AccountFromOne == (Attempts % args.accounts) + 1
Account == Attempts % args.accounts

(* A contract call carries no amount, and an empty range of amounts makes  *)
(* the random number generator panic.                                      *)
AmountChoices == args.min .. args.max
Payload(amount) ==
    [kind |-> args.kind, from |-> Account,
     amount |-> IF args.kind = "complex" THEN 0 ELSE amount]

(* The submitter's task goes on until main() ends.                         *)
TaskRuns == pc \in {"run", "print", "save"} /\ args.duration # "overflow"

DeadlinePasses ==
    /\ TaskRuns
    /\ ~timeUp
    /\ timeUp' = TRUE
    /\ UNCHANGED <<given, pc, connVars, args, scripts, payloads, begun, panicked,
                   submitted, failed, outVars>>

(* MUTANT: the submitter does not look at the time.                        *)
AnyTime == TRUE
InTime == ~timeUp

(* The head of the submitter's loop: the time is looked at once, before    *)
(* the waits and the request of one submission.                            *)
Begin ==
    /\ TaskRuns
    /\ ~begun /\ ~panicked
    /\ InTime
    /\ Attempts < MaxTx
    /\ begun' = TRUE
    /\ UNCHANGED <<given, pc, connVars, args, scripts, payloads, timeUp, panicked,
                   submitted, failed, outVars>>

(* The accounts are looked up first, then an amount is drawn.              *)
Panic ==
    /\ TaskRuns
    /\ begun
    /\ args.accounts = 0 \/ AmountChoices = {}
    /\ begun' = FALSE
    /\ panicked' = TRUE
    /\ UNCHANGED <<given, pc, connVars, args, scripts, payloads, timeUp, submitted,
                   failed, outVars>>

(* One request carries the payload.  The node may refuse it, and on a lost *)
(* connection every request fails.                                         *)
Submit ==
    /\ TaskRuns
    /\ begun
    /\ args.accounts > 0
    /\ \E amount \in AmountChoices : payloads' = Append(payloads, Payload(amount))
    /\ begun' = FALSE
    /\ \/ link = "open" /\ submitted' = submitted + 1 /\ failed' = failed
       \/ failed' = failed + 1 /\ submitted' = submitted
    /\ UNCHANGED <<given, pc, connVars, args, scripts, timeUp, panicked, outVars>>

(* The end of the benchmark cannot be computed: main() panics.             *)
RunOverflows ==
    /\ pc = "run"
    /\ args.duration = "overflow"
    /\ End("panic")
    /\ UNCHANGED <<given, connVars, args, scripts, runVars, report, file>>

(* run() waits for the submitter, which ends after its time or panics, for *)
(* thirty seconds longer than the benchmark, and for two hours at most.    *)
WaitEnds ==
    \/ panicked
    \/ timeUp
    \/ args.duration = "long"

(* run() returns a copy of the statistics.                                 *)
RunEnds ==
    /\ TaskRuns /\ pc = "run"
    /\ WaitEnds
    /\ report' = [report EXCEPT !.total = submitted, !.failed = failed]
    /\ pc' = "print"
    /\ UNCHANGED <<given, connVars, args, scripts, runVars, file, exit>>

-----------------------------------------------------------------------------
(* After the benchmark.                                                    *)

(* successful is never written, so that the rate is 0, or 0/0.             *)
PrintResults ==
    /\ pc = "print"
    /\ report' = [report EXCEPT !.rate = IF report.total = 0 THEN "NaN" ELSE "0.00"]
    /\ pc' = "save"
    /\ UNCHANGED <<given, connVars, args, scripts, runVars, file, exit>>

(* MUTANT: a result file that cannot be written is ignored.                *)
SaveAnyhow ==
    /\ pc = "save"
    /\ file' \in (IF args.output = "writable" THEN {"cut", "whole"} ELSE {file})
    /\ End("success")
    /\ UNCHANGED <<given, connVars, args, scripts, runVars, report>>

(* Without --output the JSON is printed.  Creating the file empties it, so *)
(* that a write that fails leaves it cut.                                  *)
SaveResults ==
    /\ pc = "save"
    /\ \/ args.output = "none" /\ file' = file /\ End("success")
       \/ args.output = "forbidden" /\ file' = file /\ End("error")
       \/ args.output = "writable" /\ file' = "whole" /\ End("success")
       \/ args.output = "writable" /\ file' = "cut" /\ End("error")
    /\ UNCHANGED <<given, connVars, args, scripts, runVars, report>>

-----------------------------------------------------------------------------
ConnectionLost ==
    /\ LoseLink
    /\ UNCHANGED <<given, pc, args, scripts, runVars, outVars>>

(* What main() does by itself: an attempt to connect has a timeout, and    *)
(* parsing, printing and saving wait for nothing.                          *)
MainStep ==
    Parse \/ Validate \/ Connect \/ Refuse \/ PrintResults \/ SaveResults

RunStep == DeadlinePasses \/ Begin \/ Panic \/ Submit \/ RunOverflows \/ RunEnds

Ended == pc = "ended" /\ UNCHANGED vars

Next == MainStep \/ RunStep \/ SetUp \/ ConnectionLost \/ Ended

Spec == Init /\ [][Next]_vars

(* npm and chmod are waited for without a timeout, and run() may wait for  *)
(* the statistics for ever: neither SetUp nor RunStep has fairness.        *)
FairSpec == Spec /\ WF_vars(MainStep)

-----------------------------------------------------------------------------
(* Every variable keeps its type.                                          *)
PayloadType ==
    [kind : Kinds, from : Nat, amount : Nat]

TypeOK ==
    /\ given \in Seq(Url) \ {<<>>}
    /\ args \in CommandLine
    /\ pc \in {"parse", "validate", "connect", "scripts", "run", "print", "save",
               "ended"}
    /\ at \in 1 .. Len(Endpoints) + 1
    /\ silent \subseteq Url
    /\ link \in {"none", "open", "lost"}
    /\ scripts \in 0 .. ScriptSteps
    /\ payloads \in Seq(PayloadType)
    /\ \A i \in DOMAIN payloads : payloads[i].from < args.accounts
    /\ timeUp \in BOOLEAN /\ begun \in BOOLEAN /\ panicked \in BOOLEAN
    /\ submitted \in Nat /\ failed \in Nat
    /\ report \in [total : Nat, failed : Nat, rate : {"none", "NaN", "0.00"}]
    /\ file \in {"absent", "old", "cut", "whole"}
    /\ exit \in {"none", "success", "error", "panic"}

(* Failover takes the endpoints in the order given: one is only passed     *)
(* over if its node did not answer, and a malformed one always is.         *)
FailoverInOrder ==
    /\ \A i \in 1 .. Len(Endpoints) : i < at => Endpoints[i] \in silent
    /\ link # "none" => Endpoints[at] \in Reachable

(* The program is only refused a connection if no URL it was given         *)
(* answered, and with a single one neither did the two standard ones,      *)
(* unless that URL is another spelling of one of them.                     *)
Refused == pc = "ended" /\ link = "none" /\ args.parsed /\ Valid
RefusedOnlyIfDown ==
    Refused =>
        /\ \A i \in DOMAIN given : given[i] \in silent
        /\ Len(given) = 1 => {Rpcx, Rpc} \subseteq silent \cup Names[given[1]]

(* The checks of the command line reach as far as the benchmark's tasks:   *)
(* the submitter never draws from an empty range of amounts, so that an    *)
(* account list without accounts is all that can make it panic.            *)
PanicOnlyWithoutAccounts == panicked => args.accounts = 0

(* Consecutive submissions, as many as there are accounts, differ in what  *)
(* they carry, whether they succeed or fail: a node that takes equal       *)
(* payloads for one transaction sees a repetition only after a full round. *)
RoundsAreDistinct ==
    \A i, j \in DOMAIN payloads :
        i < j /\ j - i < args.accounts => payloads[i] # payloads[j]

(* A real benchmark only runs, and its result is only reported, when all   *)
(* of the signing scripts were written, made executable and installed.     *)
ScriptsBeforeRun ==
    args.real /\ pc \in {"run", "print", "save"} => scripts = ScriptSteps

(* The exit code and the result file tell how far the program came: a      *)
(* failure before the report leaves an earlier result file alone, and      *)
(* success means that the file is whole.                                   *)
ExitTellsOutcome ==
    /\ report.rate = "none" => file \in {"absent", "old"} /\ exit # "success"
    /\ exit = "success" /\ args.output # "none" => file = "whole"

(* Of the submissions the report keeps what Benchmark promises: every one  *)
(* counted when run() returned, and of a benchmark that is not long at     *)
(* most one is missing.                                                    *)
Summary == INSTANCE RunSummary WITH
               counted <- submitted + failed,
               reported <- report.total + report.failed,
               over <- pc = "print" \/ report.rate # "none",
               capped <- args.duration = "long"

ImplementsSummary == Summary!Spec

(* Of a simulated run only the benchmark itself may wait for ever: before  *)
(* and after it main() moves on, whatever the nodes do.                    *)
OnlyRunWaits == (~args.real /\ pc # "run") ~> pc \in {"run", "ended"}

-----------------------------------------------------------------------------
(* A claim of the command line that the code does not keep.                *)

(* "Use real transactions instead of simulated ones": with this option no  *)
(* simulated submission is made.                                           *)
RealMeansReal == args.real => payloads = <<>>
=============================================================================
