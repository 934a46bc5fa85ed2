---------------------------- MODULE ProgramProofs ----------------------------
(***************************************************************************)
(* Theorems about Program, for every list of URLs, every command line and  *)
(* any number of submissions.                                              *)
(***************************************************************************)
EXTENDS Program, Integers, TLAPS

(* Every step of the specification, by name.                               *)
LEMMA StepCases ==
    ASSUME [Next]_vars
    PROVE  \/ Parse \/ Validate \/ Connect \/ Refuse \/ SetUp
           \/ DeadlinePasses \/ Begin \/ Panic \/ Submit \/ RunOverflows \/ RunEnds
           \/ PrintResults \/ SaveResults \/ ConnectionLost
           \/ UNCHANGED vars
BY DEF Next, MainStep, RunStep, Ended

(* Remainders.  Numbers that are closer than the divisor have distinct     *)
(* remainders.                                                             *)
LEMMA ModRange ==
    ASSUME NEW a \in Nat, NEW n \in Nat \ {0}
    PROVE  a % n \in Nat /\ a % n < n
OBVIOUS

LEMMA ModDistinct ==
    ASSUME NEW a \in Nat, NEW b \in Nat, NEW n \in Nat \ {0}, a < b, b - a < n
    PROVE  a % n # b % n
<1>. DEFINE p == a \div n
            q == b \div n
<1>1. /\ p \in Int /\ q \in Int
      /\ a \in Int /\ b \in Int /\ n \in Int /\ n > 0
  OBVIOUS
<1>2. a % n = a - n * p /\ b % n = b - n * q
  <2>1. a % n = a - (n * (a \div n)) BY <1>1, Z3
  <2>2. b % n = b - (n * (b \div n)) BY <1>1, Z3
  <2>. QED BY <2>1, <2>2
<1>. HIDE DEF p, q
<1>3. SUFFICES ASSUME a % n = b % n PROVE FALSE
  OBVIOUS
<1>4. a % n \in Nat BY ModRange
<1>5. b - a = n * (q - p)
  <2>1. b - a = n * q - n * p BY <1>1, <1>2, <1>3, <1>4
  <2>2. n * q - n * p = n * (q - p) BY <1>1
  <2>. QED BY <2>1, <2>2
<1>6. CASE q - p >= 1
  <2>1. n * (q - p) >= n BY <1>1, <1>6
  <2>. QED BY <1>1, <1>5, <2>1
<1>7. CASE q - p <= 0
  <2>1. n * (q - p) <= 0 BY <1>1, <1>7
  <2>. QED BY <1>1, <1>5, <2>1
<1>. QED BY <1>1, <1>6, <1>7

-----------------------------------------------------------------------------
(* The list of endpoints: what was given, and with a single URL the        *)
(* standard endpoints that it does not name.                               *)
LEMMA EndpointsType ==
    ASSUME given \in Seq(Url) \ {<<>>}
    PROVE  /\ Endpoints \in Seq(Url)
           /\ Len(Endpoints) \in Nat \ {0}
           /\ given[1] \in Url /\ Len(given) \in Nat \ {0}
<1>1. Head(given) = given[1] /\ given[1] \in Url /\ Len(given) \in Nat \ {0}
  OBVIOUS
<1>2. Backups(given) \in Seq(Url)
  <2>1. Tail(given) \in Seq(Url) OBVIOUS
  <2>2. DefaultBackups(Head(given)) \in Seq(Url)
    BY UrlAssumption DEF DefaultBackups, Unless
  <2>. QED BY <2>1, <2>2 DEF Backups
<1>. QED BY <1>1, <1>2 DEF Endpoints

LEMMA EndpointsComplete ==
    ASSUME given \in Seq(Url) \ {<<>>}
    PROVE  /\ \A i \in DOMAIN given :
                  \E k \in 1 .. Len(Endpoints) : Endpoints[k] = given[i]
           /\ Len(given) = 1 =>
                  \A s \in {Rpcx, Rpc} :
                      \/ s \in Names[given[1]]
                      \/ \E k \in 1 .. Len(Endpoints) : Endpoints[k] = s
<1>1. /\ Head(given) = given[1] /\ given[1] \in Url
      /\ Len(given) \in Nat \ {0} /\ DOMAIN given = 1 .. Len(given)
  OBVIOUS
<1>2. CASE Len(given) > 1
  <2>1. Endpoints = <<Head(given)>> \o Tail(given) BY <1>2 DEF Endpoints, Backups
  <2>2. Len(Endpoints) = Len(given) BY <2>1, <1>1
  <2>3. \A i \in 1 .. Len(given) : Endpoints[i] = given[i] BY <2>1, <1>1
  <2>. QED BY <1>1, <1>2, <2>2, <2>3
<1>3. CASE Len(given) = 1
  <2>1. Endpoints = <<given[1]>> \o DefaultBackups(given[1])
    BY <1>1, <1>3 DEF Endpoints, Backups
  <2>2. Endpoints[1] = given[1] /\ 1 \in 1 .. Len(Endpoints)
    BY <2>1, <1>1 DEF DefaultBackups, Unless
  <2>3. ASSUME NEW s \in {Rpcx, Rpc}, s \notin Names[given[1]]
        PROVE  \E k \in 1 .. Len(Endpoints) : Endpoints[k] = s
    <3>1. CASE s = Rpcx
      <4>1. Len(Endpoints) >= 2 /\ Endpoints[2] = s
        BY <2>1, <2>3, <3>1 DEF DefaultBackups, Unless
      <4>2. 2 \in 1 .. Len(Endpoints) BY <4>1, EndpointsType
      <4>. QED BY <4>1, <4>2
    <3>2. CASE s = Rpc /\ Rpcx \in Names[given[1]]
      <4>1. Len(Endpoints) = 2 /\ Endpoints[2] = s
        BY <2>1, <2>3, <3>2 DEF DefaultBackups, Unless
      <4>2. 2 \in 1 .. Len(Endpoints) BY <4>1
      <4>. QED BY <4>1, <4>2
    <3>3. CASE s = Rpc /\ Rpcx \notin Names[given[1]]
      <4>1. Len(Endpoints) = 3 /\ Endpoints[3] = s
        BY <2>1, <2>3, <3>3 DEF DefaultBackups, Unless
      <4>2. 3 \in 1 .. Len(Endpoints) BY <4>1
      <4>. QED BY <4>1, <4>2
    <3>. QED BY <2>3, <3>1, <3>2, <3>3
  <2>. QED BY <1>1, <1>3, <2>2, <2>3
<1>. QED BY <1>1, <1>2, <1>3

-----------------------------------------------------------------------------
(* Types.  The accounts of the payloads need the bound on the divisor.     *)

LEMMA TypeInit == Init => TypeOK
<1>. SUFFICES ASSUME Init PROVE TypeOK
  OBVIOUS
<1>1. given \in Seq(Url) \ {<<>>}
  <2>1. PICK n \in NodeUrls, b \in BackupUrls : given = n \o b BY DEF Init
  <2>2. n \in Seq(Url) /\ n # <<>> /\ b \in Seq(Url) BY InputsAssumption
  <2>. QED BY <2>1, <2>2
<1>2. at \in 1 .. Len(Endpoints) + 1
  BY <1>1, EndpointsType DEF Init, ConnInit
<1>3. payloads = <<>> /\ payloads \in Seq(PayloadType) BY DEF Init
<1>4. report \in [total : Nat, failed : Nat, rate : {"none", "NaN", "0.00"}]
  BY DEF Init, NoReport
<1>5. scripts \in 0 .. ScriptSteps BY DEF Init, ScriptSteps
<1>6. \A i \in DOMAIN payloads : payloads[i].from < args.accounts BY <1>3
<1>. QED BY <1>1, <1>2, <1>3, <1>4, <1>5, <1>6 DEF Init, ConnInit, TypeOK

LEMMA InputTypes ==
    ASSUME args \in CommandLine
    PROVE  /\ args.accounts \in Nat /\ args.min \in Nat /\ args.max \in Nat
           /\ args.kind \in Kinds /\ args.real \in BOOLEAN
<1>1. AccountCounts \subseteq Nat /\ Amounts \subseteq Nat BY InputsAssumption
<1>. QED BY <1>1 DEF CommandLine

LEMMA SubmitFacts ==
    ASSUME TypeOK, Submit
    PROVE  /\ \E p \in PayloadType : payloads' = Append(payloads, p)
                                     /\ p.from = Len(payloads) % args.accounts
           /\ args.accounts \in Nat \ {0}
           /\ \/ submitted' = submitted + 1 /\ failed' = failed
              \/ failed' = failed + 1 /\ submitted' = submitted
           /\ UNCHANGED args
<1>1. /\ args.accounts \in Nat \ {0} /\ args.kind \in Kinds
      /\ args.min \in Nat /\ args.max \in Nat
  <2>1. args \in CommandLine /\ args.accounts > 0 BY DEF TypeOK, Submit
  <2>. QED BY <2>1, InputTypes
<1>2. Len(payloads) \in Nat /\ Len(payloads) % args.accounts \in Nat
  <2>1. Len(payloads) \in Nat BY DEF TypeOK
  <2>. QED BY <2>1, <1>1, ModRange
<1>3. PICK amount \in AmountChoices : payloads' = Append(payloads, Payload(amount))
  BY DEF Submit
<1>4. amount \in Nat BY <1>1 DEF AmountChoices
<1>5. Payload(amount) \in PayloadType
      /\ Payload(amount).from = Len(payloads) % args.accounts
  BY <1>1, <1>2, <1>4 DEF Payload, PayloadType, Account, Attempts
<1>. QED BY <1>1, <1>3, <1>5 DEF Submit

LEMMA SubmitFrame ==
    ASSUME Submit
    PROVE  /\ pc \in {"run", "print", "save"} /\ begun /\ begun' = FALSE
           /\ UNCHANGED <<given, pc, connVars, args, scripts, timeUp, panicked, outVars>>
BY DEF Submit, TaskRuns

(* While the scripts are set up a step is left, and none is done before.   *)
ScriptsLeft ==
    /\ pc \in {"parse", "validate", "connect"} => scripts = 0
    /\ pc = "scripts" => scripts < ScriptSteps

LEMMA TypeStep ==
    TypeOK /\ ScriptsLeft /\ [Next]_vars => TypeOK' /\ ScriptsLeft'
<1>. SUFFICES ASSUME TypeOK, ScriptsLeft, [Next]_vars PROVE TypeOK' /\ ScriptsLeft'
  OBVIOUS
<1>. DEFINE Conn == /\ given \in Seq(Url) \ {<<>>}
                    /\ at \in 1 .. Len(Endpoints) + 1
                    /\ silent \subseteq Url
                    /\ link \in {"none", "open", "lost"}
<1>0. UNCHANGED <<given, connVars>> => Conn'
  BY DEF TypeOK, connVars, Endpoints
<1>. USE DEF TypeOK, ScriptsLeft, runVars, outVars, End
<1>1. CASE Parse BY <1>0, <1>1 DEF Parse
<1>2. CASE Validate BY <1>0, <1>2 DEF Validate
<1>3. CASE Connect
  <2>1. Endpoints' = Endpoints /\ Len(Endpoints) \in Nat \ {0}
        /\ Endpoints \in Seq(Url)
    BY <1>3, EndpointsType DEF Connect, Endpoints
  <2>2. at <= Len(Endpoints) /\ Endpoints[at] \in Url
    BY <1>3, <2>1 DEF Connect, TryEndpoint
  <2>3. Conn' BY <1>3, <2>1, <2>2 DEF Connect, TryEndpoint, Opened, Passed
  <2>4. scripts = 0 /\ scripts < ScriptSteps
    BY <1>3 DEF Connect, TryEndpoint, ScriptSteps
  <2>5. /\ pc' \in {"connect", "scripts", "run"}
        /\ UNCHANGED <<args, scripts, payloads, timeUp, begun, panicked, submitted,
                       failed, report, file, exit>>
    BY <1>3 DEF Connect, TryEndpoint
  <2>. HIDE DEF Conn
  <2>6. TypeOK' BY <2>3, <2>5 DEF Conn
  <2>. QED BY <2>4, <2>5, <2>6
<1>4. CASE Refuse BY <1>0, <1>4 DEF Refuse
<1>5. CASE SetUp
  <2>1. CASE scripts' = scripts + 1
    <3>1. scripts' \in 0 .. ScriptSteps BY <1>5, <2>1 DEF SetUp, ScriptSteps
    <3>2. pc' = "scripts" => scripts' < ScriptSteps
      BY <1>5, <2>1, <3>1 DEF SetUp, ScriptSteps
    <3>. QED BY <1>0, <1>5, <2>1, <3>1, <3>2 DEF SetUp
  <2>2. CASE scripts' = scripts BY <1>0, <1>5, <2>2 DEF SetUp
  <2>. QED BY <1>5, <2>1, <2>2 DEF SetUp
<1>6. CASE Panic BY <1>0, <1>6 DEF Panic
<1>7. CASE Submit
  <2>1. PICK p \in PayloadType : payloads' = Append(payloads, p)
                                 /\ p.from = Len(payloads) % args.accounts
    BY <1>7, SubmitFacts
  <2>2. p.from < args.accounts /\ args' = args
    <3>1. Len(payloads) \in Nat /\ args.accounts \in Nat \ {0} BY <1>7, SubmitFacts
    <3>. QED BY <1>7, <2>1, <3>1, ModRange, SubmitFacts
  <2>3. payloads' \in Seq(PayloadType)
        /\ \A i \in DOMAIN payloads' : payloads'[i].from < args.accounts
    BY <2>1, <2>2
  <2>4. /\ submitted' \in Nat /\ failed' \in Nat /\ begun' \in BOOLEAN
        /\ UNCHANGED <<given, connVars, pc, scripts, timeUp, panicked, report, file,
                       exit>>
    <3>1. submitted' \in Nat /\ failed' \in Nat BY <1>7, SubmitFacts
    <3>. QED BY <1>7, <3>1, SubmitFrame
  <2>. QED BY <1>0, <2>2, <2>3, <2>4
<1>8. CASE RunEnds BY <1>0, <1>8 DEF RunEnds
<1>9. CASE PrintResults BY <1>0, <1>9 DEF PrintResults
<1>10. CASE SaveResults BY <1>0, <1>10 DEF SaveResults
<1>11. CASE ConnectionLost
  <2>1. Endpoints' = Endpoints BY <1>11 DEF ConnectionLost, Endpoints
  <2>. QED BY <1>11, <2>1 DEF ConnectionLost, LoseLink
<1>12. CASE UNCHANGED vars BY <1>0, <1>12 DEF vars
<1>13. CASE DeadlinePasses BY <1>0, <1>13 DEF DeadlinePasses
<1>14. CASE Begin BY <1>0, <1>14 DEF Begin
<1>15. CASE RunOverflows BY <1>0, <1>15 DEF RunOverflows
<1>. QED BY <1>1, <1>2, <1>3, <1>4, <1>5, <1>6, <1>7, <1>8, <1>9, <1>10, <1>11,
            <1>12, <1>13, <1>14, <1>15, StepCases

LEMMA TypeInvariant == Spec => [](TypeOK /\ ScriptsLeft)
<1>1. Init => ScriptsLeft BY DEF Init, ScriptsLeft
<1>. QED BY <1>1, TypeInit, TypeStep, PTL DEF Spec

(* Every reachable state is well typed, and each payload names an account  *)
(* that the list has.                                                      *)
THEOREM ProgramTyped == Spec => []TypeOK
<1>. QED BY TypeInvariant, PTL

-----------------------------------------------------------------------------
(* What holds at each stage of main(): the checks passed so far, the       *)
(* connection, the scripts, and the endpoints that were passed over.       *)
Stages ==
    /\ pc \notin {"parse", "ended"} => args.parsed
    /\ pc \in {"connect", "scripts", "run", "print", "save"} => Valid
    /\ pc \in {"parse", "validate", "connect"} => link = "none"
    /\ pc \in {"scripts", "run", "print", "save"} => link # "none"
    /\ Refused => at > Len(Endpoints)
    /\ ScriptsBeforeRun
    /\ PanicOnlyWithoutAccounts
    /\ FailoverInOrder

LEMMA StagesInit == Init => Stages
BY DEF Init, ConnInit, Stages, Refused, ScriptsBeforeRun,
       PanicOnlyWithoutAccounts, FailoverInOrder

LEMMA StagesStep == TypeOK /\ Stages /\ [Next]_vars => Stages'
<1>. SUFFICES ASSUME TypeOK, Stages, [Next]_vars PROVE Stages'
  OBVIOUS
<1>0. UNCHANGED given => Endpoints' = Endpoints BY DEF Endpoints
<1>0a. UNCHANGED args => Valid' = Valid BY DEF Valid
<1>0b. UNCHANGED <<given, connVars>> => FailoverInOrder'
  BY <1>0 DEF Stages, FailoverInOrder, connVars
<1>. USE DEF Stages, Refused, ScriptsBeforeRun, PanicOnlyWithoutAccounts, connVars,
            runVars, outVars, End
<1>1. CASE Parse BY <1>0, <1>0a, <1>0b, <1>1 DEF Parse
<1>2. CASE Validate BY <1>0, <1>0a, <1>0b, <1>2 DEF Validate
<1>3. CASE Connect
  <2>1. /\ pc = "connect" /\ link = "none" /\ at <= Len(Endpoints)
        /\ UNCHANGED <<given, args, scripts, panicked>>
        /\ pc' = IF link' = "none" THEN pc ELSE IF args.real THEN "scripts" ELSE "run"
    BY <1>3 DEF Connect, TryEndpoint
  <2>2. at \in Nat /\ Len(Endpoints) \in Nat
    BY EndpointsType DEF TypeOK
  <2>3. FailoverInOrder'
    <3>1. CASE Opened
      BY <1>0, <2>1, <3>1 DEF Opened, FailoverInOrder
    <3>2. CASE Passed
      BY <1>0, <2>1, <2>2, <3>2 DEF Passed, FailoverInOrder
    <3>. QED BY <1>3, <3>1, <3>2 DEF Connect, TryEndpoint
  <2>. QED BY <1>0a, <2>1, <2>3
<1>4. CASE Refuse
  <2>1. at > Len(Endpoints) BY <1>4 DEF Refuse, NoneLeft
  <2>. QED BY <1>0, <1>0a, <1>0b, <1>4, <2>1 DEF Refuse
<1>5. CASE SetUp
  <2>1. pc = "scripts" /\ link' = link /\ UNCHANGED <<given, connVars, args, panicked>>
    BY <1>5 DEF SetUp
  <2>. QED BY <1>0, <1>0a, <1>0b, <1>5, <2>1 DEF SetUp
<1>6. CASE Panic
  <2>1. args.accounts = 0
    <3>1. args.min <= args.max /\ args.min \in Nat /\ args.max \in Nat
      BY <1>6, InputTypes DEF Panic, TaskRuns, Valid, TypeOK
    <3>2. args.min \in AmountChoices BY <3>1 DEF AmountChoices
    <3>. QED BY <1>6, <3>2 DEF Panic
  <2>. QED BY <1>0, <1>0a, <1>0b, <1>6, <2>1 DEF Panic
<1>7. CASE Submit BY <1>0, <1>0a, <1>0b, <1>7 DEF Submit
<1>8. CASE RunEnds BY <1>0, <1>0a, <1>0b, <1>8 DEF RunEnds
<1>9. CASE PrintResults BY <1>0, <1>0a, <1>0b, <1>9 DEF PrintResults
<1>10. CASE SaveResults BY <1>0, <1>0a, <1>0b, <1>10 DEF SaveResults
<1>11. CASE ConnectionLost
  BY <1>0, <1>0a, <1>11 DEF ConnectionLost, LoseLink, FailoverInOrder
<1>12. CASE UNCHANGED vars BY <1>0, <1>0a, <1>0b, <1>12 DEF vars
<1>13. CASE DeadlinePasses BY <1>0, <1>0a, <1>0b, <1>13 DEF DeadlinePasses
<1>14. CASE Begin BY <1>0, <1>0a, <1>0b, <1>14 DEF Begin
<1>15. CASE RunOverflows BY <1>0, <1>0a, <1>0b, <1>15 DEF RunOverflows
<1>. QED BY <1>1, <1>2, <1>3, <1>4, <1>5, <1>6, <1>7, <1>8, <1>9, <1>10, <1>11,
            <1>12, <1>13, <1>14, <1>15, StepCases

LEMMA StagesInvariant == Spec => []Stages
<1>. QED BY StagesInit, StagesStep, ProgramTyped, PTL DEF Spec

(* An endpoint is only passed over if its node did not answer when it was  *)
(* tried, and a connection is one to an endpoint that may answer.          *)
THEOREM EndpointsInOrder == Spec => []FailoverInOrder
<1>1. Stages => FailoverInOrder BY DEF Stages
<1>. QED BY <1>1, StagesInvariant, PTL

(* A program that is refused a connection has tried every URL it was       *)
(* given and, with a single one, the two standard endpoints.               *)
THEOREM EveryEndpointTried == Spec => []RefusedOnlyIfDown
<1>1. TypeOK /\ Stages => RefusedOnlyIfDown
  <2>. SUFFICES ASSUME TypeOK, Stages, Refused
                PROVE  /\ \A i \in DOMAIN given : given[i] \in silent
                       /\ Len(given) = 1 =>
                              {Rpcx, Rpc} \subseteq silent \cup Names[given[1]]
    BY DEF RefusedOnlyIfDown
  <2>1. given \in Seq(Url) \ {<<>>} BY DEF TypeOK
  <2>2. \A k \in 1 .. Len(Endpoints) : Endpoints[k] \in silent
    <3>1. at > Len(Endpoints) /\ at \in Nat /\ Len(Endpoints) \in Nat
      BY <2>1, EndpointsType DEF Stages, TypeOK
    <3>. QED BY <3>1 DEF Stages, FailoverInOrder
  <2>. QED BY <2>1, <2>2, EndpointsComplete
<1>. QED BY <1>1, StagesInvariant, ProgramTyped, PTL

(* No real benchmark runs before its signing scripts are complete.         *)
THEOREM ScriptsComeFirst == Spec => []ScriptsBeforeRun
<1>1. Stages => ScriptsBeforeRun BY DEF Stages
<1>. QED BY <1>1, StagesInvariant, PTL

(* What the command line lets through never makes the submitter draw from  *)
(* an empty range of amounts.                                              *)
THEOREM AmountsAreChecked == Spec => []PanicOnlyWithoutAccounts
<1>1. Stages => PanicOnlyWithoutAccounts BY DEF Stages
<1>. QED BY <1>1, StagesInvariant, PTL

-----------------------------------------------------------------------------
(* The accounts.  Every submission, failed ones included, moves on to the  *)
(* next account.                                                           *)
Rotation ==
    \A i \in DOMAIN payloads : payloads[i].from = (i - 1) % args.accounts

LEMMA RotationStep == TypeOK /\ Rotation /\ [Next]_vars => Rotation'
<1>. SUFFICES ASSUME TypeOK, Rotation, [Next]_vars PROVE Rotation'
  OBVIOUS
<1>1. CASE Submit
  <2>1. PICK p \in PayloadType : payloads' = Append(payloads, p)
                                 /\ p.from = Len(payloads) % args.accounts
    BY <1>1, SubmitFacts
  <2>2. args' = args /\ Len(payloads) \in Nat /\ payloads \in Seq(PayloadType)
    BY <1>1, SubmitFacts DEF TypeOK
  <2>3. ASSUME NEW i \in DOMAIN payloads'
        PROVE  payloads'[i].from = (i - 1) % args.accounts
    <3>1. CASE i = Len(payloads) + 1
      <4>1. payloads'[i] = p /\ i - 1 = Len(payloads) BY <2>1, <2>2, <3>1
      <4>. QED BY <2>1, <4>1
    <3>2. CASE i # Len(payloads) + 1
      <4>1. i \in DOMAIN payloads /\ payloads'[i] = payloads[i] BY <2>1, <2>2, <3>2
      <4>. QED BY <4>1 DEF Rotation
    <3>. QED BY <3>1, <3>2
  <2>. QED BY <2>2, <2>3 DEF Rotation
<1>2. CASE UNCHANGED <<args, payloads>> BY <1>2 DEF Rotation
<1>. QED BY <1>1, <1>2, StepCases
     DEF Parse, Validate, Connect, Refuse, SetUp, DeadlinePasses, Begin, Panic,
         RunOverflows, RunEnds, PrintResults, SaveResults, ConnectionLost, vars,
         runVars

(* As many consecutive submissions as there are accounts are all distinct: *)
(* the remainders of their numbers are.                                    *)
THEOREM RoundsStayDistinct == Spec => []RoundsAreDistinct
<1>1. Init => Rotation BY DEF Init, Rotation
<1>2. TypeOK /\ Rotation => RoundsAreDistinct
  <2>. SUFFICES ASSUME TypeOK, Rotation, NEW i \in DOMAIN payloads,
                       NEW j \in DOMAIN payloads, i < j, j - i < args.accounts
                PROVE  payloads[i] # payloads[j]
    BY DEF RoundsAreDistinct
  <2>1. i - 1 \in Nat /\ j - 1 \in Nat /\ i - 1 < j - 1
        /\ (j - 1) - (i - 1) < args.accounts
    BY DEF TypeOK
  <2>2. args.accounts \in Nat \ {0} BY <2>1, InputTypes DEF TypeOK
  <2>3. (i - 1) % args.accounts # (j - 1) % args.accounts
    BY <2>1, <2>2, ModDistinct
  <2>4. payloads[i].from # payloads[j].from BY <2>3 DEF Rotation
  <2>. QED BY <2>4
<1>. QED BY <1>1, <1>2, RotationStep, ProgramTyped, PTL DEF Spec

-----------------------------------------------------------------------------
(* The outcome.  The counters count every submission once, the rate is     *)
(* printed with the report, and only the last step of main() touches the   *)
(* file.                                                                   *)
Outcome ==
    /\ submitted + failed = Attempts
    /\ pc = "save" => report.rate # "none"
    /\ pc \notin {"save", "ended"} => report.rate = "none"
    /\ pc # "ended" => file \in {"absent", "old"} /\ exit = "none"
    /\ ExitTellsOutcome

LEMMA OutcomeStep == TypeOK /\ Outcome /\ [Next]_vars => Outcome'
<1>. SUFFICES ASSUME TypeOK, Outcome, [Next]_vars PROVE Outcome'
  OBVIOUS
<1>. USE DEF Outcome, ExitTellsOutcome, Attempts, runVars, outVars, connVars, End
<1>1. CASE Parse BY <1>1 DEF Parse
<1>2. CASE Validate BY <1>2 DEF Validate
<1>3. CASE Connect BY <1>3 DEF Connect, TryEndpoint
<1>4. CASE Refuse BY <1>4 DEF Refuse, NoneLeft
<1>5. CASE SetUp BY <1>5 DEF SetUp
<1>6. CASE Panic BY <1>6 DEF Panic
<1>7. CASE Submit
  <2>1. PICK p \in PayloadType : payloads' = Append(payloads, p) BY <1>7, SubmitFacts
  <2>2. payloads \in Seq(PayloadType) /\ submitted \in Nat /\ failed \in Nat
    BY DEF TypeOK
  <2>3. Len(payloads') = Len(payloads) + 1 /\ Len(payloads) \in Nat
    BY <2>1, <2>2
  <2>4. submitted' + failed' = Len(payloads') BY <1>7, <2>2, <2>3, SubmitFacts
  <2>5. pc \in {"run", "print", "save"} /\ UNCHANGED <<pc, args, report, file, exit>>
    BY <1>7, SubmitFrame
  <2>. QED BY <2>4, <2>5
<1>8. CASE RunEnds
  <2>1. /\ report'.rate = report.rate
        /\ pc = "run" /\ pc' = "print"
        /\ UNCHANGED <<args, payloads, submitted, failed, file, exit>>
    BY <1>8 DEF RunEnds, TypeOK
  <2>. QED BY <2>1
<1>9. CASE PrintResults
  <2>1. /\ report'.rate # "none" /\ pc = "print" /\ pc' = "save"
        /\ UNCHANGED <<args, payloads, submitted, failed, file, exit>>
    BY <1>9 DEF PrintResults, TypeOK
  <2>. QED BY <2>1
<1>10. CASE SaveResults BY <1>10 DEF SaveResults
<1>11. CASE ConnectionLost BY <1>11 DEF ConnectionLost, LoseLink
<1>12. CASE UNCHANGED vars BY <1>12 DEF vars
<1>13. CASE DeadlinePasses BY <1>13 DEF DeadlinePasses
<1>14. CASE Begin BY <1>14 DEF Begin
<1>15. CASE RunOverflows BY <1>15 DEF RunOverflows
<1>. QED BY <1>1, <1>2, <1>3, <1>4, <1>5, <1>6, <1>7, <1>8, <1>9, <1>10, <1>11,
            <1>12, <1>13, <1>14, <1>15, StepCases

LEMMA OutcomeInvariant == Spec => []Outcome
<1>1. Init => Outcome BY DEF Init, NoReport, Outcome, ExitTellsOutcome, Attempts
<1>. QED BY <1>1, OutcomeStep, ProgramTyped, PTL DEF Spec

(* The exit code says whether the report was printed and saved, and a      *)
(* failure before the report leaves an earlier result file alone.          *)
THEOREM ExitCodeIsTrue == Spec => []ExitTellsOutcome
<1>1. Outcome => ExitTellsOutcome BY DEF Outcome
<1>. QED BY <1>1, OutcomeInvariant, PTL

-----------------------------------------------------------------------------
(* The report as the summary that RunSummary promises.  When run() has     *)
(* returned from a benchmark that is not long, the submitter's test of the *)
(* time fails, or the submitter has panicked, so that a submission that is *)
(* under way is the first one the report does not have.                    *)
LastOne ==
    /\ begun => ~panicked
    /\ pc \in {"print", "save"} /\ args.duration # "long" =>
           /\ timeUp \/ panicked
           /\ begun => submitted + failed = report.total + report.failed

LEMMA LastOneStep ==
    ASSUME LastOne, [Next]_vars
    PROVE  LastOne'
<1>. USE DEF LastOne, runVars, outVars, connVars, End
<1>1. CASE Parse \/ Validate \/ Refuse \/ SetUp \/ SaveResults \/ RunOverflows
  BY <1>1 DEF Parse, Validate, Refuse, NoneLeft, SetUp, SaveResults, RunOverflows
<1>2. CASE Connect BY <1>2 DEF Connect, TryEndpoint
<1>3. CASE DeadlinePasses BY <1>3 DEF DeadlinePasses
<1>4. CASE Begin BY <1>4 DEF Begin, InTime
<1>5. CASE Panic BY <1>5 DEF Panic
<1>6. CASE Submit BY <1>6 DEF Submit
<1>7. CASE RunEnds
  <2>1. begun => ~panicked BY DEF LastOne
  <2>2. /\ args.duration # "long" => timeUp \/ panicked
        /\ report' = [report EXCEPT !.total = submitted, !.failed = failed]
        /\ UNCHANGED <<args, timeUp, begun, panicked, submitted, failed>>
    BY <1>7 DEF RunEnds, WaitEnds
  <2>. QED BY <2>1, <2>2
<1>8. CASE PrintResults BY <1>8 DEF PrintResults
<1>9. CASE ConnectionLost \/ UNCHANGED vars BY <1>9 DEF ConnectionLost, vars
<1>. QED BY <1>1, <1>2, <1>3, <1>4, <1>5, <1>6, <1>7, <1>8, <1>9, StepCases

LEMMA SummaryStep ==
    ASSUME TypeOK, Outcome, LastOne, [Next]_vars
    PROVE  [Summary!Next]_(Summary!vars)
<1>. USE DEF Outcome, runVars, outVars, connVars, End
<1>1. ASSUME UNCHANGED <<args, submitted, failed, report, pc>>
      PROVE  UNCHANGED Summary!vars
  BY <1>1 DEF Summary!vars
<1>2. ASSUME UNCHANGED <<args, submitted, failed, report>>, pc # "print", pc' # "print"
      PROVE  UNCHANGED Summary!vars
  BY <1>2 DEF Summary!vars
<1>3. CASE Parse \/ Validate BY <1>2, <1>3 DEF Parse, Validate
<1>4. CASE Connect BY <1>2, <1>4 DEF Connect, TryEndpoint
<1>5. CASE Refuse \/ RunOverflows BY <1>2, <1>5 DEF Refuse, NoneLeft, RunOverflows
<1>6. CASE SetUp BY <1>2, <1>6 DEF SetUp
<1>7. CASE DeadlinePasses \/ Begin \/ Panic
  BY <1>1, <1>7 DEF DeadlinePasses, Begin, Panic
<1>8. CASE Submit
  <2>1. /\ pc \in {"run", "print", "save"} /\ begun
        /\ submitted' + failed' = (submitted + failed) + 1
        /\ UNCHANGED <<pc, args, report>>
    <3>1. submitted \in Nat /\ failed \in Nat BY DEF TypeOK
    <3>2. submitted' + failed' = (submitted + failed) + 1
      BY <1>8, <3>1, SubmitFacts
    <3>. QED BY <1>8, <3>2, SubmitFrame
  <2>2. CASE pc = "run"
    <3>1. ~(pc = "print" \/ report.rate # "none") BY <2>2
    <3>. QED BY <2>1, <3>1 DEF Summary!Count, Summary!Next
  <2>3. CASE pc \in {"print", "save"}
    <3>1. \/ args.duration = "long"
          \/ submitted + failed = report.total + report.failed
      BY <2>1, <2>3 DEF LastOne
    <3>. QED BY <2>1, <3>1 DEF Summary!Count, Summary!Next
  <2>. QED BY <2>1, <2>2, <2>3
<1>9. CASE RunEnds
  <2>1. /\ report'.total = submitted /\ report'.failed = failed
        /\ pc = "run" /\ pc' = "print" /\ report.rate = "none"
        /\ UNCHANGED <<args, submitted, failed>>
    BY <1>9 DEF RunEnds, TypeOK
  <2>2. Summary!Return BY <2>1 DEF Summary!Return
  <2>. QED BY <2>2 DEF Summary!Next
<1>10. CASE PrintResults
  <2>1. /\ report'.total = report.total /\ report'.failed = report.failed
        /\ report'.rate # "none" /\ pc = "print"
        /\ UNCHANGED <<args, submitted, failed>>
    BY <1>10 DEF PrintResults, TypeOK
  <2>. QED BY <2>1 DEF Summary!vars
<1>11. CASE SaveResults BY <1>2, <1>11 DEF SaveResults
<1>12. CASE ConnectionLost \/ UNCHANGED vars BY <1>1, <1>12 DEF ConnectionLost, vars
<1>. QED BY <1>3, <1>4, <1>5, <1>6, <1>7, <1>8, <1>9, <1>10, <1>11, <1>12, StepCases

(* The report of every run keeps what RunSummary promises: whatever the    *)
(* command line, it has every submission counted when run() returned, and  *)
(* only a benchmark longer than two hours can miss more than one.          *)
THEOREM ReportImplementsSummary == Spec => ImplementsSummary
<1>1. Init => Summary!Init
  BY DEF Init, NoReport, CommandLine, Summary!Init
<1>2. Init => LastOne BY DEF Init, LastOne
<1>3. LastOne /\ [Next]_vars => LastOne' BY LastOneStep
<1>4. TypeOK /\ Outcome /\ LastOne /\ [Next]_vars => [Summary!Next]_(Summary!vars)
  BY SummaryStep
<1>. QED BY <1>1, <1>2, <1>3, <1>4, ProgramTyped, OutcomeInvariant, PTL
     DEF Spec, ImplementsSummary, Summary!Spec
=============================================================================
