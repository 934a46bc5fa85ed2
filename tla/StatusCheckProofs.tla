-------------------------- MODULE StatusCheckProofs --------------------------
(***************************************************************************)
(* Theorems about StatusCheck, for every set of block numbers, every width *)
(* of the parsed number and either form of the replies.                    *)
(***************************************************************************)
EXTENDS StatusCheck, TLAPS

LEMMA StepCases ==
    ASSUME [Next]_vars
    PROVE  \/ NodeMoves \/ RequestFails \/ SubstrateReply \/ FinalBlockReply
           \/ EthereumReply \/ MempoolReply \/ UNCHANGED vars
BY DEF Next, CheckStep, Done

(* Every reachable state is well typed.                                    *)
THEOREM StatusCheckTyped == Spec => []TypeOK
<1>1. Init => TypeOK
  BY EnvelopesAssumption DEF Init, TypeOK, Pcs, InBlock
<1>2. TypeOK /\ [Next]_vars => TypeOK'
  <2>. SUFFICES ASSUME TypeOK, [Next]_vars PROVE TypeOK'
    OBVIOUS
  <2>. USE DEF TypeOK, Pcs, Goto, Return, nodeVars
  <2>1. CASE NodeMoves BY <2>1 DEF NodeMoves
  <2>2. CASE RequestFails BY <2>2 DEF RequestFails
  <2>3. CASE SubstrateReply BY <2>3 DEF SubstrateReply
  <2>4. CASE FinalBlockReply BY <2>4 DEF FinalBlockReply
  <2>5. CASE EthereumReply BY <2>5 DEF EthereumReply
  <2>6. CASE MempoolReply BY <2>6 DEF MempoolReply
  <2>7. CASE UNCHANGED vars BY <2>7 DEF vars
  <2>. QED BY <2>1, <2>2, <2>3, <2>4, <2>5, <2>6, <2>7, StepCases
<1>. QED BY <1>1, <1>2, PTL DEF Spec

-----------------------------------------------------------------------------
(* The request for the block is only sent for a final transaction, which   *)
(* nothing the node does in the meantime can make less final; and an error *)
(* is never an answer.                                                     *)
Confirming ==
    /\ pc = "finalBlock" => tx = "finalized"
    /\ ConfirmedIsFinal
    /\ NeverFails

LEMMA ConfirmingInvariant == Spec => []Confirming
<1>1. Init => Confirming
  BY DEF Init, Confirming, ConfirmedIsFinal, NeverFails
<1>2. Confirming /\ [Next]_vars => Confirming'
  <2>. SUFFICES ASSUME Confirming, [Next]_vars PROVE Confirming'
    OBVIOUS
  <2>. USE DEF Confirming, ConfirmedIsFinal, NeverFails, Goto, Return, nodeVars
  <2>1. CASE NodeMoves BY <2>1 DEF NodeMoves
  <2>2. CASE RequestFails BY <2>2 DEF RequestFails
  <2>3. CASE SubstrateReply BY <2>3 DEF SubstrateReply
  <2>4. CASE FinalBlockReply BY <2>4 DEF FinalBlockReply
  <2>5. CASE EthereumReply BY <2>5 DEF EthereumReply
  <2>6. CASE MempoolReply BY <2>6 DEF MempoolReply
  <2>7. CASE UNCHANGED vars BY <2>7 DEF vars
  <2>. QED BY <2>1, <2>2, <2>3, <2>4, <2>5, <2>6, <2>7, StepCases
<1>. QED BY <1>1, <1>2, PTL DEF Spec

(* A check that confirms a transaction names the block it is final in,     *)
(* however the chain moved between the check's requests.                   *)
THEOREM ConfirmationsAreFinal == Spec => []ConfirmedIsFinal
<1>1. Confirming => ConfirmedIsFinal BY DEF Confirming
<1>. QED BY <1>1, ConfirmingInvariant, PTL

(* No failing request makes a check return an error: what Benchmark takes  *)
(* for granted of the answers it gets.                                     *)
THEOREM ChecksNeverFail == Spec => []NeverFails
<1>1. Confirming => NeverFails BY DEF Confirming
<1>. QED BY <1>1, ConfirmingInvariant, PTL
=============================================================================
