----------------------------- MODULE StatusCheck -----------------------------
(***************************************************************************)
(* NodeClient::check_transaction_status (src/client/mod.rs): one check of  *)
(* one transaction, by up to five JSON-RPC requests, against a node on     *)
(* which the transaction moves while the check is under way.               *)
(*                                                                         *)
(*   substrate     author_extrinsicStatus is out                           *)
(*   finalBlock    chain_getBlock is out, with the finalized block's hash  *)
(*   ethereum      eth_getTransactionReceipt is out                        *)
(*   receiptBlock  chain_getBlock is out, with the receipt's block number  *)
(*   mempool       eth_getTransactionByHash is out                         *)
(*   returned      the check has its answer                                *)
(*                                                                         *)
(* The code looks for its data under "result" in what the client returns.  *)
(* enveloped says whether the payload has that key: jsonrpsee has already  *)
(* taken the payload out of it, as get_chain_metadata of the same client   *)
(* relies on.                                                              *)
(***************************************************************************)
EXTENDS Integers

CONSTANTS
    Blocks,     \* block numbers the transaction may be included at
    MaxU32,     \* the largest number parse_hex_to_u32 reads
    Envelopes   \* the values enveloped may take

ASSUME BlocksAssumption == Blocks \subseteq Nat /\ MaxU32 \in Nat
ASSUME EnvelopesAssumption == Envelopes \subseteq BOOLEAN

VARIABLES
    tx,         \* where the transaction is on the node
    block,      \* the number of the block that holds it
    enveloped,  \* replies carry their payload under "result"
    pc,         \* the request that is out
    answer,     \* what the check returned: Ok(Some(number)), Ok(None) or Err
    number,
    errors,     \* history: a request failed
    finalAtStart \* history: the transaction was final when the check began

nodeVars == <<tx, block>>
vars == <<nodeVars, enveloped, pc, answer, number, errors, finalAtStart>>

NoBlock == -1
InBlock == tx \in {"included", "finalized"}
Pcs == {"substrate", "finalBlock", "ethereum", "receiptBlock", "mempool",
        "returned"}

Init ==
    /\ tx \in {"unknown", "pool", "included", "finalized"}
    /\ block \in IF InBlock THEN Blocks ELSE {NoBlock}
    /\ enveloped \in Envelopes
    /\ pc = "substrate"
    /\ answer = "pending"
    /\ number = NoBlock
    /\ errors = FALSE
    /\ finalAtStart = (tx = "finalized")

-----------------------------------------------------------------------------
(* The node: a transaction is pooled, dropped, included, retracted by a    *)
(* fork, and finalized for good.                                           *)
NodeMoves ==
    /\ \/ tx = "unknown" /\ tx' = "pool" /\ block' = NoBlock
       \/ tx = "pool" /\ tx' = "unknown" /\ block' = NoBlock
       \/ tx = "pool" /\ tx' = "included" /\ block' \in Blocks
       \/ tx = "included" /\ tx' = "pool" /\ block' = NoBlock
       \/ tx = "included" /\ tx' = "finalized" /\ block' = block
    /\ UNCHANGED <<enveloped, pc, answer, number, errors, finalAtStart>>

Goto(next) ==
    /\ pc' = next
    /\ UNCHANGED <<nodeVars, enveloped, answer, number, finalAtStart>>

Return(kind, n) ==
    /\ pc' = "returned"
    /\ answer' = kind
    /\ number' = n
    /\ UNCHANGED <<nodeVars, enveloped, finalAtStart>>

(* MUTANT: a block request that fails starts the check again.              *)
RequestFailsAgain ==
    /\ errors' = TRUE
    /\ \/ pc = "substrate" /\ Goto("ethereum")
       \/ pc \in {"finalBlock", "receiptBlock"} /\ Goto("substrate")
       \/ pc = "ethereum" /\ Goto("mempool")
       \/ pc = "mempool" /\ Return("none", NoBlock)

(* MUTANT: the number of the block is reported without its leading digits. *)
FinalBlockTruncated ==
    /\ pc = "finalBlock"
    /\ IF enveloped THEN Return("some", block % (MaxU32 + 1)) ELSE Goto("ethereum")
    /\ UNCHANGED errors

(* Any request may fail: the connection is down, the method is unknown to  *)
(* the node, the parameter is refused.  Every caller logs the error and    *)
(* goes on with the next method.                                           *)
RequestFails ==
    /\ errors' = TRUE
    /\ \/ pc \in {"substrate", "finalBlock"} /\ Goto("ethereum")
       \/ pc \in {"ethereum", "receiptBlock"} /\ Goto("mempool")
       \/ pc = "mempool" /\ Return("none", NoBlock)

(* Method 1.  A reply that does not show a finalized block is "not         *)
(* finalized yet", and the next method is tried.                           *)
SubstrateReply ==
    /\ pc = "substrate"
    /\ IF enveloped /\ tx = "finalized" THEN Goto("finalBlock") ELSE Goto("ethereum")
    /\ UNCHANGED errors

(* The block's header number is parsed as a u32; a number that is too      *)
(* large, or a reply without it, is an error like a failed request.        *)
FinalBlockReply ==
    /\ pc = "finalBlock"
    /\ IF enveloped /\ block <= MaxU32 THEN Return("some", block) ELSE Goto("ethereum")
    /\ UNCHANGED errors

(* Method 2.  MUTANT: the receipt's block number is converted and returned *)
ReceiptNumberReturned ==
    /\ pc = "ethereum"
    /\ IF enveloped /\ InBlock THEN Return("some", block) ELSE Goto("mempool")
    /\ UNCHANGED errors

(* Method 2.  The receipt's block number is passed on as a block hash.     *)
EthereumReply ==
    /\ pc = "ethereum"
    /\ IF enveloped /\ InBlock THEN Goto("receiptBlock") ELSE Goto("mempool")
    /\ UNCHANGED errors

(* A hex number is not a block hash: chain_getBlock refuses it, so that    *)
(* receiptBlock is only left by RequestFails.                              *)

(* Method 3.  Found or not, the transaction is reported as not confirmed.  *)
MempoolReply ==
    /\ pc = "mempool"
    /\ Return("none", NoBlock)
    /\ UNCHANGED errors

CheckStep ==
    RequestFails \/ SubstrateReply \/ FinalBlockReply \/ EthereumReply \/ MempoolReply

Done == pc = "returned" /\ UNCHANGED vars

Next == NodeMoves \/ CheckStep \/ Done

Spec == Init /\ [][Next]_vars

(* Every request is answered or fails: jsonrpsee gives up on one after a   *)
(* minute.                                                                 *)
FairSpec == Spec /\ WF_vars(CheckStep)

-----------------------------------------------------------------------------
(* Every variable keeps its type.                                          *)
TypeOK ==
    /\ tx \in {"unknown", "pool", "included", "finalized"}
    /\ block \in Blocks \cup {NoBlock}
    /\ enveloped \in BOOLEAN /\ errors \in BOOLEAN /\ finalAtStart \in BOOLEAN
    /\ pc \in Pcs
    /\ answer \in {"pending", "some", "none", "error"}
    /\ number \in Blocks \cup {NoBlock}

(* A number is only returned for a transaction that is final, and it is    *)
(* the number of its block: what a fork may still retract, a receipt or a  *)
(* block that is only included, never confirms a transaction.              *)
ConfirmedIsFinal ==
    answer = "some" => tx = "finalized" /\ number = block

(* No answer is an error, also when every request has failed, so that the  *)
(* collector's Failed branch is never taken: what Benchmark assumes of     *)
(* CheckOutcomes.  The code has it from its comment "return None"; its     *)
(* comment "Fall through to return error" says otherwise.                  *)
NeverFails == answer # "error"

(* The check returns: no failure makes it start over.                      *)
CheckReturns == <>(pc = "returned")

(* "If all methods failed to find transaction, return None": a transaction *)
(* that is final all along is found when no request fails.                 *)
FinalizedIsFound ==
    pc = "returned" /\ finalAtStart /\ ~errors => answer # "none"
=============================================================================
