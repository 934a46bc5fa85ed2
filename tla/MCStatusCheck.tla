---------------------------- MODULE MCStatusCheck ----------------------------
(* StatusCheck with the small values TLC checks.                           *)
EXTENDS StatusCheck

(* Two numbers a u32 holds and one it does not.                            *)
SomeBlocks == {1, 2, 4}
SmallMax == 3

(* The replies as the code expects them, or as jsonrpsee returns them.     *)
EitherEnvelope == BOOLEAN
NoEnvelope == {FALSE}
=============================================================================
