----------------------------- MODULE MCBenchmark -----------------------------
(* Benchmark with the small values TLC checks.                             *)
EXTENDS Benchmark, TLC

CONSTANTS h1, h2, h3

TwoHashes == {h1, h2}
ThreeHashes == {h1, h2, h3}

(* The node may answer the third hash again, and the others are alike.     *)
ThirdHash == {h3}
NoHash == {}
HashSymmetry == Permutations(TwoHashes)

SomeAccounts == {2}
NoneOrSome == {0, 2}

(* What check_transaction_status really answers: never an error.           *)
Answers == {"Confirmed", "Pending"}
=============================================================================
