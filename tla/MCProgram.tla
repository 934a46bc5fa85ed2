------------------------------ MODULE MCProgram ------------------------------
(* Program with the small values TLC checks.                               *)
EXTENDS Program

CONSTANTS rpcx, rpc, alias, private, malformed

Urls == {rpcx, rpc, alias, private, malformed}
Answering == Urls \ {malformed}

(* alias spells the host of rpcx in another way, and as the primary is     *)
(* treated as rpcx would be; malformed is a text that is no URL, like the  *)
(* empty one.                                                              *)
HostNames == [u \in Urls |-> IF u \in {rpcx, alias} THEN {rpcx}
                             ELSE IF u = rpc THEN {rpc} ELSE {}]

SomeNodeUrls == {<<alias>>, <<private>>, <<malformed>>}
SomeBackups == {<<>>, <<rpc>>}
NoneOrTwo == {0, 2}
AmountOrCall == {"transfer", "complex"}
TwoAmounts == {1, 2}
=============================================================================
