---------------------------- MODULE MCClientCalls ----------------------------
(* ClientCalls with the small values TLC checks: five attempts to          *)
(* reconnect as in the code, and three calls, so that a call can follow a  *)
(* reconnect that follows a loss.                                          *)
EXTENDS ClientCalls

Attempts == 5
ThreeCalls == 3
=============================================================================
