---------------------------- MODULE MCRealSubmit ----------------------------
(* RealSubmit with the program's number of retries, for an account that    *)
(* has never paid or has paid once.                                        *)
EXTENDS RealSubmit

NewOrUsed == {0, 1}
=============================================================================
