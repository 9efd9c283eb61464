---------------------------- MODULE MCJobRounds ----------------------------
(* Instance of JobRounds: three who wait for their answers, beside any      *)
(* number of calls nobody waits for.                                        *)
EXTENDS JobRounds

CONSTANTS c1, c2, c3

MCCallers == {c1, c2, c3}
=============================================================================
