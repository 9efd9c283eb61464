---------------------------- MODULE MCSelfUpdate ----------------------------
(* Instance of SelfUpdate: five releases, of which the second, the third    *)
(* and the last never become healthy.                                       *)
EXTENDS SelfUpdate

MCBad == {2, 3, 5}
=============================================================================
