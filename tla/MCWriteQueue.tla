---------------------------- MODULE MCWriteQueue ----------------------------
(* Instance of WriteQueue: two edits, both replacements of the item or the  *)
(* second one a create.                                                     *)
EXTENDS WriteQueue

MCCreates == {2}
=============================================================================
