---------------------------- MODULE MCSyncPull ----------------------------
(* Instance of SyncPull: a shared item and an item of the login's own, both *)
(* in the pulled collection.                                               *)
EXTENDS SyncPull

CONSTANTS open, mine, dishes, myself, everyone, g1, g2, g3, g4, g5

MCItems == {open, mine}
MCCollections == {dishes}
MCScopes == {myself, everyone}
MCCollectionOf == [i \in MCItems |-> dishes]
MCScopeOf == [i \in MCItems |-> IF i = open THEN everyone ELSE myself]
MCGens == {g1, g2, g3, g4, g5}
=============================================================================
