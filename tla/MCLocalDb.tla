---------------------------- MODULE MCLocalDb ----------------------------
(* Instances of LocalDb: with a shared item and an item of the login's own in *)
(* the pulled collection, or with the shared one alone.                    *)
EXTENDS LocalDb, TLC

CONSTANTS open, mine, dishes, myself, everyone, g1, g2, g3, g4, g5, c1, c2

MCItems == {open, mine}
MCCollections == {dishes}
MCScopes == {myself, everyone}
MCCollectionOf == [i \in MCItems |-> dishes]
MCScopeOf == [i \in MCItems |-> IF i = open THEN everyone ELSE myself]
MCPages == {AllUses}
MCOneItem == {open}
MCScopeOne == [i \in MCOneItem |-> everyone]
MCCollectionOne == [i \in MCOneItem |-> dishes]
MCSymmetry == Permutations(Calls)
MCGens == {g1, g2, g3, g4, g5}
=============================================================================
