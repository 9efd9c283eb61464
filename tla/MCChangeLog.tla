--------------------------- MODULE MCChangeLog ---------------------------
(* Instance of ChangeLog: one collection, one device of login "me", a      *)
(* shared item, an item of its own and an item of another login (its rows  *)
(* move the counter and its tombstones raise the collection's floor).      *)
EXTENDS ChangeLog

CONSTANTS open, mine, theirs, dishes, me, you, all, phone

MCItems == {open, mine, theirs}
MCFewItems == {open, theirs}
MCCollections == {dishes}
MCScopes == {me, you, all}
MCCollectionOf == [i \in Items |-> dishes]
MCScopeOf == [i \in Items |-> CASE i = open -> all
                                  [] i = mine -> me
                                  [] OTHER -> you]
MCFollowers == {phone}
MCFollows == [d \in MCFollowers |-> dishes]
MCLogin == [d \in MCFollowers |-> me]
MCRevs == {1}
=============================================================================
