------------------------------ MODULE SyncFeed ------------------------------
(***************************************************************************)
(* The change log of the app database as data (storage/sync): the part of  *)
(* the file it keeps, what a transaction does to it, and the feed page     *)
(* that is read from it.  One file holds the log rows, the counter that    *)
(* numbers them, one retention floor per collection and the file's epoch.  *)
(* An item is a (collection, scope, key) triple; its body is not modelled: *)
(* the number of its last change stands for it.                            *)
(***************************************************************************)
EXTENDS Integers, FiniteSets

CONSTANTS
    Items,         \* the (collection, scope, key) triples that may get a row
    Collections,   \* collection names
    Scopes,        \* login scopes, Shared among them
    Shared,        \* SHARED_SCOPE: every login reads it
    collectionOf,  \* the collection of an item
    scopeOf,       \* the scope of an item
    Limit,         \* rows of a feed page (effective_limit)
    NoRow, NoCursor

Row == [seq : Nat, rev : Nat, deleted : BOOLEAN]

\* No identity is stored beside the epoch.
NoWitness == 0

File == [rows : [Items -> Row \cup {NoRow}], seq : Nat,
         floor : [Collections -> Nat], epoch : Nat, witness : Nat]

Cursor == [seq : Nat, sweep : BOOLEAN, epoch : Nat]

ASSUME ItemsAssumption ==
    /\ IsFiniteSet(Items)
    /\ Shared \in Scopes
    /\ collectionOf \in [Items -> Collections]
    /\ scopeOf \in [Items -> Scopes]
    /\ Limit \in Nat \ {0}
    /\ NoRow \notin Row
    /\ NoCursor \notin Cursor

(***************************************************************************)
(* Transactions on a file.                                                 *)
(***************************************************************************)

\* (Mutant: the row takes a number and the counter does not move on.)
RecordedUncounted(f, i, rev, deleted) ==
    [f EXCEPT !.rows = [f.rows EXCEPT ![i] =
                          [seq |-> f.seq + 1, rev |-> rev, deleted |-> deleted]]]

\* Take the next number of the counter and replace the item's row.
Recorded(f, i, rev, deleted) ==
    [f EXCEPT !.seq = f.seq + 1,
              !.rows = [f.rows EXCEPT ![i] =
                          [seq |-> f.seq + 1, rev |-> rev, deleted |-> deleted]]]

\* A row that existed before the log did is recorded, unless the log has it.
Backfilled(f, i, rev) ==
    IF f.rows[i] = NoRow THEN Recorded(f, i, rev, FALSE) ELSE f

Live(f, i) == f.rows[i] # NoRow /\ ~f.rows[i].deleted

Tombstones(f, c) ==
    {i \in Items : collectionOf[i] = c /\ f.rows[i] # NoRow /\ f.rows[i].deleted}

HigherOf(a, b) == IF a < b THEN b ELSE a

\* (Mutant: the tombstones go and the floor stays.)
PrunedUnmarked(f, c, S, top) ==
    [f EXCEPT !.rows = [i \in Items |-> IF i \in S THEN NoRow ELSE f.rows[i]]]

\* The tombstones S are gone and the floor is at least top, the newest of them.
Pruned(f, c, S, top) ==
    [f EXCEPT !.rows = [i \in Items |-> IF i \in S THEN NoRow ELSE f.rows[i]],
              !.floor[c] = HigherOf(f.floor[c], top)]

\* (Mutant: a file that has an epoch keeps it, whoever it was made for.)
EnsuredOnce(f, id, fresh) ==
    [f EXCEPT !.epoch = IF f.epoch = 0 THEN fresh ELSE f.epoch, !.witness = id]

\* The epoch check of an open: a file that is not the one its epoch was made
\* for gets the epoch "fresh".
Ensured(f, id, fresh) ==
    [f EXCEPT !.epoch = IF \/ f.epoch = 0
                           \/ f.witness # NoWitness /\ f.witness # id
                        THEN fresh ELSE f.epoch,
              !.witness = id]

\* A copy made by the kit: an epoch of its own and no identity.
RenewedInCopy(f, fresh) == [f EXCEPT !.epoch = fresh, !.witness = NoWitness]

(***************************************************************************)
(* The feed.                                                               *)
(***************************************************************************)

At(seq, epoch)      == [seq |-> seq, sweep |-> FALSE, epoch |-> epoch]
SweepAt(seq, epoch) == [seq |-> seq, sweep |-> TRUE, epoch |-> epoch]

IsForeignTo(c, f) == f.epoch # 0 /\ c.epoch # f.epoch

\* A position below the floor, or of another epoch, is answered with a resync.
Refused(f, col, since) ==
    /\ since # NoCursor
    /\ \/ IsForeignTo(since, f)
       \/ ~since.sweep /\ since.seq < f.floor[col]

IsSweep(since) == since = NoCursor \/ since.sweep

AfterOf(since) == IF since = NoCursor THEN 0 ELSE since.seq

Visible(col, scope) ==
    {i \in Items : collectionOf[i] = col /\ scopeOf[i] \in {scope, Shared}}

\* The rows a page may list: above the position, live ones only in a sweep.
Ahead(f, col, scope, since) ==
    {i \in Visible(col, scope) : /\ f.rows[i] # NoRow
                                 /\ f.rows[i].seq > AfterOf(since)
                                 /\ IsSweep(since) => ~f.rows[i].deleted}

\* ORDER BY seq LIMIT n
FirstBySeq(f, S, n) ==
    {i \in S : Cardinality({j \in S : f.rows[j].seq <= f.rows[i].seq}) <= n}

PageItems(f, col, scope, since) ==
    FirstBySeq(f, Ahead(f, col, scope, since), Limit)

More(f, col, scope, since) == Cardinality(Ahead(f, col, scope, since)) > Limit

\* The position of the page's last row, or the one it was asked from.
IsLast(f, col, scope, since, last) ==
    LET page == PageItems(f, col, scope, since)
    IN  \/ page = {} /\ last = AfterOf(since)
        \/ \E i \in page : /\ last = f.rows[i].seq
                           /\ \A j \in page : f.rows[j].seq <= last

\* (Mutants: a cursor without its epoch; every page of a sweep rises to the
\* floor; the end of a sweep does not.)
NextCursorBare(f, col, scope, since, last) ==
    [seq |-> last, sweep |-> IsSweep(since) /\ More(f, col, scope, since)]

NextCursorRaised(f, col, scope, since, last) ==
    CASE IsSweep(since) /\ More(f, col, scope, since)  ->
           SweepAt(HigherOf(last, f.floor[col]), f.epoch)
      [] IsSweep(since) /\ ~More(f, col, scope, since) ->
           At(HigherOf(last, f.floor[col]), f.epoch)
      [] OTHER -> At(last, f.epoch)

NextCursorUnraised(f, col, scope, since, last) ==
    IF IsSweep(since) /\ More(f, col, scope, since)
    THEN SweepAt(last, f.epoch) ELSE At(last, f.epoch)

\* The cursor after a page: the end of a sweep rises to the floor.
NextCursor(f, col, scope, since, last) ==
    CASE IsSweep(since) /\ More(f, col, scope, since)  -> SweepAt(last, f.epoch)
      [] IsSweep(since) /\ ~More(f, col, scope, since) ->
           At(HigherOf(last, f.floor[col]), f.epoch)
      [] OTHER -> At(last, f.epoch)

\* What a reader sees of an item: nothing, or its body (one per change).
Shown(f, i) == IF Live(f, i) THEN f.rows[i].seq ELSE 0

=============================================================================
