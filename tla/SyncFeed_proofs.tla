-------------------------- MODULE SyncFeed_proofs --------------------------
(***************************************************************************)
(* Lemmas about the change log as data, for any items, collections, scopes *)
(* and page limit.  The proofs of its readers and writers rest on them.    *)
(***************************************************************************)
EXTENDS SyncFeed, TLAPS, FiniteSetTheorems

\* The rows of a file are numbered by its counter, each with its own number,
\* and no floor is above the counter.
LogOK(f) ==
    /\ \A i \in Items : f.rows[i] # NoRow =>
         f.rows[i].seq > 0 /\ f.rows[i].seq <= f.seq
    /\ \A i, j \in Items : f.rows[i] # NoRow /\ f.rows[j] # NoRow /\ i # j =>
         f.rows[i].seq # f.rows[j].seq
    /\ \A c \in Collections : f.floor[c] <= f.seq
    /\ f.epoch > 0

(***************************************************************************)
(* What a transaction does to a file.                                      *)
(***************************************************************************)

LEMMA FileFields ==
    ASSUME NEW f \in File
    PROVE  /\ f.rows \in [Items -> Row \cup {NoRow}] /\ f.seq \in Nat
           /\ f.floor \in [Collections -> Nat] /\ f.epoch \in Nat /\ f.witness \in Nat
    BY DEF File

\* A row was written by a number of its own, above all numbers before it.
LEMMA RecordedIsOK ==
    ASSUME NEW f \in File, NEW i \in Items, NEW rev \in Nat,
           NEW deleted \in BOOLEAN, LogOK(f),
           NEW g, g = Recorded(f, i, rev, deleted)
    PROVE  /\ g \in File
           /\ LogOK(g)
           /\ g.seq = f.seq + 1
           /\ g.floor = f.floor /\ g.epoch = f.epoch /\ g.witness = f.witness
           /\ g.rows[i] = [seq |-> f.seq + 1, rev |-> rev, deleted |-> deleted]
           /\ g.rows[i] # NoRow
           /\ \A j \in Items : j # i => g.rows[j] = f.rows[j]
<1> DEFINE r == [seq |-> f.seq + 1, rev |-> rev, deleted |-> deleted]
<1>1. f.seq \in Nat /\ f.rows \in [Items -> Row \cup {NoRow}]
    BY DEF File
<1>2. r \in Row /\ r # NoRow
    BY <1>1, ItemsAssumption DEF Row
<1>3. /\ g.seq = f.seq + 1
      /\ g.rows = [f.rows EXCEPT ![i] = r]
      /\ g.floor = f.floor /\ g.epoch = f.epoch /\ g.witness = f.witness
    BY DEF Recorded, File
<1>4. g \in File
  <2> DEFINE rs == [f.rows EXCEPT ![i] = r]
             n == f.seq + 1
  <2>1. rs \in [Items -> Row \cup {NoRow}] /\ n \in Nat
    BY <1>1, <1>2
  <2>2. g = [f EXCEPT !.seq = n, !.rows = rs]
    BY DEF Recorded
  <2> HIDE DEF rs, n
  <2> QED
    BY <2>1, <2>2 DEF File
<1>5. g.rows[i] = r /\ \A j \in Items : j # i => g.rows[j] = f.rows[j]
    BY <1>1, <1>3
<1>6. \A j \in Items : f.rows[j] # NoRow => f.rows[j].seq \in Nat
    BY <1>1 DEF Row
<1>7. LogOK(g)
  <2>1. \A b \in Collections : g.floor[b] <= g.seq
    BY <1>1, <1>3, FileFields DEF LogOK
  <2> QED
    BY <1>1, <1>2, <1>3, <1>5, <1>6, <2>1 DEF LogOK
<1> QED
    BY <1>2, <1>3, <1>4, <1>5, <1>7

\* Pruning takes rows away and raises one floor.
LEMMA PrunedIsOK ==
    ASSUME NEW f \in File, NEW c \in Collections, NEW S \in SUBSET Items,
           NEW top \in Nat, top <= f.seq, LogOK(f), NEW g, g = Pruned(f, c, S, top)
    PROVE  /\ g \in File
           /\ LogOK(g)
           /\ g.seq = f.seq /\ g.epoch = f.epoch /\ g.witness = f.witness
           /\ g.rows = [j \in Items |-> IF j \in S THEN NoRow ELSE f.rows[j]]
           /\ g.floor = [f.floor EXCEPT ![c] = HigherOf(f.floor[c], top)]
<1>1. HigherOf(f.floor[c], top) \in Nat
    BY FileFields DEF HigherOf
<1>2. /\ g.seq = f.seq /\ g.epoch = f.epoch /\ g.witness = f.witness
      /\ g.rows = [j \in Items |-> IF j \in S THEN NoRow ELSE f.rows[j]]
      /\ g.floor = [f.floor EXCEPT ![c] = HigherOf(f.floor[c], top)]
    BY DEF Pruned, File
<1>3. g \in File
    BY <1>1 DEF Pruned, File
<1>4. \A b \in Collections : g.floor[b] <= g.seq
    BY <1>2, FileFields DEF LogOK, HigherOf
<1>5. LogOK(g)
    BY <1>2, <1>4, FileFields DEF LogOK
<1> QED
    BY <1>2, <1>3, <1>5

\* A file that is put back keeps everything but its epoch and its witness.
LEMMA EnsuredIsOK ==
    ASSUME NEW f \in File, NEW id \in Nat, NEW fresh \in Nat \ {0}, LogOK(f),
           NEW g, g = Ensured(f, id, fresh)
    PROVE  /\ g \in File /\ LogOK(g)
           /\ g.rows = f.rows /\ g.seq = f.seq /\ g.floor = f.floor
           /\ g.witness = id
           /\ g.epoch = IF f.witness # NoWitness /\ f.witness # id THEN fresh
                        ELSE f.epoch
<1> DEFINE e == IF f.witness # NoWitness /\ f.witness # id THEN fresh ELSE f.epoch
<1>1. f.epoch # 0
    BY DEF LogOK
<1>2. e \in Nat /\ e > 0
    BY FileFields DEF LogOK
<1>3. g = [f EXCEPT !.epoch = e, !.witness = id]
    BY <1>1 DEF Ensured
<1> HIDE DEF e
<1>4. g \in File
    BY <1>2, <1>3 DEF File
<1>5. /\ g.rows = f.rows /\ g.seq = f.seq /\ g.floor = f.floor
      /\ g.witness = id /\ g.epoch = e
    BY <1>3 DEF File
<1>6. LogOK(g)
    BY <1>2, <1>5 DEF LogOK
<1> QED
    BY <1>4, <1>5, <1>6 DEF e

LEMMA RenewedIsOK ==
    ASSUME NEW f \in File, NEW fresh \in Nat \ {0}, LogOK(f),
           NEW g, g = RenewedInCopy(f, fresh)
    PROVE  /\ g \in File /\ LogOK(g)
           /\ g.rows = f.rows /\ g.epoch = fresh /\ g.witness = NoWitness
<1>1. g \in File
    BY DEF RenewedInCopy, NoWitness, File
<1>2. /\ g.rows = f.rows /\ g.seq = f.seq /\ g.floor = f.floor
      /\ g.epoch = fresh /\ g.witness = NoWitness
    BY DEF RenewedInCopy, File
<1>3. LogOK(g)
    BY <1>2 DEF LogOK
<1> QED
    BY <1>1, <1>2, <1>3

(***************************************************************************)
(* What a page of the feed is.                                             *)
(***************************************************************************)

LEMMA PositionType ==
    ASSUME NEW since \in Cursor \cup {NoCursor}
    PROVE  AfterOf(since) \in Nat
    BY DEF AfterOf, Cursor

\* A page lists rows above the position it was asked from.
LEMMA PageIsAhead ==
    ASSUME NEW f \in File, NEW col, NEW scope, NEW since,
           NEW i \in PageItems(f, col, scope, since)
    PROVE  /\ i \in Visible(col, scope) /\ i \in Items
           /\ f.rows[i] # NoRow /\ f.rows[i] \in Row /\ f.rows[i].seq \in Nat
           /\ f.rows[i].seq > AfterOf(since)
    BY FileFields DEF PageItems, FirstBySeq, Ahead, Visible, Row

\* The cursor after a page is a position of the file's epoch: at the page's
\* last row or, at the end of a sweep, at the floor if that is higher.
LEMMA NextCursorIsOK ==
    ASSUME NEW f \in File, NEW col \in Collections, NEW scope, NEW since,
           NEW last \in Nat, NEW n, n = NextCursor(f, col, scope, since, last)
    PROVE  /\ n \in Cursor /\ n # NoCursor
           /\ n.epoch = f.epoch
           /\ n.seq = last \/ (~More(f, col, scope, since) /\ n.seq = HigherOf(last, f.floor[col]))
           /\ IsSweep(since) /\ ~More(f, col, scope, since) => n.seq = HigherOf(last, f.floor[col])
           /\ n.sweep => IsSweep(since) /\ More(f, col, scope, since)
<1> DEFINE top == HigherOf(last, f.floor[col])
<1>1. f.epoch \in Nat /\ top \in Nat
    BY FileFields DEF HigherOf
<1>2. \/ n = SweepAt(last, f.epoch) /\ IsSweep(since) /\ More(f, col, scope, since)
      \/ ~More(f, col, scope, since) /\ n = At(top, f.epoch)
      \/ ~IsSweep(since) /\ n = At(last, f.epoch)
    BY DEF NextCursor
<1> HIDE DEF top
<1>3. CASE n = SweepAt(last, f.epoch) /\ IsSweep(since) /\ More(f, col, scope, since)
  <2>1. n \in Cursor /\ n.epoch = f.epoch /\ n.seq = last
    BY <1>1, <1>3 DEF SweepAt, Cursor
  <2>2. n # NoCursor
    BY <2>1, ItemsAssumption
  <2> QED
    BY <1>3, <2>1, <2>2
<1>4. CASE ~More(f, col, scope, since) /\ n = At(top, f.epoch)
  <2>1. n \in Cursor /\ n.epoch = f.epoch /\ n.seq = top /\ ~n.sweep
    BY <1>1, <1>4 DEF At, Cursor
  <2>2. n # NoCursor
    BY <2>1, ItemsAssumption
  <2> QED
    BY <1>4, <2>1, <2>2 DEF top
<1>5. CASE ~IsSweep(since) /\ n = At(last, f.epoch)
  <2>1. n \in Cursor /\ n.epoch = f.epoch /\ n.seq = last /\ ~n.sweep
    BY <1>1, <1>5 DEF At, Cursor
  <2>2. n # NoCursor
    BY <2>1, ItemsAssumption
  <2> QED
    BY <1>5, <2>1, <2>2
<1> QED
    BY <1>2, <1>3, <1>4, <1>5 DEF top

(***************************************************************************)
(* What a page leaves out.                                                 *)
(***************************************************************************)

\* What a page leaves out is numbered after everything it lists.
LEMMA SkippedIsLater ==
    ASSUME NEW f \in File, NEW S \in SUBSET Items,
           \A i \in S : f.rows[i] # NoRow,
           NEW i \in S \ FirstBySeq(f, S, Limit), NEW j \in FirstBySeq(f, S, Limit)
    PROVE  f.rows[j].seq < f.rows[i].seq
<1> DEFINE UpTo(k) == {l \in S : f.rows[l].seq <= f.rows[k].seq}
<1>1. \A k \in S : f.rows[k].seq \in Nat
    BY FileFields DEF Row
<1>2. j \in S /\ i \in S /\ Cardinality(UpTo(j)) <= Limit /\ ~(Cardinality(UpTo(i)) <= Limit)
    BY DEF FirstBySeq
<1>3. SUFFICES ASSUME f.rows[i].seq <= f.rows[j].seq PROVE FALSE
    BY <1>1, <1>2
<1>4. UpTo(i) \subseteq UpTo(j)
    BY <1>1, <1>2, <1>3
<1>5. IsFiniteSet(UpTo(j))
    BY FS_Subset, ItemsAssumption
<1>6. Cardinality(UpTo(i)) <= Cardinality(UpTo(j))
    BY <1>4, <1>5, FS_Subset
<1>7. Cardinality(UpTo(i)) \in Nat /\ Cardinality(UpTo(j)) \in Nat
    BY <1>4, <1>5, FS_Subset, FS_CardinalityType
<1> QED
    BY <1>2, <1>6, <1>7, ItemsAssumption

\* When no page follows, everything ahead is listed.
LEMMA LastPageIsWhole ==
    ASSUME NEW f, NEW col, NEW scope, NEW since, ~More(f, col, scope, since)
    PROVE  PageItems(f, col, scope, since) = Ahead(f, col, scope, since)
<1> DEFINE S == Ahead(f, col, scope, since)
           UpTo(k) == {l \in S : f.rows[l].seq <= f.rows[k].seq}
<1>1. IsFiniteSet(S) /\ Cardinality(S) \in Nat
    BY FS_Subset, FS_CardinalityType, ItemsAssumption DEF Ahead, Visible
<1>2. Cardinality(S) <= Limit
    BY <1>1, ItemsAssumption DEF More
<1>3. ASSUME NEW k \in S PROVE Cardinality(UpTo(k)) <= Limit
  <2>1. UpTo(k) \subseteq S
    OBVIOUS
  <2>2. Cardinality(UpTo(k)) <= Cardinality(S) /\ Cardinality(UpTo(k)) \in Nat
    BY <1>1, <2>1, FS_Subset, FS_CardinalityType
  <2> QED
    BY <1>1, <1>2, <2>2, ItemsAssumption
<1> QED
    BY <1>3 DEF PageItems, FirstBySeq

\* With no more items than a page has rows there is only one page.
LEMMA OnePage ==
    ASSUME Cardinality(Items) <= Limit, NEW f, NEW col, NEW scope, NEW since
    PROVE  ~More(f, col, scope, since)
<1>1. Ahead(f, col, scope, since) \subseteq Items
    BY DEF Ahead, Visible
<1>2. Cardinality(Ahead(f, col, scope, since)) <= Cardinality(Items)
    BY <1>1, FS_Subset, ItemsAssumption
<1>3. Cardinality(Ahead(f, col, scope, since)) \in Nat /\ Cardinality(Items) \in Nat
    BY <1>1, FS_Subset, FS_CardinalityType, ItemsAssumption
<1> QED
    BY <1>2, <1>3, ItemsAssumption DEF More

(***************************************************************************)
(* What a page and its cursor cover.                                       *)
(***************************************************************************)

IsRowOf(f, page, since, last) == last \in {AfterOf(since)} \cup {f.rows[i].seq : i \in page}

\* The cursor after a page is a position the counter reached.
LEMMA PagePosition ==
    ASSUME NEW f \in File, LogOK(f), NEW col \in Collections, NEW scope,
           NEW since \in Cursor \cup {NoCursor}, AfterOf(since) <= f.seq,
           NEW last, IsRowOf(f, PageItems(f, col, scope, since), since, last)
    PROVE  /\ last \in Nat
           /\ NextCursor(f, col, scope, since, last).seq \in Nat
           /\ NextCursor(f, col, scope, since, last).seq <= f.seq
<1>1. AfterOf(since) \in Nat /\ f.seq \in Nat
    BY PositionType, FileFields
<1>2. \A j \in PageItems(f, col, scope, since) : f.rows[j].seq \in Nat /\ f.rows[j].seq <= f.seq
    BY PageIsAhead DEF LogOK
<1>3. last \in Nat /\ last <= f.seq
    BY <1>1, <1>2 DEF IsRowOf
<1>4. f.floor[col] \in Nat /\ f.floor[col] <= f.seq
    BY FileFields DEF LogOK
<1>5. HigherOf(last, f.floor[col]) \in Nat /\ HigherOf(last, f.floor[col]) <= f.seq
    BY <1>3, <1>4 DEF HigherOf
<1> QED
    BY <1>3, <1>5, NextCursorIsOK

\* A live row above the position asked from is listed, if the cursor after the
\* page is not below it or no page follows.
LEMMA PageCovers ==
    ASSUME NEW f \in File, LogOK(f), NEW col \in Collections, NEW scope,
           NEW since \in Cursor \cup {NoCursor}, AfterOf(since) <= f.seq,
           NEW last, IsRowOf(f, PageItems(f, col, scope, since), since, last),
           NEW i \in Visible(col, scope), Live(f, i), f.rows[i].seq > AfterOf(since),
           \/ f.rows[i].seq <= NextCursor(f, col, scope, since, last).seq
           \/ ~More(f, col, scope, since)
    PROVE  i \in PageItems(f, col, scope, since)
<1> DEFINE S == Ahead(f, col, scope, since)
           page == PageItems(f, col, scope, since)
<1>1. i \in S /\ S \in SUBSET Items /\ \A j \in S : f.rows[j] # NoRow
    BY DEF Ahead, Visible, Live
<1>2. CASE ~More(f, col, scope, since)
    BY <1>1, <1>2, LastPageIsWhole
<1>3. CASE More(f, col, scope, since)
  <2>1. SUFFICES ASSUME i \notin page PROVE FALSE
    OBVIOUS
  <2>2. page = FirstBySeq(f, S, Limit)
    BY DEF PageItems
  <2>3. \A j \in page : f.rows[j].seq < f.rows[i].seq
    <3> HIDE DEF S
    <3> QED
      BY <1>1, <2>1, <2>2, SkippedIsLater
  <2>4. last \in Nat /\ last < f.rows[i].seq
    BY <2>3, PagePosition DEF IsRowOf
  <2>5. NextCursor(f, col, scope, since, last).seq = last
    BY <1>3, <2>4, NextCursorIsOK
  <2>6. f.rows[i].seq \in Nat
    BY <1>1, FileFields DEF Row
  <2> QED
    BY <1>3, <2>4, <2>5, <2>6
<1> QED
    BY <1>2, <1>3

\* A retention run takes tombstones away that its collection's floor covers.
LEMMA TombstonesGo ==
    ASSUME NEW f \in File, LogOK(f), NEW c \in Collections,
           NEW S \in SUBSET Tombstones(f, c), NEW i \in S,
           \A j \in S : f.rows[j].seq <= f.rows[i].seq,
           NEW g, g = Pruned(f, c, S, f.rows[i].seq)
    PROVE  /\ g \in File /\ LogOK(g)
           /\ g.seq = f.seq /\ g.epoch = f.epoch /\ g.witness = f.witness
           /\ \A b \in Collections : g.floor[b] >= f.floor[b]
           /\ \A j \in Items :
                \/ g.rows[j] = f.rows[j]
                \/ /\ g.rows[j] = NoRow
                   /\ collectionOf[j] = c
                   /\ f.rows[j] # NoRow /\ f.rows[j].deleted
                   /\ f.rows[j].seq <= g.floor[c]
<1> DEFINE top == f.rows[i].seq
<1>1. S \in SUBSET Items /\ top \in Nat /\ top <= f.seq
    BY FileFields DEF Tombstones, Row, LogOK
<1> HIDE DEF top
<1>2. /\ g \in File /\ LogOK(g)
      /\ g.seq = f.seq /\ g.epoch = f.epoch /\ g.witness = f.witness
      /\ g.rows = [j \in Items |-> IF j \in S THEN NoRow ELSE f.rows[j]]
      /\ g.floor = [f.floor EXCEPT ![c] = HigherOf(f.floor[c], top)]
  <2>1. g = Pruned(f, c, S, top)
    BY DEF top
  <2> QED
    BY <1>1, <2>1, PrunedIsOK
<1>3. /\ g.floor[c] >= top
      /\ \A b \in Collections : g.floor[b] >= f.floor[b]
    BY <1>1, <1>2, FileFields DEF HigherOf
<1>4. ASSUME NEW j \in S
      PROVE  /\ collectionOf[j] = c /\ f.rows[j] # NoRow /\ f.rows[j].deleted
             /\ f.rows[j].seq <= g.floor[c]
  <2>1. j \in Tombstones(f, c) /\ j \in Items
    BY DEF Tombstones
  <2>2. f.rows[j].seq \in Nat /\ g.floor[c] \in Nat
    BY <1>2, <2>1, FileFields DEF Tombstones, Row
  <2> QED
    BY <1>1, <1>3, <2>1, <2>2 DEF Tombstones, top
<1> QED
    BY <1>2, <1>3, <1>4
=============================================================================
