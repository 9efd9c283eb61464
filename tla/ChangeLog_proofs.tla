------------------------- MODULE ChangeLog_proofs -------------------------
(***************************************************************************)
(* Proofs about ChangeLog, for any number of items, collections, scopes,   *)
(* devices, any page limit and any bound.                                  *)
(***************************************************************************)
EXTENDS ChangeLog, SyncFeed_proofs

(***************************************************************************)
(* The inductive invariant.                                                *)
(***************************************************************************)

\* The open transaction is the committed file with newer rows on top.
TxAhead ==
    tx # NoTx =>
        /\ LogOK(tx)
        /\ tx.seq >= file.seq
        /\ tx.floor = file.floor /\ tx.epoch = file.epoch /\ tx.witness = file.witness
        /\ \A i \in Items : tx.rows[i] # file.rows[i] =>
             tx.rows[i] # NoRow /\ tx.rows[i].seq > file.seq

LogInv == TypeOK /\ LogOK(file) /\ TxAhead /\ (copy # NoFile => LogOK(copy))

\* Every epoch in use was made, and the live file is the one its epoch was
\* made for.
EpochsMade ==
    /\ file.epoch <= epochs
    /\ file.witness = identity
    /\ copy # NoFile => copy.epoch <= epochs /\ copy.witness <= identity
    /\ \A d \in Followers : cursor[d] # NoCursor => cursor[d].epoch <= epochs

\* Nobody holds a position of a kit copy that was not put back yet.
CopyIsAlone ==
    copy # NoFile /\ copy.witness = NoWitness /\ restored = 0 =>
        /\ copy.epoch # file.epoch
        /\ \A d \in Followers : cursor[d] # NoCursor => cursor[d].epoch # copy.epoch

\* A position of the file's epoch is one the counter reached, and what is
\* live and owed lies above it.
PositionsOK ==
    \A d \in Followers : cursor[d] # NoCursor /\ cursor[d].epoch = file.epoch =>
        /\ cursor[d].seq <= file.seq
        /\ \A i \in owed[d] : Live(file, i) => file.rows[i].seq > cursor[d].seq

OwedIsVisible == \A d \in Followers : owed[d] \subseteq Visible(follows[d], login[d])

IInv == LogInv /\ EpochsMade /\ CopyIsAlone /\ PositionsOK /\ OwedIsVisible

(***************************************************************************)
(* The log part of the invariant.                                          *)
(***************************************************************************)

LEMMA InitLog == Init => LogInv
<1> SUFFICES ASSUME Init PROVE LogInv
    OBVIOUS
<1> USE DEF Init, EmptyFile
<1>1. EmptyFile \in File
    BY DEF File
<1>2. TypeOK
    BY <1>1 DEF TypeOK
<1>3. LogOK(file)
    BY DEF LogOK
<1> QED
    BY <1>2, <1>3 DEF LogInv, TxAhead

\* The positions of the followers are not part of the log.
LEMMA FollowType ==
    ASSUME TypeOK, NEW d \in Followers, Follow(d)
    PROVE  /\ cursor' \in [Followers -> Cursor \cup {NoCursor}]
           /\ owed' \in [Followers -> SUBSET Items]
<1> DEFINE col == follows[d]
           since == cursor[d]
           page == PageItems(file, col, login[d], since)
<1>1. file \in File /\ since \in Cursor \cup {NoCursor} /\ col \in Collections
    BY FollowersAssumption DEF TypeOK
<1>3. PICK last \in {AfterOf(since)} \cup {file.rows[i].seq : i \in page} :
         cursor' = [cursor EXCEPT ![d] = NextCursor(file, col, login[d], since, last)]
    BY DEF Follow
<1>4. last \in Nat
    BY <1>1, PositionType, PageIsAhead
<1> HIDE DEF page
<1>5. NextCursor(file, col, login[d], since, last) \in Cursor
    BY <1>1, <1>4, NextCursorIsOK
<1>6. cursor' \in [Followers -> Cursor \cup {NoCursor}]
    BY <1>3, <1>5 DEF TypeOK
<1>7. owed' \in [Followers -> SUBSET Items]
    BY DEF TypeOK, Follow, Visible
<1> QED
    BY <1>6, <1>7

LEMMA OweType ==
    ASSUME TypeOK, NEW S \in SUBSET Items, Owe(S)
    PROVE  owed' \in [Followers -> SUBSET Items]
    BY DEF TypeOK, Owe

\* A retention run takes tombstones away that its collection's floor covers.
LEMMA PruneIsOK ==
    ASSUME file \in File, LogOK(file), NEW c \in Collections, Prune(c)
    PROVE  /\ file' \in File /\ LogOK(file')
           /\ file'.seq = file.seq /\ file'.epoch = file.epoch
           /\ file'.witness = file.witness
           /\ \A b \in Collections : file'.floor[b] >= file.floor[b]
           /\ \A j \in Items :
                \/ file'.rows[j] = file.rows[j]
                \/ /\ file'.rows[j] = NoRow
                   /\ collectionOf[j] = c
                   /\ file.rows[j] # NoRow /\ file.rows[j].deleted
                   /\ file.rows[j].seq <= file'.floor[c]
<1>1. PICK S \in SUBSET Items, top \in Nat :
         /\ top <= file.seq
         /\ S \subseteq Tombstones(file, c)
         /\ \A j \in S : file.rows[j].seq <= top
         /\ file' = Pruned(file, c, S, top)
  <2>1. PICK S \in SUBSET Tombstones(file, c) : \E i \in S :
           /\ \A j \in S : file.rows[j].seq <= file.rows[i].seq
           /\ file' = Pruned(file, c, S, file.rows[i].seq)
    BY DEF Prune
  <2>2. PICK i \in S : /\ \A j \in S : file.rows[j].seq <= file.rows[i].seq
                       /\ file' = Pruned(file, c, S, file.rows[i].seq)
    BY <2>1
  <2>3. /\ S \in SUBSET Items /\ file.rows[i].seq \in Nat
        /\ file.rows[i].seq <= file.seq
    BY <2>2, FileFields DEF Tombstones, Row, LogOK
  <2> QED
    BY <2>2, <2>3
<1>2. /\ file' \in File /\ LogOK(file')
      /\ file'.seq = file.seq /\ file'.epoch = file.epoch
      /\ file'.witness = file.witness
      /\ file'.rows = [j \in Items |-> IF j \in S THEN NoRow ELSE file.rows[j]]
      /\ file'.floor = [file.floor EXCEPT ![c] = HigherOf(file.floor[c], top)]
    BY <1>1, PrunedIsOK
<1>4. /\ file'.floor[c] >= top
      /\ \A b \in Collections : file'.floor[b] >= file.floor[b]
    BY <1>2, FileFields DEF HigherOf
<1>3. ASSUME NEW j \in S
      PROVE  /\ collectionOf[j] = c /\ file.rows[j] # NoRow /\ file.rows[j].deleted
             /\ file.rows[j].seq <= file'.floor[c]
  <2>1. j \in Tombstones(file, c) /\ j \in Items
    BY <1>1
  <2>2. file.rows[j].seq \in Nat /\ file'.floor[c] \in Nat
    BY <1>2, <2>1, FileFields DEF Tombstones, Row
  <2> QED
    BY <1>1, <1>4, <2>1, <2>2 DEF Tombstones
<1> QED
    BY <1>2, <1>4, <1>3

LEMMA NextLog == LogInv /\ [Next]_vars => LogInv'
<1> SUFFICES ASSUME LogInv, [Next]_vars PROVE LogInv'
    OBVIOUS
<1> USE DEF LogInv
<1>0. /\ file \in File /\ copy \in File \cup {NoFile} /\ tx \in File \cup {NoTx}
      /\ identity \in Nat \ {0} /\ epochs \in Nat \ {0} /\ restored \in Nat
    BY DEF TypeOK
<1>1. CASE Begin
    BY <1>0, <1>1, FileFields DEF Begin, TypeOK, TxAhead
<1>2. ASSUME NEW i \in Items, NEW rev \in Revs, NEW deleted \in BOOLEAN,
             tx \in File, rev \in Nat, LogOK(tx), tx # NoTx,
             tx' = Recorded(tx, i, rev, deleted),
             UNCHANGED <<file, copy, restored, identity, epochs, cursor, owed>>
      PROVE  LogInv'
  <2>1. tx' \in File /\ LogOK(tx') /\ tx'.seq = tx.seq + 1 /\ tx.seq \in Nat
        /\ tx'.floor = tx.floor /\ tx'.epoch = tx.epoch /\ tx'.witness = tx.witness
        /\ tx'.rows[i].seq = tx.seq + 1 /\ tx'.rows[i] # NoRow
        /\ \A j \in Items : j # i => tx'.rows[j] = tx.rows[j]
    <3> DEFINE g == Recorded(tx, i, rev, deleted)
    <3>1. tx' = g /\ tx.seq \in Nat
      BY <1>2, FileFields
    <3>2. /\ g \in File /\ LogOK(g) /\ g.seq = tx.seq + 1
          /\ g.floor = tx.floor /\ g.epoch = tx.epoch /\ g.witness = tx.witness
          /\ g.rows[i] = [seq |-> tx.seq + 1, rev |-> rev, deleted |-> deleted]
          /\ g.rows[i] # NoRow
          /\ \A j \in Items : j # i => g.rows[j] = tx.rows[j]
      BY <1>2, RecordedIsOK
    <3> HIDE DEF g
    <3> QED
      BY <3>1, <3>2
  <2>2. TypeOK'
    BY <1>2, <2>1 DEF TypeOK
  <2>3. TxAhead'
    BY <1>0, <1>2, <2>1, FileFields DEF TxAhead
  <2> QED
    BY <1>2, <2>2, <2>3
<1>3. CASE \E i \in Items, rev \in Revs, deleted \in BOOLEAN : Record(i, rev, deleted)
    BY <1>0, <1>2, <1>3, BoundsAssumption DEF Record, TxAhead
<1>4. CASE \E i \in Items, rev \in Revs : Backfill(i, rev)
  <2>1. PICK i \in Items, rev \in Revs : Backfill(i, rev)
    BY <1>4
  <2>2. CASE tx.rows[i] = NoRow
    BY <1>0, <1>2, <2>1, <2>2, BoundsAssumption DEF Backfill, Backfilled, TxAhead
  <2>3. CASE tx.rows[i] # NoRow
    <3>1. UNCHANGED vars
      BY <2>1, <2>3 DEF Backfill, Backfilled, vars
    <3> QED
      BY <3>1 DEF vars, TypeOK, TxAhead
  <2> QED
    BY <2>2, <2>3
<1>5. CASE Commit
  <2>1. file' \in File /\ LogOK(file') /\ tx' = NoTx
    BY <1>0, <1>5 DEF Commit, TxAhead
  <2>2. owed' \in [Followers -> SUBSET Items]
    BY <1>5, OweType DEF Commit, ChangedBy
  <2> QED
    BY <1>0, <1>5, <2>1, <2>2 DEF Commit, TypeOK, TxAhead
<1>6. CASE Rollback
    BY <1>0, <1>6 DEF Rollback, TypeOK, TxAhead
<1>7. CASE \E c \in Collections : Prune(c)
  <2>1. PICK c \in Collections : Prune(c)
    BY <1>7
  <2>4. file' \in File /\ LogOK(file')
    BY <1>0, <2>1, PruneIsOK
  <2> QED
    BY <1>0, <2>1, <2>4 DEF Prune, TypeOK, TxAhead
<1>8. CASE KitCopy
  <2>1. copy' \in File /\ LogOK(copy')
    BY <1>0, <1>8, RenewedIsOK DEF KitCopy
  <2> QED
    BY <1>0, <1>8, <2>1 DEF KitCopy, TypeOK, TxAhead
<1>9. CASE OutsideCopy
    BY <1>0, <1>9 DEF OutsideCopy, TypeOK, TxAhead
<1>10. CASE Restore
  <2>1. file' \in File /\ LogOK(file') /\ tx' = NoTx
    <3>1. copy \in File /\ LogOK(copy) /\ identity + 1 \in Nat /\ epochs + 1 \in Nat \ {0}
      BY <1>0, <1>10 DEF Restore
    <3>2. file' = Ensured(copy, identity + 1, epochs + 1) /\ tx' = NoTx
      BY <1>10 DEF Restore
    <3> QED
      BY <3>1, <3>2, EnsuredIsOK
  <2>2. owed' \in [Followers -> SUBSET Items]
    BY <1>10, OweType DEF Restore, ChangedBy
  <2> QED
    BY <1>0, <1>10, <2>1, <2>2 DEF Restore, TypeOK, TxAhead
<1>11. CASE \E d \in Followers : Follow(d)
  <2>1. UNCHANGED <<file, tx, copy, restored, identity, epochs>>
    BY <1>11 DEF Follow
  <2>2. TypeOK'
    BY <1>11, <2>1, FollowType DEF TypeOK
  <2> QED
    BY <2>1, <2>2 DEF TxAhead
<1>12. CASE \E d \in Followers : Resync(d)
    BY <1>12 DEF Resync, TypeOK, TxAhead
<1>13. CASE UNCHANGED vars
    BY <1>13 DEF vars, TypeOK, TxAhead
<1> QED
    BY <1>1, <1>3, <1>4, <1>5, <1>6, <1>7, <1>8, <1>9, <1>10, <1>11, <1>12, <1>13
       DEF Next

\* Every variable keeps its type.
THEOREM TypeCorrect == Spec => []TypeOK
<1>1. LogInv => TypeOK
    BY DEF LogInv
<1> QED
    BY <1>1, InitLog, NextLog, PTL DEF Spec

LEMMA LogIsOK == Spec => []LogInv
    BY InitLog, NextLog, PTL DEF Spec

(***************************************************************************)
(* Commits land ahead of every reader.                                     *)
(***************************************************************************)

LandsAhead(i) ==
    IF file'.rows[i] # NoRow
    THEN /\ file'.rows[i].seq > file.seq
         /\ \A j \in Items \ {i} : file'.rows[j] # NoRow =>
              file'.rows[j].seq # file'.rows[i].seq
    ELSE /\ file.rows[i].deleted
         /\ file.rows[i].seq <= file'.floor[collectionOf[i]]

LEMMA StepLandsAhead ==
    ASSUME LogInv, Next, identity' = identity, NEW i \in Items,
           file'.rows[i] # file.rows[i]
    PROVE  LandsAhead(i)
<1>0. file \in File
    BY DEF LogInv, TypeOK
<1>1. CASE Commit
    BY <1>1 DEF Commit, LogInv, TxAhead, LogOK, LandsAhead
<1>2. CASE \E c \in Collections : Prune(c)
  <2>1. PICK c \in Collections : Prune(c)
    BY <1>2
  <2>2. LogOK(file)
    BY DEF LogInv
  <2>3. /\ file'.rows[i] = NoRow /\ collectionOf[i] = c /\ file.rows[i].deleted
        /\ file.rows[i].seq <= file'.floor[c]
    BY <1>0, <2>1, <2>2, PruneIsOK
  <2> QED
    BY <2>3 DEF LandsAhead
<1>3. CASE Restore
    BY <1>3 DEF Restore, LogInv, TypeOK
<1> QED
    BY <1>1, <1>2, <1>3 DEF Next, Begin, Record, Backfill, Rollback, KitCopy,
       OutsideCopy, Follow, Resync

\* Unless the file is replaced, what a commit changes lands above everything a
\* reader could have read, and only tombstones under the floor go away.
THEOREM CommitsAreAhead == Spec => CommitsLandAhead
<1>1. LogInv /\ [Next]_vars =>
        [identity' = identity => \A i \in Items : file'.rows[i] # file.rows[i] =>
           IF file'.rows[i] # NoRow
           THEN /\ file'.rows[i].seq > file.seq
                /\ \A j \in Items \ {i} : file'.rows[j] # NoRow =>
                     file'.rows[j].seq # file'.rows[i].seq
           ELSE /\ file.rows[i].deleted
                /\ file.rows[i].seq <= file'.floor[collectionOf[i]]]_vars
    BY StepLandsAhead DEF LandsAhead
<1> QED
    BY <1>1, LogIsOK, PTL DEF Spec, CommitsLandAhead

(***************************************************************************)
(* Epochs and positions.                                                   *)
(***************************************************************************)

\* How often the operator may put one copy back.
OncePutBack == MaxRestores <= 1

LEMMA RestoreIsOK ==
    ASSUME LogInv, EpochsMade, Restore
    PROVE  /\ copy \in File /\ copy # NoFile /\ LogOK(copy) /\ file' \in File
           /\ file'.rows = copy.rows /\ file'.seq = copy.seq
           /\ file'.epoch = IF copy.witness # NoWitness THEN epochs + 1 ELSE copy.epoch
           /\ file'.witness = identity' /\ identity' = identity + 1
           /\ epochs' = epochs + 1
<1>1. /\ copy \in File /\ copy # NoFile /\ LogOK(copy)
      /\ identity \in Nat \ {0} /\ epochs \in Nat \ {0}
    BY DEF LogInv, TypeOK, Restore
<1>2. copy.witness <= identity /\ copy.witness \in Nat
    BY <1>1, FileFields DEF EpochsMade
<1>3. file' = Ensured(copy, identity + 1, epochs + 1)
    BY DEF Restore
<1>4. identity + 1 \in Nat /\ epochs + 1 \in Nat \ {0} /\ copy.witness # identity + 1
    BY <1>1, <1>2
<1>5. /\ file' \in File
      /\ file'.rows = copy.rows /\ file'.seq = copy.seq /\ file'.witness = identity + 1
      /\ file'.epoch = IF copy.witness # NoWitness /\ copy.witness # identity + 1
                       THEN epochs + 1 ELSE copy.epoch
    BY <1>1, <1>3, <1>4, EnsuredIsOK
<1>6. identity' = identity + 1 /\ epochs' = epochs + 1
    BY DEF Restore
<1> QED
    BY <1>1, <1>4, <1>5, <1>6

\* A follower that is answered holds a position of the file's epoch after it.
LEMMA FollowIsOK ==
    ASSUME LogInv, NEW d \in Followers, Follow(d)
    PROVE  /\ cursor'[d] \in Cursor /\ cursor'[d] # NoCursor
           /\ cursor'[d].epoch = file.epoch
           /\ \A e \in Followers \ {d} : cursor'[e] = cursor[e] /\ owed'[e] = owed[e]
           /\ cursor[d] # NoCursor => cursor[d].epoch = file.epoch
<1>0. TypeOK /\ file \in File /\ LogOK(file)
    BY DEF LogInv, TypeOK
<1> DEFINE since == cursor[d]
           page == PageItems(file, follows[d], login[d], since)
<1>1. since \in Cursor \cup {NoCursor} /\ follows[d] \in Collections
    BY <1>0, FollowersAssumption DEF TypeOK
<1>2. PICK last \in {AfterOf(since)} \cup {file.rows[i].seq : i \in page} :
         cursor' = [cursor EXCEPT ![d] =
                      NextCursor(file, follows[d], login[d], since, last)]
    BY DEF Follow
<1>3. last \in Nat
    BY <1>0, <1>1, PositionType, PageIsAhead
<1>4. cursor'[d] = NextCursor(file, follows[d], login[d], since, last)
    BY <1>0, <1>2 DEF TypeOK
<1>5. /\ cursor'[d] \in Cursor /\ cursor'[d] # NoCursor
      /\ cursor'[d].epoch = file.epoch
    BY <1>0, <1>1, <1>3, <1>4, NextCursorIsOK
<1>6. \A e \in Followers \ {d} : cursor'[e] = cursor[e] /\ owed'[e] = owed[e]
    BY <1>0, <1>2 DEF TypeOK, Follow
<1>7. cursor[d] # NoCursor => cursor[d].epoch = file.epoch
    BY <1>0 DEF Follow, Refused, IsForeignTo, LogOK
<1> QED
    BY <1>5, <1>6, <1>7

LEMMA NextEpochs == LogInv /\ EpochsMade /\ [Next]_vars => EpochsMade'
<1> SUFFICES ASSUME LogInv, EpochsMade, [Next]_vars PROVE EpochsMade'
    OBVIOUS
<1>0. /\ file \in File /\ LogOK(file) /\ TypeOK
      /\ file.epoch \in Nat /\ file.witness \in Nat
      /\ epochs \in Nat /\ identity \in Nat
      /\ copy # NoFile => copy.epoch \in Nat /\ copy.witness \in Nat
    BY FileFields DEF LogInv, TypeOK
<1>1. CASE Commit
    BY <1>1 DEF Commit, LogInv, TxAhead, EpochsMade
<1>2. CASE \E c \in Collections : Prune(c)
  <2>1. file'.epoch = file.epoch /\ file'.witness = file.witness
    BY <1>0, <1>2, PruneIsOK
  <2> QED
    BY <1>2, <2>1 DEF Prune, EpochsMade
<1>3. CASE KitCopy
  <2>1. /\ copy' = RenewedInCopy(file, epochs + 1) /\ epochs' = epochs + 1
        /\ UNCHANGED <<file, identity, cursor>>
    BY <1>3 DEF KitCopy
  <2>2. copy'.epoch = epochs + 1 /\ copy'.witness = 0
    BY <1>0, <2>1, RenewedIsOK DEF NoWitness
  <2>3. \A d \in Followers : cursor[d] # NoCursor => cursor[d].epoch \in Nat
    BY <1>0 DEF TypeOK, Cursor
  <2> QED
    BY <1>0, <2>1, <2>2, <2>3 DEF EpochsMade
<1>4. CASE OutsideCopy
    BY <1>0, <1>4 DEF OutsideCopy, EpochsMade
<1>5. CASE Restore
  <2>1. /\ file'.epoch = IF copy.witness # NoWitness THEN epochs + 1 ELSE copy.epoch
        /\ file'.witness = identity' /\ identity' = identity + 1
        /\ epochs' = epochs + 1 /\ copy # NoFile
        /\ copy' = copy /\ cursor' = cursor
    BY <1>5, RestoreIsOK DEF Restore
  <2>2. \A d \in Followers : cursor[d] # NoCursor => cursor[d].epoch \in Nat
    BY <1>0 DEF TypeOK, Cursor
  <2> QED
    BY <1>0, <2>1, <2>2 DEF EpochsMade
<1>6. CASE \E d \in Followers : Follow(d)
  <2>1. PICK d \in Followers : Follow(d)
    BY <1>6
  <2>2. /\ cursor'[d].epoch = file.epoch
        /\ \A e \in Followers \ {d} : cursor'[e] = cursor[e]
    BY <2>1, FollowIsOK
  <2> QED
    BY <2>1, <2>2 DEF Follow, EpochsMade
<1>7. CASE \E d \in Followers : Resync(d)
    BY <1>0, <1>7 DEF Resync, EpochsMade, TypeOK
<1> QED
    BY <1>1, <1>2, <1>3, <1>4, <1>5, <1>6, <1>7
       DEF Next, Begin, Record, Backfill, Rollback, EpochsMade, vars

LEMMA NextAlone ==
    ASSUME OncePutBack
    PROVE  LogInv /\ EpochsMade /\ CopyIsAlone /\ [Next]_vars => CopyIsAlone'
<1> SUFFICES ASSUME LogInv, EpochsMade, CopyIsAlone, [Next]_vars PROVE CopyIsAlone'
    OBVIOUS
<1>0. /\ file \in File /\ LogOK(file) /\ TypeOK /\ restored \in Nat
      /\ file.epoch \in Nat /\ file.witness \in Nat /\ file.witness # NoWitness
      /\ epochs \in Nat /\ identity \in Nat \ {0}
      /\ \A d \in Followers : cursor[d] # NoCursor => cursor[d].epoch \in Nat
    BY FileFields DEF LogInv, TypeOK, Cursor, EpochsMade, NoWitness
<1>1. CASE Commit
    BY <1>1 DEF Commit, LogInv, TxAhead, CopyIsAlone
<1>2. CASE \E c \in Collections : Prune(c)
  <2>1. file'.epoch = file.epoch
    BY <1>0, <1>2, PruneIsOK
  <2> QED
    BY <1>2, <2>1 DEF Prune, CopyIsAlone
<1>3. CASE KitCopy
  <2>1. /\ copy' = RenewedInCopy(file, epochs + 1)
        /\ UNCHANGED <<file, cursor>>
    BY <1>3 DEF KitCopy
  <2>2. copy'.epoch = epochs + 1
    BY <1>0, <2>1, RenewedIsOK
  <2> QED
    BY <1>0, <2>1, <2>2 DEF EpochsMade, CopyIsAlone
<1>4. CASE OutsideCopy
    BY <1>0, <1>4 DEF OutsideCopy, CopyIsAlone
<1>5. CASE Restore
    BY <1>0, <1>5 DEF Restore, CopyIsAlone
<1>6. CASE \E d \in Followers : Follow(d)
  <2>1. PICK d \in Followers : Follow(d)
    BY <1>6
  <2>2. /\ cursor'[d].epoch = file.epoch
        /\ \A e \in Followers \ {d} : cursor'[e] = cursor[e]
    BY <2>1, FollowIsOK
  <2> QED
    BY <2>1, <2>2 DEF Follow, CopyIsAlone
<1>7. CASE \E d \in Followers : Resync(d)
    BY <1>0, <1>7 DEF Resync, CopyIsAlone, TypeOK
<1> QED
    BY <1>1, <1>2, <1>3, <1>4, <1>5, <1>6, <1>7
       DEF Next, Begin, Record, Backfill, Rollback, CopyIsAlone, vars

(***************************************************************************)
(* The positions part of the invariant.                                    *)
(***************************************************************************)

LEMMA NextOwed == LogInv /\ OwedIsVisible /\ [Next]_vars => OwedIsVisible'
<1> SUFFICES ASSUME LogInv, OwedIsVisible, [Next]_vars PROVE OwedIsVisible'
    OBVIOUS
<1>1. ASSUME NEW S, Owe(S) PROVE OwedIsVisible'
    BY <1>1 DEF Owe, OwedIsVisible, Visible
<1>2. CASE Commit
    BY <1>1, <1>2 DEF Commit
<1>3. CASE Restore
    BY <1>1, <1>3 DEF Restore
<1>4. ASSUME NEW d \in Followers, Follow(d) PROVE OwedIsVisible'
  <2>1. owed'[d] \subseteq Visible(follows[d], login[d])
    BY <1>4 DEF Follow, OwedIsVisible, LogInv, TypeOK
  <2>2. \A e \in Followers \ {d} : owed'[e] = owed[e]
    BY <1>4, FollowIsOK
  <2> QED
    BY <2>1, <2>2 DEF OwedIsVisible, Visible
<1> QED
    BY <1>2, <1>3, <1>4 DEF Next, Begin, Record, Backfill, Rollback, Prune, KitCopy,
       OutsideCopy, Resync, OwedIsVisible, Visible, vars

\* A page that is applied leaves a live item owed only above the position.
LEMMA FollowPosition ==
    ASSUME LogInv, PositionsOK, OwedIsVisible, NEW d \in Followers, Follow(d)
    PROVE  /\ cursor'[d].seq <= file.seq
           /\ \A i \in owed'[d] : Live(file, i) => file.rows[i].seq > cursor'[d].seq
<1> DEFINE col == follows[d]
           scope == login[d]
           since == cursor[d]
           page == PageItems(file, col, scope, since)
<1>0. /\ TypeOK /\ file \in File /\ LogOK(file) /\ file.seq \in Nat
      /\ since \in Cursor \cup {NoCursor} /\ col \in Collections
    BY FileFields, FollowersAssumption DEF LogInv, TypeOK
<1>1. PICK last \in {AfterOf(since)} \cup {file.rows[i].seq : i \in page} :
         cursor' = [cursor EXCEPT ![d] = NextCursor(file, col, scope, since, last)]
    BY DEF Follow
<1>2. /\ cursor'[d] = NextCursor(file, col, scope, since, last)
      /\ last \in Nat /\ AfterOf(since) \in Nat
    BY <1>0, <1>1, PositionType, PageIsAhead DEF TypeOK
<1>3. /\ cursor'[d].seq = last \/ (~More(file, col, scope, since) /\ cursor'[d].seq = HigherOf(last, file.floor[col]))
    BY <1>0, <1>2, NextCursorIsOK
<1>4. AfterOf(since) <= file.seq
  <2>1. CASE since = NoCursor
    BY <1>0, <2>1 DEF AfterOf
  <2>2. CASE since # NoCursor
    BY <2>2, FollowIsOK DEF AfterOf, PositionsOK
  <2> QED
    BY <2>1, <2>2
<1>5. \A j \in page : file.rows[j].seq <= file.seq
    BY <1>0, PageIsAhead DEF LogOK
<1>6. last <= file.seq
    BY <1>1, <1>4, <1>5
<1>7. file.floor[col] <= file.seq /\ file.floor[col] \in Nat
    BY <1>0, FileFields DEF LogOK
<1>8. cursor'[d].seq <= file.seq
    BY <1>3, <1>6, <1>7 DEF HigherOf
<1>9. ASSUME NEW i \in owed'[d], Live(file, i)
      PROVE  file.rows[i].seq > cursor'[d].seq
  <2>1. /\ i \in Visible(col, scope) /\ i \in Items /\ i \notin page
        /\ since # NoCursor => i \in owed[d]
    BY <1>0, <1>9 DEF Follow, OwedIsVisible, Visible, TypeOK
  <2>2. file.rows[i] # NoRow /\ ~file.rows[i].deleted
    BY <1>9 DEF Live
  <2>3. file.rows[i].seq > AfterOf(since)
    <3>1. CASE since = NoCursor
      BY <1>0, <2>1, <2>2, <3>1 DEF AfterOf, LogOK
    <3>2. CASE since # NoCursor
      BY <1>9, <2>1, <3>2, FollowIsOK DEF AfterOf, PositionsOK
    <3> QED
      BY <3>1, <3>2
  <2>4. i \in Ahead(file, col, scope, since)
    BY <2>1, <2>2, <2>3 DEF Ahead
  <2>5. More(file, col, scope, since)
    BY <2>1, <2>4, LastPageIsWhole
  <2>6. \A j \in page : file.rows[j].seq < file.rows[i].seq
    <3> DEFINE S == Ahead(file, col, scope, since)
    <3>1. S \in SUBSET Items /\ \A j \in S : file.rows[j] # NoRow
      BY DEF Ahead, Visible
    <3>2. page = FirstBySeq(file, S, Limit) /\ i \in S
      BY <2>4 DEF PageItems
    <3> HIDE DEF S
    <3> QED
      BY <1>0, <2>1, <3>1, <3>2, SkippedIsLater
  <2>7. cursor'[d].seq = last
    BY <1>3, <2>5
  <2> QED
    BY <1>1, <2>3, <2>6, <2>7
<1> QED
    BY <1>8, <1>9

\* A file that was put back has an epoch nobody holds a position of.
LEMMA RestoreIsNew ==
    ASSUME OncePutBack, LogInv, EpochsMade, CopyIsAlone, Restore,
           NEW d \in Followers, cursor[d] # NoCursor
    PROVE  cursor[d].epoch # file'.epoch
<1>1. /\ file'.epoch = IF copy.witness # NoWitness THEN epochs + 1 ELSE copy.epoch
      /\ copy # NoFile
    BY RestoreIsOK
<1>2. cursor[d].epoch <= epochs /\ cursor[d].epoch \in Nat /\ epochs \in Nat
    BY DEF EpochsMade, LogInv, TypeOK, Cursor
<1>3. restored = 0
    BY BoundsAssumption DEF Restore, OncePutBack, LogInv, TypeOK
<1> QED
    BY <1>1, <1>2, <1>3 DEF CopyIsAlone

LEMMA NextPositions ==
    ASSUME OncePutBack
    PROVE  IInv /\ [Next]_vars => PositionsOK'
<1> SUFFICES ASSUME IInv, [Next]_vars PROVE PositionsOK'
    OBVIOUS
<1> USE DEF IInv
<1>0. /\ TypeOK /\ file \in File /\ LogOK(file) /\ file.seq \in Nat
      /\ \A d \in Followers : cursor[d] # NoCursor => cursor[d].seq \in Nat
    BY FileFields DEF LogInv, TypeOK, Cursor
<1>1. CASE Commit
  <2>1. /\ file' = tx /\ tx # NoTx /\ Owe(ChangedBy(file, tx)) /\ cursor' = cursor
        /\ tx \in File /\ LogOK(tx) /\ tx.seq >= file.seq /\ tx.epoch = file.epoch
        /\ tx.seq \in Nat
    BY <1>0, <1>1, FileFields DEF Commit, LogInv, TxAhead, TypeOK
  <2>2. SUFFICES ASSUME NEW d \in Followers, cursor[d] # NoCursor,
                        cursor[d].epoch = tx.epoch
                 PROVE  /\ cursor[d].seq <= tx.seq
                        /\ \A i \in owed'[d] : Live(tx, i) => tx.rows[i].seq > cursor[d].seq
    BY <2>1 DEF PositionsOK, Live
  <2>3. /\ cursor[d].seq <= file.seq
        /\ \A i \in owed[d] : Live(file, i) => file.rows[i].seq > cursor[d].seq
    BY <2>1, <2>2 DEF PositionsOK
  <2>4. ASSUME NEW i \in owed'[d], Live(tx, i)
        PROVE  tx.rows[i].seq > cursor[d].seq
    <3>1. i \in Items
      BY <1>1, <2>4, OweType, <1>0, <2>1 DEF ChangedBy
    <3>2. CASE tx.rows[i] = file.rows[i]
      <4>1. i \in owed[d]
        BY <2>1, <2>4, <3>2 DEF Owe, ChangedBy, Shown, Live
      <4> QED
        BY <2>3, <2>4, <3>2, <4>1 DEF Live
    <3>3. CASE tx.rows[i] # file.rows[i]
      <4>1. tx.rows[i].seq > file.seq /\ tx.rows[i].seq \in Nat
        BY <2>1, <3>1, <3>3, FileFields DEF LogInv, TxAhead, Row
      <4> QED
        BY <1>0, <2>2, <2>3, <4>1
    <3> QED
      BY <3>2, <3>3
  <2> QED
    BY <1>0, <2>1, <2>2, <2>3, <2>4
<1>2. CASE \E c \in Collections : Prune(c)
  <2>1. PICK c \in Collections : Prune(c)
    BY <1>2
  <2>2. /\ file'.seq = file.seq /\ file'.epoch = file.epoch
        /\ \A j \in Items : file'.rows[j] = file.rows[j] \/ file'.rows[j] = NoRow
    BY <1>0, <2>1, PruneIsOK
  <2>3. cursor' = cursor /\ owed' = owed
    BY <2>1 DEF Prune
  <2> QED
    BY <1>0, <2>2, <2>3 DEF PositionsOK, Live, TypeOK
<1>3. CASE Restore
    BY <1>3, RestoreIsNew DEF PositionsOK, Restore
<1>4. CASE \E d \in Followers : Follow(d)
  <2>1. PICK d \in Followers : Follow(d)
    BY <1>4
  <2>2. file' = file /\ \A e \in Followers \ {d} : cursor'[e] = cursor[e] /\ owed'[e] = owed[e]
    BY <2>1, FollowIsOK DEF Follow
  <2>3. /\ cursor'[d].seq <= file.seq
        /\ \A i \in owed'[d] : Live(file, i) => file.rows[i].seq > cursor'[d].seq
    BY <2>1, FollowPosition
  <2> QED
    BY <2>2, <2>3 DEF PositionsOK, Live
<1>5. CASE \E d \in Followers : Resync(d)
    BY <1>0, <1>5 DEF Resync, PositionsOK, Live, TypeOK
<1> QED
    BY <1>1, <1>2, <1>3, <1>4, <1>5
       DEF Next, Begin, Record, Backfill, Rollback, KitCopy, OutsideCopy,
           PositionsOK, Live, vars

LEMMA InitPositions == Init => EpochsMade /\ CopyIsAlone /\ PositionsOK /\ OwedIsVisible
    BY DEF Init, EmptyFile, EpochsMade, CopyIsAlone, PositionsOK, OwedIsVisible

LEMMA PositionsAreOK ==
    ASSUME OncePutBack
    PROVE  Spec => []IInv
<1>1. Init => IInv
    BY InitLog, InitPositions DEF IInv
<1>2. IInv /\ [Next]_vars => IInv'
    BY NextLog, NextEpochs, NextAlone, NextOwed, NextPositions DEF IInv
<1> QED
    BY <1>1, <1>2, PTL DEF Spec

\* As long as no copy is put back twice, a position of the file's own epoch is
\* one the file's counter has reached: a restore is always noticed.
THEOREM EpochsNameOneHistory ==
    ASSUME OncePutBack
    PROVE  Spec => []EpochNamesOneHistory
<1>1. IInv => EpochNamesOneHistory
    BY DEF IInv, PositionsOK, EpochNamesOneHistory, Serves, Refused, IsForeignTo,
           LogInv, LogOK
<1> QED
    BY <1>1, PositionsAreOK, PTL

\* As long as no copy is put back twice, no page size, no interleaving of
\* commits, prunes and pages lets a position pass a live item that is owed.
THEOREM NoLiveItemIsSkipped ==
    ASSUME OncePutBack
    PROVE  Spec => []NoLiveItemSkipped
<1>1. IInv => NoLiveItemSkipped
    BY DEF IInv, PositionsOK, NoLiveItemSkipped, Serves, Refused, IsForeignTo,
           LogInv, LogOK
<1> QED
    BY <1>1, PositionsAreOK, PTL

(***************************************************************************)
(* Sweeps of one page.                                                     *)
(***************************************************************************)

\* A sweep of several pages can miss a deletion (NothingMissed is violated in
\* MCChangeLogGhost); one that fits a page cannot.
OnePageSweeps == Cardinality(Items) <= Limit

\* Nobody is inside a sweep, and above a position that is served everything
\* owed has a row, a tombstone if it is gone.
RowsAhead ==
    \A d \in Followers : cursor[d] # NoCursor =>
        /\ ~cursor[d].sweep
        /\ cursor[d].epoch = file.epoch /\ cursor[d].seq >= file.floor[follows[d]] =>
             \A i \in owed[d] :
                 file.rows[i] # NoRow /\ file.rows[i].seq > cursor[d].seq

LEMMA FollowRowsAhead ==
    ASSUME OnePageSweeps, LogInv, OwedIsVisible, RowsAhead,
           NEW d \in Followers, Follow(d)
    PROVE  /\ ~cursor'[d].sweep
           /\ owed'[d] = {}
<1> DEFINE col == follows[d]
           scope == login[d]
           since == cursor[d]
           page == PageItems(file, col, scope, since)
<1>0. /\ TypeOK /\ file \in File /\ LogOK(file)
      /\ since \in Cursor \cup {NoCursor} /\ col \in Collections
    BY FollowersAssumption DEF LogInv, TypeOK
<1>1. PICK last \in {AfterOf(since)} \cup {file.rows[i].seq : i \in page} :
         cursor' = [cursor EXCEPT ![d] = NextCursor(file, col, scope, since, last)]
    BY DEF Follow
<1>2. /\ cursor'[d] = NextCursor(file, col, scope, since, last)
      /\ last \in Nat
    BY <1>0, <1>1, PositionType, PageIsAhead DEF TypeOK
<1>3. ~More(file, col, scope, since)
    BY OnePage DEF OnePageSweeps
<1>4. ~cursor'[d].sweep
    BY <1>0, <1>2, <1>3, NextCursorIsOK
<1>5. ASSUME NEW i \in owed'[d] PROVE FALSE
  <2>1. /\ i \in Visible(col, scope) /\ i \in Items /\ i \notin page
        /\ since # NoCursor => i \in owed[d]
        /\ since = NoCursor => Live(file, i)
    BY <1>0, <1>5 DEF Follow, OwedIsVisible, Visible, TypeOK
  <2>2. /\ file.rows[i] # NoRow /\ file.rows[i].seq > AfterOf(since)
        /\ IsSweep(since) => ~file.rows[i].deleted
    <3>1. CASE since = NoCursor
      BY <1>0, <2>1, <3>1 DEF AfterOf, LogOK, Live
    <3>2. CASE since # NoCursor
      <4>1. ~since.sweep /\ since.epoch = file.epoch
        BY <3>2, FollowIsOK DEF RowsAhead
      <4>2. since.seq >= file.floor[col]
        <5>1. ~(since.seq < file.floor[col])
          BY <3>2, <4>1 DEF Follow, Refused
        <5>2. since.seq \in Nat /\ file.floor[col] \in Nat
          BY <1>0, <3>2, FileFields DEF Cursor
        <5> QED
          BY <5>1, <5>2
      <4> QED
        BY <2>1, <3>2, <4>1, <4>2 DEF RowsAhead, AfterOf, IsSweep
    <3> QED
      BY <3>1, <3>2
  <2>3. i \in Ahead(file, col, scope, since)
    BY <2>1, <2>2 DEF Ahead
  <2> QED
    BY <1>3, <2>1, <2>3, LastPageIsWhole
<1> QED
    BY <1>4, <1>5, <1>0 DEF Follow, TypeOK

LEMMA NextRowsAhead ==
    ASSUME OncePutBack, OnePageSweeps
    PROVE  IInv /\ RowsAhead /\ [Next]_vars => RowsAhead'
<1> SUFFICES ASSUME IInv, RowsAhead, [Next]_vars PROVE RowsAhead'
    OBVIOUS
<1> USE DEF IInv
<1>0. /\ TypeOK /\ file \in File /\ LogOK(file) /\ file.seq \in Nat
      /\ \A d \in Followers : /\ cursor[d] # NoCursor => cursor[d].seq \in Nat
                              /\ follows[d] \in Collections
    BY FileFields, FollowersAssumption DEF LogInv, TypeOK, Cursor
<1>1. CASE Commit
  <2>1. /\ file' = tx /\ tx # NoTx /\ Owe(ChangedBy(file, tx)) /\ cursor' = cursor
        /\ tx \in File /\ tx.epoch = file.epoch /\ tx.floor = file.floor
    BY <1>0, <1>1, FileFields DEF Commit, LogInv, TxAhead, TypeOK
  <2>2. SUFFICES ASSUME NEW d \in Followers, cursor[d] # NoCursor,
                        cursor[d].epoch = tx.epoch,
                        cursor[d].seq >= tx.floor[follows[d]],
                        NEW i \in owed'[d]
                 PROVE  tx.rows[i] # NoRow /\ tx.rows[i].seq > cursor[d].seq
    BY <2>1 DEF RowsAhead
  <2>3. /\ cursor[d].seq <= file.seq
        /\ \A j \in owed[d] : file.rows[j] # NoRow /\ file.rows[j].seq > cursor[d].seq
    BY <2>1, <2>2 DEF PositionsOK, RowsAhead
  <2>4. i \in Items
    BY <1>0, <1>1, <2>2, OweType DEF Commit, ChangedBy
  <2>5. CASE tx.rows[i] = file.rows[i]
    <3>1. i \in owed[d]
      BY <2>1, <2>2, <2>5 DEF Owe, ChangedBy, Shown, Live
    <3> QED
      BY <2>3, <2>5, <3>1
  <2>6. CASE tx.rows[i] # file.rows[i]
    <3>1. tx.rows[i] # NoRow /\ tx.rows[i].seq > file.seq /\ tx.rows[i].seq \in Nat
      BY <2>1, <2>4, <2>6, FileFields DEF LogInv, TxAhead, Row
    <3> QED
      BY <1>0, <2>2, <2>3, <3>1
  <2> QED
    BY <2>5, <2>6
<1>2. CASE \E c \in Collections : Prune(c)
  <2>1. PICK c \in Collections : Prune(c)
    BY <1>2
  <2>2. /\ file' \in File /\ file'.epoch = file.epoch
        /\ \A b \in Collections : file'.floor[b] >= file.floor[b]
        /\ \A j \in Items :
             \/ file'.rows[j] = file.rows[j]
             \/ /\ collectionOf[j] = c
                /\ file.rows[j] # NoRow
                /\ file.rows[j].seq <= file'.floor[c]
    BY <1>0, <2>1, PruneIsOK
  <2>3. cursor' = cursor /\ owed' = owed
    BY <2>1 DEF Prune
  <2>4. SUFFICES ASSUME NEW d \in Followers, cursor[d] # NoCursor,
                        cursor[d].epoch = file.epoch,
                        cursor[d].seq >= file'.floor[follows[d]],
                        NEW i \in owed[d]
                 PROVE  file'.rows[i] # NoRow /\ file'.rows[i].seq > cursor[d].seq
    BY <2>2, <2>3 DEF RowsAhead
  <2>5. cursor[d].seq >= file.floor[follows[d]]
    <3>1. /\ file'.floor[follows[d]] >= file.floor[follows[d]]
          /\ file'.floor[follows[d]] \in Nat /\ file.floor[follows[d]] \in Nat
      BY <1>0, <2>2, FileFields
    <3> QED
      BY <1>0, <2>4, <3>1
  <2>6. file.rows[i] # NoRow /\ file.rows[i].seq > cursor[d].seq
    BY <2>4, <2>5 DEF RowsAhead
  <2>7. i \in Items /\ collectionOf[i] = follows[d]
    BY <2>4 DEF OwedIsVisible, Visible
  <2>8. file.rows[i].seq \in Nat /\ file'.floor[follows[d]] \in Nat
    BY <1>0, <2>2, <2>6, <2>7, FileFields DEF Row
  <2>9. file'.rows[i] = file.rows[i]
    BY <1>0, <2>2, <2>4, <2>6, <2>7, <2>8
  <2> QED
    BY <2>6, <2>9
<1>3. CASE Restore
    BY <1>3, RestoreIsNew DEF RowsAhead, Restore
<1>4. CASE \E d \in Followers : Follow(d)
  <2>1. PICK d \in Followers : Follow(d)
    BY <1>4
  <2>2. file' = file /\ \A e \in Followers \ {d} : cursor'[e] = cursor[e] /\ owed'[e] = owed[e]
    BY <2>1, FollowIsOK DEF Follow
  <2>3. ~cursor'[d].sweep /\ owed'[d] = {}
    BY <2>1, FollowRowsAhead
  <2> QED
    BY <2>2, <2>3 DEF RowsAhead
<1>5. CASE \E d \in Followers : Resync(d)
    BY <1>0, <1>5 DEF Resync, RowsAhead, TypeOK
<1> QED
    BY <1>1, <1>2, <1>3, <1>4, <1>5
       DEF Next, Begin, Record, Backfill, Rollback, KitCopy, OutsideCopy,
           RowsAhead, vars

\* As long as a sweep fits one page and no copy is put back twice, nothing a
\* device may hold a stale copy of is ever passed, deletions included.
THEOREM NothingIsMissed ==
    ASSUME OncePutBack, OnePageSweeps
    PROVE  Spec => []NothingMissed
<1>1. Init => RowsAhead
    BY DEF Init, EmptyFile, RowsAhead
<1>2. IInv /\ RowsAhead /\ [Next]_vars => RowsAhead'
    BY NextRowsAhead
<1>3. IInv /\ RowsAhead => NothingMissed
  <2> SUFFICES ASSUME IInv, RowsAhead, NEW d \in Followers, Serves(d)
               PROVE  \A i \in owed[d] :
                        file.rows[i] # NoRow /\ file.rows[i].seq > cursor[d].seq
    BY DEF NothingMissed
  <2>1. file \in File /\ LogOK(file) /\ cursor[d] \in Cursor /\ follows[d] \in Collections
    BY FollowersAssumption DEF IInv, LogInv, TypeOK, Serves
  <2>2. cursor[d].epoch = file.epoch /\ ~(cursor[d].seq < file.floor[follows[d]])
    BY <2>1 DEF Serves, Refused, IsForeignTo, RowsAhead, LogOK
  <2>3. cursor[d].seq >= file.floor[follows[d]]
    BY <2>1, <2>2, FileFields DEF Cursor
  <2> QED
    BY <2>2, <2>3 DEF RowsAhead, Serves
<1> QED
    BY <1>1, <1>2, <1>3, PositionsAreOK, PTL DEF Spec
=============================================================================
