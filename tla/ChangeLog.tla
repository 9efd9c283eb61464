----------------------------- MODULE ChangeLog -----------------------------
(***************************************************************************)
(* The server side of the local database: the change log and everyone who  *)
(* follows it.  A write transaction works on a copy of the file that       *)
(* replaces it at the commit (the single writer of storage/db); feed pages *)
(* are read from the committed file.  A follower is a device reduced to    *)
(* the cursor it holds and to the items it may hold a stale copy of        *)
(* ("owed").                                                               *)
(***************************************************************************)
EXTENDS SyncFeed

CONSTANTS
    Followers,     \* devices
    follows,       \* the collection a device pulls here
    login,         \* the login scope of a device
    Revs,          \* revisions the app may pass
    MaxSeq,        \* bound: changes recorded in the life of the file
    MaxEpoch,      \* bound: epochs ever made
    MaxRestores,   \* bound: times one copy is put back
    NoTx, NoFile

ASSUME FollowersAssumption ==
    /\ follows \in [Followers -> Collections]
    /\ login \in [Followers -> Scopes]

ASSUME BoundsAssumption ==
    /\ Revs \subseteq Nat
    /\ MaxSeq \in Nat
    /\ MaxEpoch \in Nat \ {0}
    /\ MaxRestores \in Nat

ASSUME NullsAssumption ==
    /\ NoTx \notin File
    /\ NoFile \notin File

VARIABLES
    file,      \* the committed database file
    tx,        \* the writer's uncommitted copy of it, or NoTx
    copy,      \* a copy of the file kept for a restore, or NoFile
    restored,  \* how often that copy was put back
    identity,  \* identity (inode and birth time) of the live file
    epochs,    \* epochs made so far: a fresh one is epochs + 1
    cursor,    \* the cursor each follower holds, or NoCursor
    owed       \* the items each follower may hold a stale copy of

vars == <<file, tx, copy, restored, identity, epochs, cursor, owed>>

(***************************************************************************)
(* What a follower may be owed.                                            *)
(***************************************************************************)

ChangedBy(f, g) == {i \in Items : Shown(f, i) # Shown(g, i)}

Owe(S) == owed' = [d \in Followers |->
                     owed[d] \cup (S \cap Visible(follows[d], login[d]))]

(***************************************************************************)
(* Actions.                                                                *)
(***************************************************************************)

EmptyFile == [rows |-> [i \in Items |-> NoRow], seq |-> 0,
              floor |-> [c \in Collections |-> 0], epoch |-> 1, witness |-> 1]

Init ==
    /\ file = EmptyFile
    /\ tx = NoTx
    /\ copy = NoFile
    /\ restored = 0
    /\ identity = 1
    /\ epochs = 1
    /\ cursor = [d \in Followers |-> NoCursor]
    /\ owed = [d \in Followers |-> {}]

\* BEGIN IMMEDIATE: one write transaction at a time.
Begin ==
    /\ tx = NoTx
    /\ tx' = file
    /\ UNCHANGED <<file, copy, restored, identity, epochs, cursor, owed>>

\* sync_upsert, sync_delete and their _for forms, inside the app's closure.
Record(i, rev, deleted) ==
    /\ tx # NoTx
    /\ tx.seq < MaxSeq
    /\ tx' = Recorded(tx, i, rev, deleted)
    /\ UNCHANGED <<file, copy, restored, identity, epochs, cursor, owed>>

\* sync::backfill of one row.
Backfill(i, rev) ==
    /\ tx # NoTx
    /\ tx.seq < MaxSeq
    /\ tx' = Backfilled(tx, i, rev)
    /\ UNCHANGED <<file, copy, restored, identity, epochs, cursor, owed>>

Commit ==
    /\ tx # NoTx
    /\ file' = tx
    /\ tx' = NoTx
    /\ Owe(ChangedBy(file, tx))
    /\ UNCHANGED <<copy, restored, identity, epochs, cursor>>

\* The closure failed, or the process died before the commit.
Rollback ==
    /\ tx # NoTx
    /\ tx' = NoTx
    /\ UNCHANGED <<file, copy, restored, identity, epochs, cursor, owed>>

\* The retention run over one collection, a transaction of its own.
\* changed_at is wall-clock time, which may be set back: any of the
\* tombstones may be the ones older than the cutoff.
Prune(c) ==
    /\ tx = NoTx
    /\ \E S \in SUBSET Tombstones(file, c) \ {{}} : \E i \in S :
         /\ \A j \in S : file.rows[j].seq <= file.rows[i].seq
         /\ file' = Pruned(file, c, S, file.rows[i].seq)
    /\ UNCHANGED <<tx, copy, restored, identity, epochs, cursor, owed>>

\* VACUUM INTO by the kit (before a migration, before an update).
KitCopy ==
    /\ MaxRestores > 0
    /\ epochs < MaxEpoch
    /\ epochs' = epochs + 1
    /\ copy' = RenewedInCopy(file, epochs + 1)
    /\ restored' = 0
    /\ UNCHANGED <<file, tx, identity, cursor, owed>>

\* A copy by a backup tool outside the kit: the bytes of the file.
OutsideCopy ==
    /\ MaxRestores > 0
    /\ copy' = file
    /\ restored' = 0
    /\ UNCHANGED <<file, tx, identity, epochs, cursor, owed>>

\* The service is stopped, the copy put in the file's place as a new file
\* (the copy stays where it is) and the service started: the open checks the
\* epoch.
Restore ==
    /\ copy # NoFile
    /\ restored < MaxRestores
    /\ epochs < MaxEpoch
    /\ restored' = restored + 1
    /\ identity' = identity + 1
    /\ file' = Ensured(copy, identity + 1, epochs + 1)
    /\ epochs' = epochs + 1
    /\ tx' = NoTx
    /\ Owe(ChangedBy(file, copy))
    /\ UNCHANGED <<copy, cursor>>

\* One page of the feed, asked from the follower's cursor and applied.
Follow(d) ==
    LET col == follows[d]
        since == cursor[d]
        page == PageItems(file, col, login[d], since)
        \* from the beginning: everything live is owed until it is listed,
        \* and nothing else is (the device drops what a sweep left out)
        base == IF since = NoCursor
                THEN {i \in Visible(col, login[d]) : Live(file, i)}
                ELSE owed[d]
    IN  /\ ~Refused(file, col, since)
        /\ \E last \in {AfterOf(since)} \cup {file.rows[i].seq : i \in page} :
             /\ IsLast(file, col, login[d], since, last)
             /\ cursor' = [cursor EXCEPT ![d] =
                             NextCursor(file, col, login[d], since, last)]
        /\ owed' = [owed EXCEPT ![d] = base \ page]
        /\ UNCHANGED <<file, tx, copy, restored, identity, epochs>>

\* 410: the follower forgets its cursor and starts a sweep.
Resync(d) ==
    /\ Refused(file, follows[d], cursor[d])
    /\ cursor' = [cursor EXCEPT ![d] = NoCursor]
    /\ UNCHANGED <<file, tx, copy, restored, identity, epochs, owed>>

Next ==
    \/ Begin
    \/ \E i \in Items, rev \in Revs, deleted \in BOOLEAN : Record(i, rev, deleted)
    \/ \E i \in Items, rev \in Revs : Backfill(i, rev)
    \/ Commit
    \/ Rollback
    \/ \E c \in Collections : Prune(c)
    \/ KitCopy
    \/ OutsideCopy
    \/ Restore
    \/ \E d \in Followers : Follow(d)
    \/ \E d \in Followers : Resync(d)

Spec == Init /\ [][Next]_vars

\* A device pulls again and again: at its start, on every hint of the live
\* channel, when it comes back online.
FairSpec == Spec /\ \A d \in Followers : WF_vars(Follow(d) \/ Resync(d))

(***************************************************************************)
(* Properties.                                                             *)
(***************************************************************************)

\* Every variable keeps its type: the committed file, the open transaction
\* and the copy are database files, and a follower holds a cursor or none.
TypeOK ==
    /\ file \in File
    /\ tx \in File \cup {NoTx}
    /\ copy \in File \cup {NoFile}
    /\ restored \in Nat
    /\ identity \in Nat \ {0}
    /\ epochs \in Nat \ {0}
    /\ cursor \in [Followers -> Cursor \cup {NoCursor}]
    /\ owed \in [Followers -> SUBSET Items]

\* The cursor of d is a plain position that the server would serve.
Serves(d) ==
    /\ cursor[d] # NoCursor
    /\ ~Refused(file, follows[d], cursor[d])

\* tx.rs: "a change can never be missed".  Whatever a device that is served
\* from its position may hold a stale copy of still has a row above that
\* position, a tombstone if it is gone.
NothingMissed ==
    \A d \in Followers : Serves(d) /\ ~cursor[d].sweep =>
        \A i \in owed[d] : file.rows[i] # NoRow /\ file.rows[i].seq > cursor[d].seq

\* log.rs, the end of a sweep rises to the floor "without skipping a live
\* item": a live item a served device is owed is still ahead of its position,
\* inside a sweep and after it.
NoLiveItemSkipped ==
    \A d \in Followers : Serves(d) =>
        \A i \in owed[d] : Live(file, i) => file.rows[i].seq > cursor[d].seq

\* epoch.rs: a restored copy cannot roll the log back unnoticed.  A position
\* of the file's own epoch is one the file's counter has reached.
EpochNamesOneHistory ==
    \A d \in Followers : Serves(d) => cursor[d].seq <= file.seq

\* The single writer makes seq commit in order: unless the file is replaced,
\* what a commit changes lands above everything a reader could have read, no
\* two rows share a number, and a row only goes away as a tombstone that the
\* floor covers.
CommitsLandAhead ==
    [][identity' = identity => \A i \in Items : file'.rows[i] # file.rows[i] =>
         IF file'.rows[i] # NoRow
         THEN /\ file'.rows[i].seq > file.seq
              /\ \A j \in Items \ {i} : file'.rows[j] # NoRow =>
                   file'.rows[j].seq # file'.rows[i].seq
         ELSE /\ file.rows[i].deleted
              /\ file.rows[i].seq <= file'.floor[collectionOf[i]]]_vars

\* Resyncs do not loop and positions do not stall: once the log rests, every
\* device ends up owed nothing, at a position the server serves.
CatchesUp ==
    \A d \in Followers : <>[](owed[d] = {} /\ Serves(d))
=============================================================================
