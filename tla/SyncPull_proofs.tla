-------------------------- MODULE SyncPull_proofs --------------------------
(***************************************************************************)
(* Proofs about SyncPull, for any items, generations, page limit and       *)
(* bounds, and whatever gets lost, closed or filled up; at the end, about  *)
(* LocalDb, the same pull beside everything else its page does.            *)
(***************************************************************************)
EXTENDS LocalDb, SyncFeed_proofs

(***************************************************************************)
(* The inductive invariant.                                                *)
(***************************************************************************)

\* A position is one the file's counter reached, if it is of its epoch.
Reached(seq, epoch) ==
    /\ epoch <= file.epoch
    /\ epoch = file.epoch => seq <= file.seq

\* So is every stored body, and so are the cursors.
Known ==
    /\ \A i \in Items : records[i] # NoRec => Reached(records[i].seq, records[i].epoch)
    /\ meta.cursor # NoCursor => Reached(meta.cursor.seq, meta.cursor.epoch)

Asking == {"ask", "sent", "checked", "answered", "stale"}

\* What a running pull holds in its frame is what the meta row says, and a
\* sweep has a generation.
FrameOK ==
    /\ all = TRUE
    /\ meta.cursor # NoCursor /\ meta.cursor.sweep => meta.resyncGen # NoGen
    /\ pc = "mark" => gen # NoGen /\ since = NoCursor /\ meta.cursor = NoCursor
    /\ pc = "sent" => since # NoCursor
    /\ pc \in Asking =>
        /\ since = meta.cursor /\ gen = meta.resyncGen
        /\ since = NoCursor => gen # NoGen
    /\ pc \in {"prune", "unmark"} =>
        /\ gen = meta.resyncGen /\ gen # NoGen
        /\ meta.cursor # NoCursor /\ ~meta.cursor.sweep
    /\ pc = "answered" => answer \in Answers

\* Everything live up to the stored cursor is stored, with the generation of
\* an unfinished resync.  (No floor: a cursor below it may still be followed
\* by an answer that was read before.)
Listed ==
    meta.cursor # NoCursor /\ meta.cursor.epoch = file.epoch =>
        \A i \in Mine : Live(file, i) /\ file.rows[i].seq <= meta.cursor.seq =>
            Current(i) /\ (meta.resyncGen # NoGen => records[i].gen = meta.resyncGen)

HasPage == pc = "answered" /\ answer.status = "ok"

\* The page on its way brings the row as it is, or leaves alone what was
\* stored before.
Covered(i) ==
    \/ answer.upserts[i] = file.rows[i].seq
    \/ /\ answer.upserts[i] = 0 /\ i \notin answer.deletes
       /\ since # NoCursor /\ since.epoch = file.epoch
       /\ file.rows[i].seq <= since.seq

\* The page lists what is live up to its cursor, and the last one covers
\* whatever is stored as it is; it deletes nothing that is.
PageOK ==
    HasPage =>
        /\ Reached(answer.cursor.seq, answer.cursor.epoch)
        /\ \A i \in Items : Reached(answer.upserts[i], answer.cursor.epoch)
        /\ answer.cursor.sweep => answer.more /\ gen # NoGen
        /\ \A i \in Mine :
            /\ Live(file, i)
            /\ \/ answer.cursor.epoch = file.epoch /\ file.rows[i].seq <= answer.cursor.seq
               \/ ~answer.more /\ Current(i)
            => Covered(i)
        /\ \A i \in answer.deletes : Live(file, i) => ~Current(i)

\* The end of a resync drops nothing that is as the service has it.
PruneSpares ==
    pc = "prune" => \A i \in Mine : Live(file, i) /\ Current(i) => records[i].gen = gen

IInv ==
    /\ TypeOK /\ LogOK(file) /\ Known /\ FrameOK
    /\ Listed /\ PageOK /\ PruneSpares

(***************************************************************************)
(* Sweeps of one page.                                                     *)
(***************************************************************************)

OnePageSweeps == Cardinality(Items) <= Limit

\* A record that the end of the resync "g" drops, or none.
Doomed(i, g) == records[i] = NoRec \/ (g # NoGen /\ records[i].gen # g)

\* What is not live and was so at the position "seq".
GoneBy(i, seq) == ~Live(file, i) /\ ~(file.rows[i] # NoRow /\ file.rows[i].seq > seq)

\* A resync that has no page yet has no records; one at its end no others.
Stamped ==
    /\ meta.cursor = NoCursor /\ meta.resyncGen # NoGen => \A i \in Items : Doomed(i, meta.resyncGen)
    /\ pc = "mark" => \A i \in Items : Doomed(i, gen)
    /\ pc = "unmark" => \A i \in Items : records[i] # NoRec => records[i].gen = gen

\* What was gone by the stored cursor is not stored, or not for long.
GoneIsDropped ==
    Served => \A i \in Mine : GoneBy(i, meta.cursor.seq) => Doomed(i, meta.resyncGen)

\* So it will be after the page on its way.
PageDrops ==
    HasPage =>
        /\ ~answer.more /\ ~answer.cursor.sweep
        /\ ~Refused(file, feed, answer.cursor) =>
            \A i \in Mine : GoneBy(i, answer.cursor.seq) =>
                answer.upserts[i] = 0 /\ (i \in answer.deletes \/ Doomed(i, gen))

WholeInv ==
    /\ IInv /\ Stamped /\ GoneIsDropped /\ PageDrops
    /\ meta.cursor # NoCursor => ~meta.cursor.sweep

(***************************************************************************)
(* Generations.                                                            *)
(***************************************************************************)

LEMMA OneMore ==
    ASSUME NEW S, IsFiniteSet(S), NEW x
    PROVE  /\ IsFiniteSet(S \cup {x})
           /\ Cardinality(S \cup {x}) \in Nat
           /\ Cardinality(S \cup {x}) <= Cardinality(S) + 1
<1>1. Cardinality(S) \in Nat
    BY FS_CardinalityType
<1>2. /\ IsFiniteSet(S \cup {x})
      /\ Cardinality(S \cup {x}) = IF x \in S THEN Cardinality(S) ELSE Cardinality(S) + 1
    BY FS_AddElement
<1> QED
    BY <1>1, <1>2

\* A generation that nothing refers to can be made.
LEMMA FreshIsNew ==
    /\ FreshGen \in Gens /\ FreshGen # NoGen
    /\ \A i \in Items : records[i] # NoRec => records[i].gen # FreshGen
<1> DEFINE Stored == {i \in Items : records[i] # NoRec}
           InRecords == {records[i].gen : i \in Stored}
           f == [i \in Stored |-> records[i].gen]
<1>1. IsFiniteSet(Stored) /\ Cardinality(Stored) <= Cardinality(Items)
    BY FS_Subset, ItemsAssumption
<1>2. f \in Surjection(Stored, InRecords)
    BY DEF Surjection
<1>3. IsFiniteSet(InRecords) /\ Cardinality(InRecords) <= Cardinality(Stored)
  <2> HIDE DEF f, InRecords, Stored
  <2> QED
    BY <1>1, <1>2, FS_Surjection
<1> HIDE DEF InRecords, Stored, f
<1>4. /\ Cardinality(InRecords) \in Nat /\ Cardinality(Items) \in Nat
      /\ Cardinality(Stored) \in Nat
    BY <1>1, <1>3, FS_CardinalityType, ItemsAssumption
<1> DEFINE Two == InRecords \cup {meta.resyncGen}
<1>5. IsFiniteSet(Two) /\ Cardinality(Two) \in Nat /\ Cardinality(Two) <= Cardinality(InRecords) + 1
    BY <1>3, OneMore
<1> HIDE DEF Two
<1>6. /\ IsFiniteSet(Two \cup {gen}) /\ Cardinality(Two \cup {gen}) \in Nat
      /\ Cardinality(Two \cup {gen}) <= Cardinality(Two) + 1
    BY <1>5, OneMore
<1>7. Cardinality(Two \cup {gen}) <= Cardinality(Items) + 2
    BY <1>1, <1>3, <1>4, <1>5, <1>6
<1>8. UsedGens = Two \cup {gen}
    BY DEF UsedGens, InRecords, Stored, Two
<1>9. \E g \in Gens : g \notin UsedGens
  <2> SUFFICES ASSUME Gens \subseteq UsedGens PROVE FALSE
    OBVIOUS
  <2>1. IsFiniteSet(UsedGens) /\ Cardinality(UsedGens) <= Cardinality(Items) + 2
    BY <1>6, <1>7, <1>8
  <2>2. IsFiniteSet(Gens) /\ Cardinality(Gens) <= Cardinality(UsedGens)
    BY <2>1, FS_Subset
  <2>3. Cardinality(Gens) \in Nat /\ Cardinality(UsedGens) \in Nat
    BY <2>1, <2>2, FS_CardinalityType
  <2> QED
    BY <1>4, <2>1, <2>2, <2>3, GensAssumption
<1>10. FreshGen \in Gens /\ FreshGen \notin UsedGens
    BY <1>9 DEF FreshGen
<1> QED
    BY <1>10, PullAssumption DEF UsedGens

(***************************************************************************)
(* Types, and what the frame of a pull holds.                              *)
(***************************************************************************)

FrameInv == TypeOK /\ FrameOK

\* An answer that is a page is one of the first kind.
LEMMA PageFields ==
    ASSUME answer \in Answers, answer.status = "ok"
    PROVE  /\ answer.upserts \in [Items -> Nat] /\ answer.deletes \subseteq Items
           /\ answer.cursor \in Cursor /\ answer.more \in BOOLEAN
           /\ answer.cursor # NoCursor
           /\ answer.cursor.seq \in Nat /\ answer.cursor.epoch \in Nat
           /\ answer.cursor.sweep \in BOOLEAN
<1>1. /\ answer.upserts \in [Items -> Nat] /\ answer.deletes \subseteq Items
      /\ answer.cursor \in Cursor /\ answer.more \in BOOLEAN
    BY DEF Answers
<1> QED
    BY <1>1, ItemsAssumption DEF Cursor

LEMMA MetaFields ==
    ASSUME TypeOK
    PROVE  /\ meta.cursor \in Cursor \cup {NoCursor} /\ meta.resyncGen \in Gens \cup {NoGen}
           /\ meta.stale \in BOOLEAN
           /\ meta.cursor # NoCursor => /\ meta.cursor.seq \in Nat /\ meta.cursor.epoch \in Nat
                                       /\ meta.cursor.sweep \in BOOLEAN
    BY DEF TypeOK, Meta, Cursor

LEMMA RecordFields ==
    ASSUME TypeOK, NEW i \in Items, records[i] # NoRec
    PROVE  records[i].seq \in Nat /\ records[i].epoch \in Nat /\ records[i].gen \in Gens \cup {NoGen}
    BY DEF TypeOK, Record

\* The end of a run leaves no frame.
LEMMA OverFrame ==
    ASSUME FrameInv, Over, file' \in File, records' \in [Items -> Record \cup {NoRec}],
           meta' \in Meta, UNCHANGED settings,
           meta'.cursor # NoCursor /\ meta'.cursor.sweep => meta'.resyncGen # NoGen
    PROVE  FrameInv'
    BY DEF FrameInv, TypeOK, FrameOK, Over, Places, Asking, settings

LEMMA BeginFrame == FrameInv /\ Begin => FrameInv'
<1> SUFFICES ASSUME FrameInv, Begin PROVE FrameInv'
    OBVIOUS
<1> USE DEF FrameInv, Begin, store, settings
<1>1. gen' \in Gens \cup {NoGen} /\ (pc' = "mark" => gen' # NoGen)
    BY FreshIsNew, MetaFields
<1>2. TypeOK'
    BY <1>1, MetaFields DEF TypeOK, Places
<1>3. FrameOK'
    BY <1>1 DEF FrameOK, Asking
<1> QED
    BY <1>2, <1>3

LEMMA MarkFrame == FrameInv /\ Mark => FrameInv'
<1> SUFFICES ASSUME FrameInv, Mark PROVE FrameInv'
    OBVIOUS
<1> USE DEF FrameInv, Mark, settings
<1>0. gen \in Gens \cup {NoGen} /\ NoCursor \in Cursor \cup {NoCursor}
    BY DEF TypeOK
<1>1. /\ meta' \in Meta /\ meta'.cursor = NoCursor /\ meta'.resyncGen = gen
    BY <1>0 DEF TypeOK, Meta
<1>2. TypeOK'
    BY <1>1 DEF TypeOK, Places
<1>3. FrameOK'
    BY <1>1 DEF FrameOK, Asking
<1> QED
    BY <1>2, <1>3

LEMMA RestartFrame == FrameInv /\ Restart => FrameInv'
<1> SUFFICES ASSUME FrameInv, Restart PROVE FrameInv'
    OBVIOUS
<1> USE DEF FrameInv, Restart, settings
<1>0. FreshGen \in Gens \cup {NoGen} /\ NoCursor \in Cursor \cup {NoCursor}
    BY FreshIsNew
<1>1. /\ meta' \in Meta /\ meta'.cursor = NoCursor /\ meta'.resyncGen = FreshGen
    BY <1>0 DEF TypeOK, Meta
<1>2. TypeOK'
    BY <1>1, FreshIsNew DEF TypeOK, Places
<1>3. FrameOK'
    BY <1>1, FreshIsNew DEF FrameOK, Asking
<1> QED
    BY <1>2, <1>3

\* Steps that move the run and its answer alone.
LEMMA MoveFrame ==
    ASSUME FrameInv, Pull \/ Ask \/ ServiceChecks \/ AnswerLost
    PROVE  FrameInv'
<1> USE DEF FrameInv, store, settings, Pull, Ask, ServiceChecks, AnswerLost
<1>1. /\ [status |-> "410"] \in Answers /\ [status |-> "unreachable"] \in Answers
    BY DEF Answers
<1>2. TypeOK'
    BY <1>1 DEF TypeOK, Places
<1>3. FrameOK'
    BY <1>1 DEF FrameOK, Asking
<1> QED
    BY <1>2, <1>3

\* Steps that end the run without a page.
LEMMA EndFrame ==
    ASSUME FrameInv, GiveUp \/ MarkStale \/ Unmark \/ Reload
    PROVE  /\ FrameInv'
           /\ meta'.cursor = meta.cursor
           /\ meta'.resyncGen \in {meta.resyncGen, NoGen}
<1> USE DEF FrameInv
<1>1. CASE GiveUp \/ Reload
    BY <1>1, OverFrame DEF GiveUp, Reload, TypeOK, FrameOK, store, settings
<1>2. CASE MarkStale
  <2>1. meta' \in Meta /\ meta'.cursor = meta.cursor /\ meta'.resyncGen = meta.resyncGen
    BY <1>2 DEF MarkStale, TypeOK, Meta
  <2> QED
    BY <1>2, <2>1, OverFrame DEF MarkStale, TypeOK, FrameOK, settings
<1>3. CASE Unmark
  <2>1. meta' \in Meta /\ meta'.cursor = meta.cursor /\ meta'.resyncGen = NoGen
    BY <1>3 DEF Unmark, TypeOK, Meta
  <2>2. ~meta.cursor.sweep
    BY <1>3 DEF Unmark, FrameOK
  <2> QED
    BY <1>3, <2>1, <2>2, OverFrame DEF Unmark, TypeOK, FrameOK, settings
<1> QED
    BY <1>1, <1>2, <1>3

(***************************************************************************)
(* The service changes its file.                                           *)
(***************************************************************************)

\* The same history goes on, or another one starts with nothing in it.
FileMoves ==
    \/ /\ file'.epoch = file.epoch /\ file'.seq >= file.seq
       /\ \A i \in Items :
            \/ file'.rows[i] = file.rows[i]
            \/ file'.rows[i] = NoRow
            \/ file'.rows[i].seq > file.seq
    \/ file'.epoch > file.epoch /\ \A i \in Items : file'.rows[i] = NoRow

LEMMA FileStepPreserves ==
    ASSUME IInv, UNCHANGED <<store, settings, run>>, file' \in File, LogOK(file'), FileMoves
    PROVE  IInv'
<1> USE DEF IInv, store, settings, run
<1>1. /\ file \in File /\ file.epoch \in Nat /\ file'.epoch \in Nat
      /\ file.seq \in Nat /\ file'.seq \in Nat
    BY FileFields DEF TypeOK
<1>2. TypeOK' /\ FrameOK' /\ LogOK(file)'
    BY DEF TypeOK, FrameOK
\* What was reached stays reached.
<1>3. \A seq, epoch \in Nat : Reached(seq, epoch) => Reached(seq, epoch)'
    BY <1>1 DEF Reached, FileMoves
<1>4. Known'
    BY <1>3, RecordFields, MetaFields DEF Known, Reached
\* What is live by a position of the file's epoch, or as it is stored, did
\* not change.
<1>5. ASSUME NEW i \in Items, Live(file', i), NEW seq \in Nat, NEW epoch \in Nat,
             Reached(seq, epoch), epoch = file'.epoch, file'.rows[i].seq <= seq
      PROVE  file'.rows[i] = file.rows[i] /\ file'.epoch = file.epoch
  <2>1. file'.rows[i] # NoRow /\ file'.epoch = file.epoch /\ seq <= file.seq
    BY <1>1, <1>5 DEF Live, Reached, FileMoves
  <2>2. file'.rows[i].seq \in Nat
    BY <2>1, FileFields DEF Row
  <2> QED
    BY <1>1, <1>5, <2>1, <2>2 DEF FileMoves
<1>6. ASSUME NEW i \in Items, Live(file', i), Current(i)'
      PROVE  file'.rows[i] = file.rows[i] /\ file'.epoch = file.epoch
  <2>1. /\ records[i] # NoRec /\ records[i].seq = file'.rows[i].seq
        /\ records[i].epoch = file'.epoch
    BY <1>6 DEF Current
  <2> QED
    BY <1>5, <1>6, <2>1, RecordFields DEF Known
<1>7. \A i \in Mine : i \in Items
    BY DEF Mine, Visible
<1>8. Listed'
    BY <1>5, <1>7, MetaFields DEF Listed, Known, Live, Current
<1>9. PageOK'
  <2> SUFFICES ASSUME HasPage PROVE PageOK'
    BY DEF PageOK, HasPage
  <2>0. answer \in Answers /\ answer.status = "ok"
    BY DEF HasPage, FrameOK
  <2>1. /\ Reached(answer.cursor.seq, answer.cursor.epoch)'
        /\ \A i \in Items : Reached(answer.upserts[i], answer.cursor.epoch)'
    BY <1>3, <2>0, PageFields DEF PageOK
  <2>2. ASSUME NEW i \in Mine, Live(file', i),
               \/ answer.cursor.epoch = file'.epoch /\ file'.rows[i].seq <= answer.cursor.seq
               \/ ~answer.more /\ Current(i)'
        PROVE  Covered(i)'
    <3>1. file'.rows[i] = file.rows[i] /\ file'.epoch = file.epoch
      BY <1>5, <1>6, <1>7, <2>0, <2>2, PageFields DEF PageOK
    <3>2. Covered(i)
      BY <2>2, <3>1 DEF PageOK, Live, Current
    <3> QED
      BY <3>1, <3>2 DEF Covered
  <2>3. ASSUME NEW i \in answer.deletes, Live(file', i) PROVE ~Current(i)'
    <3>1. SUFFICES ASSUME Current(i)' PROVE FALSE
      OBVIOUS
    <3>2. i \in Items
      BY <2>0, PageFields
    <3> QED
      BY <1>6, <2>3, <3>1, <3>2 DEF PageOK, Live, Current
  <2> QED
    BY <2>1, <2>2, <2>3 DEF PageOK
<1>10. PruneSpares'
    BY <1>6, <1>7 DEF PruneSpares, Live, Current
<1> QED
    BY <1>2, <1>4, <1>8, <1>9, <1>10

LEMMA ServiceMoves ==
    ASSUME file \in File, LogOK(file), Service
    PROVE  /\ file' \in File /\ LogOK(file') /\ FileMoves
           /\ UNCHANGED <<store, settings, run>>
<1>1. UNCHANGED <<store, settings, run>>
    BY DEF Service, Write, Prune, Restore
<1> SUFFICES file' \in File /\ LogOK(file') /\ FileMoves
    BY <1>1
<1>2. file.epoch \in Nat /\ file.seq \in Nat
    BY FileFields
<1>3. ASSUME NEW i \in Items, NEW deleted \in BOOLEAN, Write(i, deleted)
      PROVE  file' \in File /\ LogOK(file') /\ FileMoves
  <2>1. /\ file' \in File /\ LogOK(file')
        /\ file'.seq = file.seq + 1 /\ file'.epoch = file.epoch
        /\ file'.rows[i] = [seq |-> file.seq + 1, rev |-> 1, deleted |-> deleted]
        /\ \A j \in Items : j # i => file'.rows[j] = file.rows[j]
    BY <1>3, RecordedIsOK DEF Write
  <2>2. FileMoves
    BY <1>2, <2>1 DEF FileMoves
  <2> QED
    BY <2>1, <2>2
<1>4. CASE Prune
  <2>1. PICK S \in SUBSET Tombstones(file, feed) : \E i \in S :
           /\ \A j \in S : file.rows[j].seq <= file.rows[i].seq
           /\ file' = Pruned(file, feed, S, file.rows[i].seq)
    BY <1>4 DEF Prune
  <2>2. PICK i \in S : /\ \A j \in S : file.rows[j].seq <= file.rows[i].seq
                       /\ file' = Pruned(file, feed, S, file.rows[i].seq)
    BY <2>1
  <2>3. /\ file' \in File /\ LogOK(file')
        /\ file'.seq = file.seq /\ file'.epoch = file.epoch
        /\ \A j \in Items : file'.rows[j] = file.rows[j] \/ file'.rows[j] = NoRow
    BY <2>2, TombstonesGo, PullAssumption
  <2>4. FileMoves
    BY <1>2, <2>3 DEF FileMoves
  <2> QED
    BY <2>3, <2>4
<1>5. CASE Restore
  <2> DEFINE e == file.epoch + 1
  <2>1. FirstFile \in File /\ LogOK(FirstFile) /\ FirstFile.witness = 1
        /\ \A i \in Items : FirstFile.rows[i] = NoRow
    BY DEF FirstFile, File, LogOK
  <2>2. e \in Nat \ {0} /\ e > file.epoch /\ e # 1 /\ file' = Ensured(FirstFile, e, e)
    BY <1>2, <1>5 DEF Restore, LogOK
  <2> HIDE DEF e
  <2>3. /\ file' \in File /\ LogOK(file') /\ file'.rows = FirstFile.rows
        /\ file'.epoch = IF FirstFile.witness # NoWitness /\ FirstFile.witness # e THEN e
                         ELSE FirstFile.epoch
    BY <2>1, <2>2, EnsuredIsOK
  <2>4. FileMoves
    BY <2>1, <2>2, <2>3 DEF NoWitness, FileMoves
  <2> QED
    BY <2>3, <2>4
<1> QED
    BY <1>3, <1>4, <1>5 DEF Service

LEMMA ServicePreserves == IInv /\ Service => IInv'
    BY ServiceMoves, FileStepPreserves DEF IInv, TypeOK

(***************************************************************************)
(* The page moves without a record and without a page.                     *)
(***************************************************************************)

\* The position is kept, or given up for a resync; a page comes with neither.
LEMMA FrameStepPreserves ==
    ASSUME IInv, FrameInv', UNCHANGED <<file, records>>, ~HasPage', pc' # "prune",
           \/ meta'.cursor = NoCursor
           \/ /\ meta'.cursor = meta.cursor
              /\ meta'.resyncGen \in {meta.resyncGen, NoGen}
    PROVE  IInv'
<1> USE DEF IInv
<1>1. TypeOK' /\ FrameOK' /\ LogOK(file)'
    BY DEF FrameInv
<1>2. Known'
    BY DEF Known, Reached
<1>3. Listed'
    BY DEF Listed, Current
<1>4. PageOK' /\ PruneSpares'
    BY DEF PageOK, PruneSpares
<1> QED
    BY <1>1, <1>2, <1>3, <1>4

LEMMA FramePreserves ==
    ASSUME IInv,
           \/ Pull \/ Begin \/ Mark \/ Ask \/ Restart \/ ServiceChecks \/ AnswerLost
           \/ GiveUp \/ MarkStale \/ Unmark \/ Reload
    PROVE  IInv'
<1>0. FrameInv
    BY DEF IInv, FrameInv
<1>1. CASE Pull \/ Ask \/ ServiceChecks \/ AnswerLost
  <2>1. FrameInv'
    BY <1>0, <1>1, MoveFrame
  <2>2. ~HasPage' /\ pc' # "prune" /\ UNCHANGED <<file, records>> /\ meta' = meta
    BY <1>1 DEF Pull, Ask, ServiceChecks, AnswerLost, HasPage, store
  <2> QED
    BY <2>1, <2>2, FrameStepPreserves
<1>2. CASE Begin
  <2>1. ~HasPage' /\ pc' # "prune" /\ UNCHANGED <<file, records>> /\ meta' = meta
    BY <1>2 DEF Begin, HasPage, store
  <2> QED
    BY <1>0, <1>2, <2>1, BeginFrame, FrameStepPreserves
<1>3. CASE Mark
  <2>1. ~HasPage' /\ pc' # "prune" /\ UNCHANGED <<file, records>> /\ meta'.cursor = NoCursor
    BY <1>0, <1>3 DEF Mark, HasPage, FrameInv, TypeOK, Meta
  <2> QED
    BY <1>0, <1>3, <2>1, MarkFrame, FrameStepPreserves
<1>4. CASE Restart
  <2>1. ~HasPage' /\ pc' # "prune" /\ UNCHANGED <<file, records>> /\ meta'.cursor = NoCursor
    BY <1>0, <1>4 DEF Restart, HasPage, FrameInv, TypeOK, Meta
  <2> QED
    BY <1>0, <1>4, <2>1, RestartFrame, FrameStepPreserves
<1>5. CASE GiveUp \/ MarkStale \/ Unmark \/ Reload
  <2>1. ~HasPage' /\ pc' # "prune" /\ UNCHANGED <<file, records>>
    BY <1>5 DEF GiveUp, MarkStale, Unmark, Reload, Over, HasPage, store
  <2> QED
    BY <1>0, <1>5, <2>1, EndFrame, FrameStepPreserves
<1> QED
    BY <1>1, <1>2, <1>3, <1>4, <1>5

(***************************************************************************)
(* The service answers.                                                    *)
(***************************************************************************)

\* What a position says that is not refused, or no position.
LEMMA AskedFrom ==
    ASSUME IInv, pc = "checked", ~Refused(file, feed, since)
    PROVE  /\ since \in Cursor \cup {NoCursor} /\ since = meta.cursor /\ gen = meta.resyncGen
           /\ AfterOf(since) \in Nat /\ AfterOf(since) <= file.seq
           /\ since # NoCursor => since.epoch = file.epoch
           /\ IsSweep(since) => gen # NoGen
<1>1. since \in Cursor \cup {NoCursor} /\ since = meta.cursor /\ gen = meta.resyncGen
    BY DEF IInv, TypeOK, FrameOK, Asking
<1>2. file.epoch > 0 /\ file.epoch \in Nat /\ file.seq \in Nat
    BY FileFields DEF IInv, TypeOK, LogOK
<1>3. since # NoCursor => since.epoch = file.epoch /\ since.seq \in Nat
    BY <1>1, <1>2 DEF Refused, IsForeignTo, Cursor
<1>4. since # NoCursor => since.seq <= file.seq
    BY <1>1, <1>3 DEF IInv, Known, Reached
<1>5. IsSweep(since) => gen # NoGen
    BY <1>1 DEF IInv, FrameOK, Asking, IsSweep
<1> QED
    BY <1>1, <1>2, <1>3, <1>4, <1>5, PositionType DEF AfterOf

LEMMA PageFieldsOf ==
    ASSUME NEW last, NEW listed, listed = PageItems(file, feed, me, since)
    PROVE  /\ Page(last).status = "ok"
           /\ \A i \in Items : Page(last).upserts[i] = IF i \in listed THEN Shown(file, i) ELSE 0
           /\ Page(last).deletes = {i \in listed : ~Live(file, i)}
           /\ Page(last).cursor = NextCursor(file, feed, me, since, last)
           /\ Page(last).more = More(file, feed, me, since)
    BY DEF Page

LEMMA PageType ==
    ASSUME file \in File, NEW last \in Nat
    PROVE  Page(last) \in Answers
<1> DEFINE listed == PageItems(file, feed, me, since)
           ups == [i \in Items |-> IF i \in listed THEN Shown(file, i) ELSE 0]
           dels == {i \in listed : ~Live(file, i)}
           cur == NextCursor(file, feed, me, since, last)
           more == More(file, feed, me, since)
<1>1. listed \subseteq Items /\ \A i \in listed : Shown(file, i) \in Nat
    BY PageIsAhead DEF Shown
<1>2. cur \in Cursor
    BY NextCursorIsOK, PullAssumption
<1>3. more \in BOOLEAN
    BY DEF More
<1>4. ups \in [Items -> Nat] /\ dels \in SUBSET Items
    BY <1>1
<1>5. Page(last) = [status |-> "ok", upserts |-> ups, deletes |-> dels,
                    cursor |-> cur, more |-> more]
    BY DEF Page
<1> HIDE DEF ups, dels, cur, more
<1> QED
    BY <1>2, <1>3, <1>4, <1>5 DEF Answers

LEMMA AnswersPreserves == IInv /\ ServiceAnswers => IInv'
<1> SUFFICES ASSUME IInv, ServiceAnswers PROVE IInv'
    OBVIOUS
<1> USE DEF ServiceAnswers, store, settings
<1>1. CASE Refused(file, feed, since)
  <2>1. [status |-> "410"] \in Answers
    BY DEF Answers
  <2>2. FrameInv'
    BY <1>1, <2>1 DEF FrameInv, IInv, TypeOK, FrameOK, Places, Asking
  <2>3. ~HasPage' /\ pc' # "prune"
    BY <1>1 DEF HasPage
  <2> QED
    BY <2>2, <2>3, FrameStepPreserves
<1>2. CASE ~Refused(file, feed, since)
  <2> DEFINE listed == PageItems(file, feed, me, since)
  <2>0. file \in File /\ LogOK(file)
    BY DEF IInv, TypeOK
  <2>1. PICK last : /\ IsRowOf(file, listed, since, last)
                    /\ answer' = Page(last)
    BY <1>2 DEF IsRowOf
  <2>2. /\ since \in Cursor \cup {NoCursor} /\ since = meta.cursor /\ gen = meta.resyncGen
        /\ AfterOf(since) \in Nat /\ AfterOf(since) <= file.seq
        /\ since # NoCursor => since.epoch = file.epoch
        /\ IsSweep(since) => gen # NoGen
    BY <1>2, AskedFrom
  <2> DEFINE cur == NextCursor(file, feed, me, since, last)
  <2>3. last \in Nat /\ cur.seq \in Nat /\ cur.seq <= file.seq
    BY <2>0, <2>1, <2>2, PagePosition, PullAssumption
  <2>4. /\ cur.epoch = file.epoch
        /\ cur.sweep => IsSweep(since) /\ More(file, feed, me, since)
    BY <2>0, <2>3, NextCursorIsOK, PullAssumption
  <2>5. answer' \in Answers
    BY <2>0, <2>1, <2>3, PageType
  <2>6. /\ answer'.status = "ok" /\ answer'.cursor = cur
        /\ answer'.more = More(file, feed, me, since)
        /\ answer'.deletes = {i \in listed : ~Live(file, i)}
        /\ \A i \in Items : answer'.upserts[i] = IF i \in listed THEN Shown(file, i) ELSE 0
    BY <2>1, PageFieldsOf
  <2> HIDE DEF cur
  <2>7. TypeOK' /\ FrameOK'
    BY <2>5 DEF IInv, TypeOK, FrameOK, Places, Asking
  <2>8. PageOK'
    <3>1. Reached(answer.cursor.seq, answer.cursor.epoch)'
      BY <2>0, <2>3, <2>4, <2>6, FileFields DEF Reached
    <3>1a. ASSUME NEW i \in Items PROVE Reached(answer.upserts[i], answer.cursor.epoch)'
      BY <2>0, <2>4, <2>6, FileFields DEF Reached, Shown, Live, LogOK
    <3>2. answer'.cursor.sweep => answer'.more /\ gen' # NoGen
      BY <2>2, <2>4, <2>6
    <3>3. ASSUME NEW i \in Mine, Live(file, i),
                 file.rows[i].seq <= cur.seq \/ ~answer'.more
          PROVE  Covered(i)'
      <4>1. /\ i \in Visible(feed, me) /\ i \in Items
            /\ file.rows[i].seq \in Nat /\ file.rows[i].seq > 0
        BY <2>0, <3>3, FileFields DEF Mine, Visible, Live, LogOK, Row
      <4>2. CASE file.rows[i].seq > AfterOf(since)
        <5>1. i \in listed
          BY <2>0, <2>1, <2>2, <2>6, <3>3, <4>1, <4>2, PageCovers, PullAssumption DEF cur
        <5> QED
          BY <2>6, <3>3, <4>1, <5>1 DEF Covered, Shown
      <4>3. CASE file.rows[i].seq <= AfterOf(since)
        <5>1. i \notin listed
          BY <2>0, <2>2, <4>1, <4>3, PageIsAhead
        <5>2. since # NoCursor /\ since.seq = AfterOf(since)
          BY <4>1, <4>3 DEF AfterOf
        <5> QED
          BY <2>2, <2>6, <4>1, <4>3, <5>1, <5>2 DEF Covered
      <4> QED
        BY <2>2, <4>1, <4>2, <4>3
    <3> QED
      BY <2>6, <3>1, <3>1a, <3>2, <3>3 DEF PageOK, Live, Current
  <2>9. Known' /\ Listed' /\ PruneSpares' /\ LogOK(file)'
    BY DEF IInv, Known, Reached, Listed, PruneSpares, Current
  <2> QED
    BY <2>7, <2>8, <2>9 DEF IInv
<1> QED
    BY <1>1, <1>2

(***************************************************************************)
(* The page stores what came.                                              *)
(***************************************************************************)

LEMMA Stays ==
    ASSUME IInv, HasPage
    PROVE  /\ answer \in Answers /\ answer.status = "ok"
           /\ since = meta.cursor /\ gen = meta.resyncGen /\ gen \in Gens \cup {NoGen}
           /\ \A i \in Items : WithoutDeletes(answer)[i] =
                                IF i \in answer.deletes THEN NoRec ELSE records[i]
           /\ WithoutDeletes(answer) \in [Items -> Record \cup {NoRec}]
<1>1. answer \in Answers /\ answer.status = "ok"
    BY DEF IInv, HasPage, FrameOK
<1>2. since = meta.cursor /\ gen = meta.resyncGen /\ gen \in Gens \cup {NoGen}
    BY DEF IInv, HasPage, FrameOK, Asking, TypeOK
<1>3. records \in [Items -> Record \cup {NoRec}]
    BY DEF IInv, TypeOK
<1> QED
    BY <1>1, <1>2, <1>3 DEF WithoutDeletes

\* What a page writes.
LEMMA Applied ==
    ASSUME IInv, Apply
    PROVE  /\ \A i \in Items : answer.upserts[i] # 0 =>
                /\ records'[i] # NoRec
                /\ records'[i].seq = answer.upserts[i] /\ records'[i].epoch = answer.cursor.epoch
                /\ records'[i].gen = gen
           /\ \A i \in Items : answer.upserts[i] = 0 =>
                records'[i] = IF i \in answer.deletes THEN NoRec ELSE records[i]
           /\ records' \in [Items -> Record \cup {NoRec}]
           /\ meta' \in Meta /\ meta'.cursor = answer.cursor
           /\ meta'.resyncGen = meta.resyncGen
<1>1. HasPage /\ all = TRUE
    BY DEF Apply, HasPage, IInv, FrameOK
<1>2. /\ answer \in Answers /\ answer.status = "ok" /\ gen \in Gens \cup {NoGen}
      /\ \A i \in Items : WithoutDeletes(answer)[i] =
                           IF i \in answer.deletes THEN NoRec ELSE records[i]
      /\ WithoutDeletes(answer) \in [Items -> Record \cup {NoRec}]
    BY <1>1, Stays
<1>3. /\ answer.upserts \in [Items -> Nat] /\ answer.cursor \in Cursor
      /\ answer.cursor.epoch \in Nat
    BY <1>2, PageFields
<1>4. Kept(answer) = {i \in Items : answer.upserts[i] > 0}
    BY <1>1 DEF Kept, Keeps
<1> DEFINE rec(i) == [seq |-> answer.upserts[i], epoch |-> answer.cursor.epoch, gen |-> gen]
<1>5. \A i \in Items : rec(i) \in Record
    BY <1>2, <1>3 DEF Record
<1>6. records' = [i \in Items |-> IF i \in Kept(answer) THEN rec(i) ELSE WithoutDeletes(answer)[i]]
    BY DEF Apply, WithUpserts
<1>7. records' \in [Items -> Record \cup {NoRec}]
  <2> HIDE DEF rec
  <2> QED
    BY <1>2, <1>5, <1>6
<1>8. meta' \in Meta /\ meta'.cursor = answer.cursor /\ meta'.resyncGen = meta.resyncGen
    BY <1>3 DEF Apply, IInv, TypeOK, Meta
<1>9. ASSUME NEW i \in Items, answer.upserts[i] # 0
      PROVE  /\ records'[i] = rec(i) /\ records'[i] # NoRec
             /\ records'[i].seq = answer.upserts[i] /\ records'[i].epoch = answer.cursor.epoch
             /\ records'[i].gen = gen
  <2>1. answer.upserts[i] > 0
    BY <1>3, <1>9
  <2>2. records'[i] = rec(i)
    BY <1>4, <1>6, <2>1
  <2> QED
    BY <1>5, <2>2, PullAssumption
<1>10. ASSUME NEW i \in Items, answer.upserts[i] = 0
       PROVE  records'[i] = IF i \in answer.deletes THEN NoRec ELSE records[i]
  <2>1. i \notin Kept(answer)
    BY <1>4, <1>10
  <2> QED
    BY <1>2, <1>6, <2>1
<1> QED
    BY <1>7, <1>8, <1>9, <1>10

LEMMA ApplyFrame == IInv /\ Apply => FrameInv'
<1> SUFFICES ASSUME IInv, Apply PROVE FrameInv'
    OBVIOUS
<1>1. HasPage /\ FrameInv
    BY DEF Apply, HasPage, IInv, FrameInv
<1>2. /\ answer.cursor \in Cursor /\ answer.cursor # NoCursor
      /\ gen = meta.resyncGen /\ gen \in Gens \cup {NoGen}
      /\ answer.cursor.sweep => answer.more /\ gen # NoGen
    BY <1>1, Stays, PageFields DEF IInv, PageOK
<1>3. /\ records' \in [Items -> Record \cup {NoRec}]
      /\ meta' \in Meta /\ meta'.cursor = answer.cursor
      /\ meta'.resyncGen = meta.resyncGen
    BY Applied
<1>4. file' = file /\ file \in File /\ UNCHANGED settings
    BY DEF Apply, IInv, TypeOK
<1>5. CASE answer.more \/ gen # NoGen
  <2>1. /\ pc' \in {"ask", "prune"} /\ since' = answer.cursor /\ answer' = NoAnswer
        /\ UNCHANGED <<gen, restarts>>
        /\ pc' = "prune" => ~answer.more /\ gen # NoGen
    BY <1>5 DEF Apply
  <2>2. TypeOK'
    BY <1>2, <1>3, <1>4, <2>1 DEF IInv, TypeOK, Places, settings
  <2>3. FrameOK'
    BY <1>2, <1>3, <1>4, <2>1 DEF IInv, FrameOK, Asking, settings
  <2> QED
    BY <2>2, <2>3 DEF FrameInv
<1>6. CASE ~(answer.more \/ gen # NoGen)
  <2>1. Over
    BY <1>6 DEF Apply
  <2> QED
    BY <1>1, <1>2, <1>3, <1>4, <1>6, <2>1, OverFrame
<1> QED
    BY <1>5, <1>6

LEMMA ApplyPreserves == IInv /\ Apply => IInv'
<1> SUFFICES ASSUME IInv, Apply PROVE IInv'
    OBVIOUS
<1>1. HasPage /\ LogOK(file) /\ UNCHANGED <<file, settings>>
    BY DEF Apply, HasPage, IInv
<1>2. /\ answer \in Answers /\ answer.status = "ok"
      /\ since = meta.cursor /\ gen = meta.resyncGen
    BY <1>1, Stays
<1>3. /\ answer.upserts \in [Items -> Nat] /\ answer.cursor # NoCursor
      /\ answer.cursor.epoch \in Nat /\ answer.cursor.seq \in Nat
    BY <1>2, PageFields
<1>4. /\ \A i \in Items : answer.upserts[i] # 0 =>
            /\ records'[i] # NoRec
            /\ records'[i].seq = answer.upserts[i] /\ records'[i].epoch = answer.cursor.epoch
            /\ records'[i].gen = gen
      /\ \A i \in Items : answer.upserts[i] = 0 =>
            records'[i] = IF i \in answer.deletes THEN NoRec ELSE records[i]
      /\ meta'.cursor = answer.cursor /\ meta'.resyncGen = meta.resyncGen
    BY Applied
<1>5. TypeOK' /\ FrameOK'
    BY ApplyFrame DEF FrameInv
<1>6. pc' # "answered" /\ (pc' = "prune" => ~answer.more /\ gen # NoGen /\ gen' = gen)
    BY DEF Apply, Over
<1>7. Known'
  <2>1. ASSUME NEW i \in Items, records'[i] # NoRec
        PROVE  Reached(records'[i].seq, records'[i].epoch)
    <3>1. CASE answer.upserts[i] # 0
      BY <1>1, <1>4, <3>1 DEF IInv, PageOK
    <3>2. CASE answer.upserts[i] = 0
      <4>1. records'[i] = records[i]
        BY <1>4, <2>1, <3>2
      <4> QED
        BY <2>1, <4>1 DEF IInv, Known
    <3> QED
      BY <3>1, <3>2
  <2>2. Reached(meta'.cursor.seq, meta'.cursor.epoch)
    BY <1>1, <1>4 DEF IInv, PageOK
  <2> QED
    BY <1>1, <2>1, <2>2 DEF Known, Reached
\* What is stored of a row the page covers.
<1>8. ASSUME NEW i \in Mine, Live(file, i), Covered(i)
      PROVE  /\ i \in Items
             /\ \/ /\ records'[i].seq = file.rows[i].seq /\ records'[i] # NoRec
                   /\ records'[i].epoch = answer.cursor.epoch /\ records'[i].gen = gen
                \/ /\ answer.upserts[i] = 0 /\ records'[i] = records[i] /\ Current(i)
                   /\ (meta.resyncGen # NoGen => records[i].gen = meta.resyncGen)
  <2>1. i \in Items /\ file.rows[i].seq \in Nat /\ file.rows[i].seq > 0
    BY <1>1, <1>8, FileFields DEF Mine, Visible, Live, LogOK, Row, IInv, TypeOK
  <2>2. CASE answer.upserts[i] = file.rows[i].seq
    BY <1>4, <2>1, <2>2
  <2>3. CASE answer.upserts[i] # file.rows[i].seq
    <3>1. /\ answer.upserts[i] = 0 /\ i \notin answer.deletes
          /\ since # NoCursor /\ since.epoch = file.epoch /\ file.rows[i].seq <= since.seq
      BY <1>8, <2>3 DEF Covered
    <3>2. records'[i] = records[i]
      BY <1>4, <2>1, <3>1
    <3>3. Current(i) /\ (meta.resyncGen # NoGen => records[i].gen = meta.resyncGen)
      BY <1>2, <1>8, <3>1 DEF IInv, Listed
    <3> QED
      BY <2>1, <3>1, <3>2, <3>3
  <2> QED
    BY <2>2, <2>3
<1>9. Listed'
  <2> SUFFICES ASSUME answer.cursor.epoch = file.epoch, NEW i \in Mine,
                      Live(file, i), file.rows[i].seq <= answer.cursor.seq
               PROVE  Current(i)' /\ (meta.resyncGen # NoGen => records'[i].gen = meta.resyncGen)
    BY <1>1, <1>4 DEF Listed, Live
  <2>1. Covered(i)
    BY <1>1 DEF IInv, PageOK
  <2> QED
    BY <1>1, <1>2, <1>8, <2>1 DEF Current
<1>10. PruneSpares'
  <2> SUFFICES ASSUME pc' = "prune", NEW i \in Mine, Live(file, i), Current(i)'
               PROVE  records'[i].gen = gen
    BY <1>1, <1>6 DEF PruneSpares, Live
  <2>1. i \in Items
    BY DEF Mine, Visible
  <2>2. CASE answer.upserts[i] # 0
    BY <1>4, <2>1, <2>2
  <2>3. CASE answer.upserts[i] = 0
    <3>1. Current(i) /\ records'[i] = records[i]
      BY <1>1, <1>4, <2>1, <2>3 DEF Current
    <3>2. Covered(i)
      BY <1>1, <1>6, <3>1 DEF IInv, PageOK
    <3> QED
      BY <1>2, <1>6, <1>8, <3>1, <3>2
  <2> QED
    BY <2>2, <2>3
<1>11. PageOK' /\ LogOK(file)'
    BY <1>1, <1>6 DEF PageOK, HasPage
<1> QED
    BY <1>5, <1>7, <1>9, <1>10, <1>11 DEF IInv

LEMMA ApplyFullPreserves == IInv /\ ApplyFull => IInv'
<1> SUFFICES ASSUME IInv, ApplyFull PROVE IInv'
    OBVIOUS
<1>1. /\ HasPage /\ LogOK(file) /\ UNCHANGED <<file, meta, settings, since, gen, restarts>>
      /\ records' = WithoutDeletes(answer) /\ pc' = "stale" /\ answer' = NoAnswer
    BY DEF ApplyFull, HasPage, IInv
<1>2. /\ \A i \in Items : records'[i] = IF i \in answer.deletes THEN NoRec ELSE records[i]
      /\ records' \in [Items -> Record \cup {NoRec}]
    BY <1>1, Stays
<1>3. TypeOK'
    BY <1>1, <1>2 DEF IInv, TypeOK, Places, settings
<1>4. FrameOK'
    BY <1>1 DEF IInv, FrameOK, Asking, HasPage, settings
<1>5. Known'
    BY <1>1, <1>2 DEF IInv, Known, Reached
<1>6. Listed'
  <2> SUFFICES ASSUME meta.cursor # NoCursor, meta.cursor.epoch = file.epoch, NEW i \in Mine,
                      Live(file, i), file.rows[i].seq <= meta.cursor.seq
               PROVE  Current(i)' /\ (meta.resyncGen # NoGen => records'[i].gen = meta.resyncGen)
    BY <1>1 DEF Listed, Live
  <2>1. Current(i) /\ (meta.resyncGen # NoGen => records[i].gen = meta.resyncGen)
    BY DEF IInv, Listed
  <2>2. i \in Items /\ i \notin answer.deletes
    BY <1>1, <2>1 DEF IInv, PageOK, Mine, Visible
  <2> QED
    BY <1>1, <1>2, <2>1, <2>2 DEF Current
<1>7. PageOK' /\ PruneSpares' /\ LogOK(file)'
    BY <1>1 DEF PageOK, HasPage, PruneSpares
<1> QED
    BY <1>3, <1>4, <1>5, <1>6, <1>7 DEF IInv

LEMMA PruneStalePreserves == IInv /\ PruneStale => IInv'
<1> SUFFICES ASSUME IInv, PruneStale PROVE IInv'
    OBVIOUS
<1>1. /\ pc = "prune" /\ pc' = "unmark" /\ LogOK(file)
      /\ UNCHANGED <<file, meta, settings, since, gen, restarts, answer>>
      /\ \A i \in Items : records'[i] = IF records[i] # NoRec /\ records[i].gen # gen
                                        THEN NoRec ELSE records[i]
      /\ gen = meta.resyncGen
    BY DEF PruneStale, IInv, FrameOK
<1>2. records' \in [Items -> Record \cup {NoRec}]
    BY DEF PruneStale, IInv, TypeOK
<1>3. TypeOK'
    BY <1>1, <1>2 DEF IInv, TypeOK, Places, settings
<1>4. FrameOK'
    BY <1>1 DEF IInv, FrameOK, Asking, settings
<1>5. Known'
    BY <1>1 DEF IInv, Known, Reached
<1>6. Listed'
  <2> SUFFICES ASSUME meta.cursor # NoCursor, meta.cursor.epoch = file.epoch, NEW i \in Mine,
                      Live(file, i), file.rows[i].seq <= meta.cursor.seq
               PROVE  Current(i)' /\ (meta.resyncGen # NoGen => records'[i].gen = meta.resyncGen)
    BY <1>1 DEF Listed, Live
  <2>1. Current(i) /\ records[i].gen = gen /\ i \in Items
    BY <1>1 DEF IInv, Listed, FrameOK, Mine, Visible
  <2> QED
    BY <1>1, <2>1 DEF Current
<1>7. PageOK' /\ PruneSpares' /\ LogOK(file)'
    BY <1>1 DEF PageOK, HasPage, PruneSpares
<1> QED
    BY <1>3, <1>4, <1>5, <1>6, <1>7 DEF IInv

(***************************************************************************)
(* The invariant holds, and what follows from it.                          *)
(***************************************************************************)

LEMMA FirstFileIsOK == FirstFile \in File /\ LogOK(FirstFile)
    BY DEF FirstFile, File, LogOK

LEMMA InitIInv == Init => IInv
<1> SUFFICES ASSUME Init PROVE IInv
    OBVIOUS
<1> USE DEF Init, Fresh
<1>1. file \in File /\ LogOK(file)
    BY FirstFileIsOK
<1>2. /\ meta \in Meta /\ meta.cursor = NoCursor
    BY DEF Meta
<1>3. TypeOK
    BY <1>1, <1>2 DEF TypeOK, Places
<1>4. FrameOK /\ Known /\ Listed /\ PageOK /\ PruneSpares
    BY <1>2 DEF FrameOK, Asking, Known, Listed, PageOK, HasPage, PruneSpares
<1> QED
    BY <1>1, <1>3, <1>4 DEF IInv

LEMMA NextIInv == IInv /\ [Next]_vars => IInv'
<1> SUFFICES ASSUME IInv, [Next]_vars PROVE IInv'
    OBVIOUS
<1>1. CASE Service
    BY <1>1, ServicePreserves
<1>2. CASE ServiceAnswers
    BY <1>2, AnswersPreserves
<1>3. CASE \/ Pull \/ Begin \/ Mark \/ Ask \/ Restart \/ ServiceChecks \/ AnswerLost
          \/ GiveUp \/ MarkStale \/ Unmark \/ Reload
    BY <1>3, FramePreserves
<1>4. CASE Apply
    BY <1>4, ApplyPreserves
<1>5. CASE ApplyFull
    BY <1>5, ApplyFullPreserves
<1>6. CASE PruneStale
    BY <1>6, PruneStalePreserves
<1>7. CASE UNCHANGED vars
    BY <1>7 DEF vars, store, settings, run, IInv, TypeOK, LogOK, Known, Reached, FrameOK,
                Listed, PageOK, HasPage, Covered, PruneSpares, Current
<1> QED
    BY <1>1, <1>2, <1>3, <1>4, <1>5, <1>6, <1>7 DEF Next, Answering, Running, Failing

LEMMA IInvHolds == Spec => []IInv
    BY InitIInv, NextIInv, PTL DEF Spec

\* Every variable of the page and of the service keeps its type (db-pull.js,
\* db-store.js).
THEOREM TypeCorrect == Spec => []TypeOK
<1>1. IInv => TypeOK
    BY DEF IInv
<1> QED
    BY <1>1, IInvHolds, PTL

\* A live item below a stored cursor that the service serves is stored, as the
\* service has it and out of reach of the end of an unfinished resync: for any
\* page limit, in the middle of a sweep, and whatever was lost or closed.
THEOREM ListedStaysStored == Spec => []ListedIsStored
<1>1. IInv => ListedIsStored
  <2> SUFFICES ASSUME IInv, Served PROVE meta.cursor # NoCursor /\ meta.cursor.epoch = file.epoch
      BY DEF IInv, Listed, ListedIsStored
  <2>1. file.epoch > 0 /\ file.epoch \in Nat
      BY FileFields DEF IInv, TypeOK, LogOK
  <2> QED
      BY <2>1 DEF Served, Refused, IsForeignTo
<1> QED
    BY <1>1, IInvHolds, PTL

LEMMA CurrentStays ==
    ASSUME IInv, Next, NEW i \in Mine, Live(file, i), Current(i)
    PROVE  records'[i] # NoRec
<1>1. i \in Items /\ records[i] # NoRec
    BY DEF Mine, Visible, Current
<1>2. CASE Apply
  <2>1. HasPage
    BY <1>2 DEF Apply, HasPage
  <2>2. i \notin answer.deletes
    BY <2>1 DEF IInv, PageOK
  <2> QED
    BY <1>1, <1>2, <2>2, Applied
<1>3. CASE ApplyFull
  <2>1. HasPage /\ records' = WithoutDeletes(answer)
    BY <1>3 DEF ApplyFull, HasPage
  <2>2. i \notin answer.deletes
    BY <2>1 DEF IInv, PageOK
  <2> QED
    BY <1>1, <2>1, <2>2, Stays
<1>4. CASE PruneStale
  <2>1. records[i].gen = gen
    BY <1>4 DEF PruneStale, IInv, PruneSpares
  <2> QED
    BY <1>1, <1>4, <2>1 DEF PruneStale
<1>5. CASE Service \/ Answering \/ Pull \/ AnswerLost \/ Reload
    BY <1>1, <1>5 DEF Service, Write, Prune, Restore, Answering, ServiceChecks, ServiceAnswers,
                      Pull, AnswerLost, Reload, store
<1>6. CASE Begin \/ Mark \/ Ask \/ Restart \/ GiveUp \/ MarkStale \/ Unmark
    BY <1>1, <1>6 DEF Begin, Mark, Ask, Restart, GiveUp, MarkStale, Unmark, store
<1> QED
    BY <1>2, <1>3, <1>4, <1>5, <1>6 DEF Next, Running, Failing

\* "The old data stays readable until the last page is in" (db-pull.js): no
\* step of the page takes away a record that is what the service holds.
THEOREM CurrentRecordsStayStored == Spec => CurrentRecordsStay
<1>1. IInv /\ [Next]_vars =>
        [\A i \in Mine : Live(file, i) /\ Current(i) => records'[i] # NoRec]_vars
    BY CurrentStays
<1> QED
    BY <1>1, IInvHolds, PTL DEF Spec, CurrentRecordsStay

(***************************************************************************)
(* Nothing goes back to an older version.                                  *)
(***************************************************************************)

\* What is stored of a row is no newer than the row.
NoneAhead ==
    \A i \in Items :
        records[i] # NoRec /\ records[i].epoch = file.epoch /\ file.rows[i] # NoRow =>
            records[i].seq <= file.rows[i].seq

\* The version that the number "seq" of an epoch names is not older than what
\* is stored of the item.
NotOlder(i, seq, epoch) ==
    records[i] # NoRec =>
        epoch > records[i].epoch \/ (epoch = records[i].epoch /\ seq >= records[i].seq)

\* So it is with the page on its way, which is no newer than the rows, either.
PageIsNewer ==
    HasPage => \A i \in Items : answer.upserts[i] # 0 =>
        /\ NotOlder(i, answer.upserts[i], answer.cursor.epoch)
        /\ answer.cursor.epoch = file.epoch /\ file.rows[i] # NoRow =>
            answer.upserts[i] <= file.rows[i].seq

OrderInv == IInv /\ NoneAhead /\ PageIsNewer

\* Steps that take records away at most, and have no page on its way.
LEMMA FewerOrder ==
    ASSUME OrderInv, IInv', UNCHANGED file, ~HasPage',
           \A i \in Items : records'[i] \in {records[i], NoRec}
    PROVE  OrderInv'
<1>1. NoneAhead'
    BY DEF OrderInv, NoneAhead
<1> QED
    BY <1>1 DEF OrderInv, PageIsNewer

\* A new row is above whatever was reached; a new epoch has no rows.
LEMMA ServiceOrder == OrderInv /\ Service => OrderInv'
<1> SUFFICES ASSUME OrderInv, Service PROVE OrderInv'
    OBVIOUS
<1>1. /\ file' \in File /\ FileMoves /\ UNCHANGED <<store, settings, run>>
      /\ IInv' /\ file \in File
    BY ServiceMoves, ServicePreserves DEF OrderInv, IInv, TypeOK
<1>2. file.epoch \in Nat /\ file'.epoch \in Nat /\ file.seq \in Nat
    BY <1>1, FileFields
<1>3. ASSUME NEW i \in Items, NEW seq \in Nat, NEW epoch \in Nat, Reached(seq, epoch),
             epoch = file.epoch /\ file.rows[i] # NoRow => seq <= file.rows[i].seq,
             epoch = file'.epoch, file'.rows[i] # NoRow
      PROVE  seq <= file'.rows[i].seq
  <2>1. file'.epoch = file.epoch /\ seq <= file.seq
    BY <1>1, <1>2, <1>3 DEF FileMoves, Reached
  <2>2. file'.rows[i].seq \in Nat
    BY <1>1, <1>3, FileFields DEF Row
  <2> QED
    BY <1>1, <1>2, <1>3, <2>1, <2>2 DEF FileMoves
<1>4. NoneAhead'
    BY <1>1, <1>3, RecordFields DEF OrderInv, IInv, Known, NoneAhead, store
<1>5. PageIsNewer'
  <2> SUFFICES ASSUME HasPage, NEW i \in Items, answer.upserts[i] # 0
               PROVE  /\ NotOlder(i, answer.upserts[i], answer.cursor.epoch)
                      /\ answer.cursor.epoch = file'.epoch /\ file'.rows[i] # NoRow =>
                           answer.upserts[i] <= file'.rows[i].seq
    BY <1>1 DEF PageIsNewer, HasPage, NotOlder, run, store
  <2>1. /\ answer.upserts[i] \in Nat /\ answer.cursor.epoch \in Nat
        /\ Reached(answer.upserts[i], answer.cursor.epoch)
    BY Stays, PageFields DEF OrderInv, IInv, PageOK
  <2> QED
    BY <1>3, <2>1 DEF OrderInv, PageIsNewer
<1> QED
    BY <1>1, <1>4, <1>5 DEF OrderInv

\* A page brings the rows as they are.
LEMMA AnswersOrder == OrderInv /\ ServiceAnswers => OrderInv'
<1> SUFFICES ASSUME OrderInv, ServiceAnswers PROVE OrderInv'
    OBVIOUS
<1>1. IInv /\ IInv' /\ UNCHANGED <<file, records>> /\ file \in File
    BY AnswersPreserves DEF OrderInv, IInv, TypeOK, ServiceAnswers, store
<1>2. NoneAhead'
    BY <1>1 DEF OrderInv, NoneAhead
<1>3. CASE Refused(file, feed, since)
    BY <1>1, <1>2, <1>3 DEF ServiceAnswers, OrderInv, PageIsNewer, HasPage
<1>4. CASE ~Refused(file, feed, since)
  <2>1. PICK last : answer' = Page(last)
    BY <1>4 DEF ServiceAnswers
  <2>2. answer'.cursor.epoch = file.epoch
    <3>1. answer'.cursor = NextCursor(file, feed, me, since, last)
      BY <2>1, PageFieldsOf
    <3>2. NextCursor(file, feed, me, since, last).epoch = file.epoch
      BY DEF NextCursor, At, SweepAt
    <3> QED
      BY <3>1, <3>2
  <2>3. ASSUME NEW i \in Items, answer'.upserts[i] # 0
        PROVE  file.rows[i] # NoRow /\ answer'.upserts[i] = file.rows[i].seq
    BY <2>1, <2>3, PageFieldsOf DEF Shown, Live
  <2>4. ASSUME NEW i \in Items, answer'.upserts[i] # 0
        PROVE  /\ NotOlder(i, answer'.upserts[i], file.epoch)
               /\ answer'.upserts[i] <= file.rows[i].seq
    <3>1. file.rows[i] # NoRow /\ answer'.upserts[i] = file.rows[i].seq
      BY <2>3, <2>4
    <3>2. file.rows[i].seq \in Nat /\ file.epoch \in Nat
      BY <1>1, <3>1, FileFields DEF Row
    <3>3. records[i] # NoRec => /\ records[i].epoch <= file.epoch
                                /\ records[i].epoch \in Nat /\ records[i].seq \in Nat
      BY <1>1, RecordFields DEF IInv, Known, Reached
    <3> QED
      BY <3>1, <3>2, <3>3 DEF NotOlder, OrderInv, NoneAhead
  <2>5. PageIsNewer'
    BY <1>1, <2>2, <2>4 DEF PageIsNewer, NotOlder
  <2> QED
    BY <1>1, <1>2, <2>5 DEF OrderInv
<1> QED
    BY <1>3, <1>4

LEMMA ApplyOrder == OrderInv /\ Apply => OrderInv'
<1> SUFFICES ASSUME OrderInv, Apply PROVE OrderInv'
    OBVIOUS
<1>1. IInv /\ IInv' /\ file' = file /\ HasPage /\ ~HasPage'
    BY ApplyPreserves, PullAssumption DEF OrderInv, Apply, HasPage, Over
<1>2. \A i \in Items : records'[i] # NoRec =>
        IF answer.upserts[i] # 0
        THEN records'[i].seq = answer.upserts[i] /\ records'[i].epoch = answer.cursor.epoch
        ELSE records'[i] = records[i]
    BY <1>1, Applied
<1>3. NoneAhead'
    BY <1>1, <1>2 DEF OrderInv, NoneAhead, PageIsNewer
<1> QED
    BY <1>1, <1>3 DEF OrderInv, PageIsNewer

LEMMA NextOrder == OrderInv /\ [Next]_vars => OrderInv'
<1> SUFFICES ASSUME OrderInv, [Next]_vars PROVE OrderInv'
    OBVIOUS
<1>0. IInv /\ IInv'
    BY NextIInv DEF OrderInv
<1>1. CASE Service
    BY <1>1, ServiceOrder
<1>2. CASE ServiceAnswers
    BY <1>2, AnswersOrder
<1>3. CASE Apply
    BY <1>3, ApplyOrder
<1>4. CASE \/ Pull \/ Begin \/ Mark \/ Ask \/ Restart \/ ServiceChecks \/ AnswerLost
          \/ GiveUp \/ MarkStale \/ Unmark \/ Reload
  <2>1. UNCHANGED <<file, records>> /\ ~HasPage'
    BY <1>4 DEF Pull, Begin, Mark, Ask, Restart, ServiceChecks, AnswerLost, GiveUp, MarkStale,
                Unmark, Reload, Over, HasPage, store
  <2> QED
    BY <1>0, <2>1, FewerOrder
<1>5. CASE ApplyFull
  <2>1. /\ HasPage /\ records' = WithoutDeletes(answer) /\ UNCHANGED file /\ ~HasPage'
    BY <1>5 DEF ApplyFull, HasPage
  <2>2. \A i \in Items : records'[i] \in {records[i], NoRec}
    BY <1>0, <2>1, Stays
  <2> QED
    BY <1>0, <2>1, <2>2, FewerOrder
<1>6. CASE PruneStale
  <2>1. /\ UNCHANGED file /\ ~HasPage'
        /\ \A i \in Items : records'[i] \in {records[i], NoRec}
    BY <1>6 DEF PruneStale, HasPage
  <2> QED
    BY <1>0, <2>1, FewerOrder
<1>7. CASE UNCHANGED vars
    BY <1>0, <1>7 DEF vars, store, settings, run, OrderInv, NoneAhead, PageIsNewer, NotOlder,
                      HasPage
<1> QED
    BY <1>1, <1>2, <1>3, <1>4, <1>5, <1>6, <1>7 DEF Next, Answering, Running, Failing

\* What a step of the pull puts in the place of a record is not older.
LEMMA RecordsMoveOn ==
    ASSUME OrderInv, Next, NEW i \in Items, records[i] # NoRec, records'[i] # NoRec
    PROVE  \/ records'[i].epoch > records[i].epoch
           \/ records'[i].epoch = records[i].epoch /\ records'[i].seq >= records[i].seq
<1>1. records[i].epoch \in Nat /\ records[i].seq \in Nat
    BY RecordFields DEF OrderInv, IInv
<1>2. CASE Apply
  <2>1. HasPage
    BY <1>2 DEF Apply, HasPage
  <2> QED
    BY <1>1, <1>2, <2>1, Applied DEF OrderInv, PageIsNewer, NotOlder
<1>3. CASE ApplyFull
  <2>1. HasPage /\ records' = WithoutDeletes(answer)
    BY <1>3 DEF ApplyFull, HasPage
  <2> QED
    BY <1>1, <2>1, Stays DEF OrderInv
<1>4. CASE PruneStale
    BY <1>1, <1>4 DEF PruneStale
<1>5. CASE ~Apply /\ ~ApplyFull /\ ~PruneStale
  <2>1. records' = records
    BY <1>5 DEF Next, Service, Answering, Running, Failing, Write, Prune, Restore, ServiceChecks,
                ServiceAnswers, Pull, Begin, Mark, Ask, Restart, GiveUp, MarkStale, Unmark,
                AnswerLost, Reload, store
  <2> QED
    BY <1>1, <2>1
<1> QED
    BY <1>2, <1>3, <1>4, <1>5

\* "One pull per collection at a time" (db-pull.js): no record is replaced by an
\* older version of its item, for any page limit, lost answers, restores and
\* closed pages.
THEOREM RecordsNeverGoBack == Spec => NeverGoesBack
<1>1. Init => OrderInv
    BY InitIInv DEF Init, Fresh, OrderInv, NoneAhead, PageIsNewer, HasPage
<1>2. OrderInv /\ [Next]_vars =>
        [\A i \in Items : records[i] # NoRec /\ records'[i] # NoRec =>
           \/ records'[i].epoch > records[i].epoch
           \/ /\ records'[i].epoch = records[i].epoch
              /\ records'[i].seq >= records[i].seq]_vars
    BY RecordsMoveOn
<1> QED
    BY <1>1, <1>2, NextOrder, PTL DEF Spec, NeverGoesBack

(***************************************************************************)
(* When a sweep is one page, nothing that is gone is left behind.          *)
(***************************************************************************)

\* Whoever is served at a position after a step of the service was so before,
\* and what is gone by it was.
GoneMoves ==
    \A c \in Cursor :
        Reached(c.seq, c.epoch) /\ ~c.sweep /\ ~Refused(file', feed, c) =>
            /\ ~Refused(file, feed, c)
            /\ \A i \in Mine : GoneBy(i, c.seq)' => GoneBy(i, c.seq)

LEMMA ServiceGone == IInv /\ Service => GoneMoves
<1> SUFFICES ASSUME IInv, Service, NEW c \in Cursor, Reached(c.seq, c.epoch), ~c.sweep,
                    ~Refused(file', feed, c), c # NoCursor
             PROVE  /\ ~Refused(file, feed, c)
                    /\ \A i \in Mine : GoneBy(i, c.seq)' => GoneBy(i, c.seq)
    BY ItemsAssumption DEF GoneMoves
<1>0. /\ file \in File /\ LogOK(file) /\ file.epoch \in Nat /\ file.epoch > 0 /\ file.seq \in Nat
      /\ c.seq \in Nat /\ c.epoch \in Nat /\ feed \in Collections
      /\ \A i \in Mine : i \in Items /\ collectionOf[i] = feed
    BY FileFields, PullAssumption DEF IInv, TypeOK, LogOK, Cursor, Mine, Visible
<1>1. ASSUME NEW i \in Items, NEW deleted \in BOOLEAN, Write(i, deleted)
      PROVE  /\ ~Refused(file, feed, c)
             /\ \A j \in Mine : GoneBy(j, c.seq)' => GoneBy(j, c.seq)
  <2>1. /\ file'.floor = file.floor /\ file'.epoch = file.epoch
        /\ file'.rows[i] = [seq |-> file.seq + 1, rev |-> 1, deleted |-> deleted]
        /\ file'.rows[i] # NoRow
        /\ \A j \in Items : j # i => file'.rows[j] = file.rows[j]
    BY <1>0, <1>1, RecordedIsOK DEF Write
  <2>2. ~Refused(file, feed, c) /\ c.seq <= file.seq
    BY <1>0, <2>1 DEF Refused, IsForeignTo, Reached
  <2>3. ~GoneBy(i, c.seq)'
    BY <1>0, <2>1, <2>2 DEF GoneBy
  <2> QED
    BY <1>0, <2>1, <2>2, <2>3 DEF GoneBy, Live
<1>2. CASE Prune
  <2>1. PICK S \in SUBSET Tombstones(file, feed) : \E i \in S :
           /\ \A j \in S : file.rows[j].seq <= file.rows[i].seq
           /\ file' = Pruned(file, feed, S, file.rows[i].seq)
    BY <1>2 DEF Prune
  <2>2. PICK i \in S : /\ \A j \in S : file.rows[j].seq <= file.rows[i].seq
                       /\ file' = Pruned(file, feed, S, file.rows[i].seq)
    BY <2>1
  <2>3. /\ file' \in File /\ file'.epoch = file.epoch
        /\ \A b \in Collections : file'.floor[b] >= file.floor[b]
        /\ \A j \in Items :
             \/ file'.rows[j] = file.rows[j]
             \/ /\ file'.rows[j] = NoRow
                /\ collectionOf[j] = feed
                /\ file.rows[j] # NoRow /\ file.rows[j].deleted
                /\ file.rows[j].seq <= file'.floor[feed]
    BY <1>0, <2>2, TombstonesGo
  <2>4. file'.floor[feed] \in Nat /\ file.floor[feed] \in Nat
    BY <1>0, <2>3, FileFields
  <2>5. c.epoch = file.epoch /\ c.seq >= file'.floor[feed]
    BY <1>0, <2>3, <2>4 DEF Refused, IsForeignTo
  <2>6. ~Refused(file, feed, c)
    BY <1>0, <2>3, <2>4, <2>5 DEF Refused, IsForeignTo
  <2>7. ASSUME NEW j \in Mine, GoneBy(j, c.seq)' PROVE GoneBy(j, c.seq)
    <3>1. CASE file'.rows[j] = file.rows[j]
      BY <2>7, <3>1 DEF GoneBy, Live
    <3>2. CASE file'.rows[j] # file.rows[j]
      <4>1. /\ file.rows[j] # NoRow /\ file.rows[j].deleted
            /\ file.rows[j].seq <= file'.floor[feed] /\ j \in Items
        BY <1>0, <2>3, <3>2
      <4>2. file.rows[j].seq \in Nat
        BY <1>0, <4>1, FileFields DEF Row
      <4> QED
        BY <1>0, <2>4, <2>5, <4>1, <4>2 DEF GoneBy, Live
    <3> QED
      BY <3>1, <3>2
  <2> QED
    BY <2>6, <2>7
<1>3. CASE Restore
  <2> DEFINE e == file.epoch + 1
  <2>1. e \in Nat \ {0} /\ e # 1 /\ file' = Ensured(FirstFile, e, e)
    BY <1>0, <1>3 DEF Restore
  <2> HIDE DEF e
  <2>2. file'.epoch = e
    <3>1. file'.epoch = IF FirstFile.witness # NoWitness /\ FirstFile.witness # e THEN e
                        ELSE FirstFile.epoch
      BY <2>1, FirstFileIsOK, EnsuredIsOK
    <3>2. FirstFile.witness = 1
      BY DEF FirstFile
    <3> QED
      BY <2>1, <3>1, <3>2 DEF NoWitness
  <2>3. c.epoch < e
    BY <1>0 DEF Reached, e
  <2> QED
    BY <1>0, <2>1, <2>2, <2>3 DEF Refused, IsForeignTo
<1> QED
    BY <1>1, <1>2, <1>3 DEF Service

LEMMA ServiceWhole == WholeInv /\ Service => WholeInv'
<1> SUFFICES ASSUME WholeInv, Service PROVE WholeInv'
    OBVIOUS
<1>1. IInv' /\ GoneMoves /\ UNCHANGED <<store, settings, run>>
    BY ServicePreserves, ServiceGone DEF WholeInv, Service, Write, Prune, Restore
<1>2. Stamped' /\ (meta'.cursor # NoCursor => ~meta'.cursor.sweep)
    BY <1>1 DEF WholeInv, Stamped, Doomed, store, run
<1>3. GoneIsDropped'
  <2> SUFFICES ASSUME Served', NEW i \in Mine, GoneBy(i, meta.cursor.seq)'
               PROVE  Doomed(i, meta.resyncGen)
    BY <1>1 DEF GoneIsDropped, Doomed, store, GoneBy
  <2>1. meta.cursor \in Cursor /\ Reached(meta.cursor.seq, meta.cursor.epoch) /\ ~meta.cursor.sweep
    BY <1>1, MetaFields DEF WholeInv, IInv, Known, Served, store
  <2>2. Served /\ GoneBy(i, meta.cursor.seq)
    BY <1>1, <2>1 DEF GoneMoves, Served, store
  <2> QED
    BY <2>2 DEF WholeInv, GoneIsDropped
<1>4. PageDrops'
  <2> SUFFICES ASSUME HasPage
               PROVE  PageDrops'
    BY <1>1 DEF PageDrops, HasPage, run
  <2>1. answer.cursor \in Cursor /\ Reached(answer.cursor.seq, answer.cursor.epoch)
    BY PageFields, Stays DEF WholeInv, IInv, PageOK
  <2>2. ~answer.more /\ ~answer.cursor.sweep
    BY DEF WholeInv, PageDrops
  <2>3. ASSUME ~Refused(file', feed, answer.cursor), NEW i \in Mine, GoneBy(i, answer.cursor.seq)'
        PROVE  answer.upserts[i] = 0 /\ (i \in answer.deletes \/ Doomed(i, gen))
    <3>1. ~Refused(file, feed, answer.cursor) /\ GoneBy(i, answer.cursor.seq)
      BY <1>1, <2>1, <2>2, <2>3 DEF GoneMoves, GoneBy, run
    <3> QED
      BY <3>1 DEF WholeInv, PageDrops
  <2> QED
    BY <1>1, <2>2, <2>3 DEF PageDrops, Doomed, GoneBy, run, store
<1> QED
    BY <1>1, <1>2, <1>3, <1>4 DEF WholeInv

\* Steps that leave the records alone and have no page on its way.
LEMMA FrameWhole ==
    ASSUME WholeInv,
           \/ Pull \/ Begin \/ Mark \/ Ask \/ Restart \/ ServiceChecks \/ AnswerLost
           \/ GiveUp \/ MarkStale \/ Unmark \/ Reload
    PROVE  WholeInv'
<1>0. IInv /\ IInv' /\ FrameOK /\ meta \in Meta
    BY FramePreserves DEF WholeInv, IInv, TypeOK
<1> USE DEF store, settings
<1>1. UNCHANGED <<file, records>> /\ ~HasPage'
    BY DEF Pull, Begin, Mark, Ask, Restart, ServiceChecks, AnswerLost, GiveUp, MarkStale,
           Unmark, Reload, Over, HasPage
<1>2. PageDrops'
    BY <1>1 DEF PageDrops
<1>3. CASE Pull \/ Ask \/ ServiceChecks \/ AnswerLost \/ GiveUp \/ Reload
  <2>1. meta' = meta /\ pc' \notin {"mark", "unmark"}
    BY <1>3 DEF Pull, Ask, ServiceChecks, AnswerLost, GiveUp, Reload, Over
  <2> QED
    BY <1>0, <1>1, <1>2, <2>1 DEF WholeInv, Stamped, Doomed, GoneIsDropped, GoneBy, Served
<1>4. CASE Begin
  <2>1. meta' = meta /\ pc' # "unmark"
    BY <1>4 DEF Begin
  <2>2. pc' = "mark" => \A i \in Items : Doomed(i, gen)'
    BY <1>1, <1>4, FreshIsNew DEF Begin, WholeInv, Stamped, Doomed
  <2> QED
    BY <1>0, <1>1, <1>2, <2>1, <2>2 DEF WholeInv, Stamped, Doomed, GoneIsDropped, GoneBy, Served
<1>5. CASE Mark
  <2>1. /\ pc = "mark" /\ pc' = "ask" /\ gen' = gen
        /\ meta'.cursor = NoCursor /\ meta'.resyncGen = gen
    BY <1>0, <1>5 DEF Mark, Meta
  <2> QED
    BY <1>0, <1>1, <1>2, <2>1 DEF WholeInv, Stamped, Doomed, GoneIsDropped, Served
<1>6. CASE Restart
  <2>1. pc' = "ask" /\ meta'.cursor = NoCursor /\ meta'.resyncGen = FreshGen
    BY <1>0, <1>6 DEF Restart, Meta
  <2> QED
    BY <1>0, <1>1, <1>2, <2>1, FreshIsNew DEF WholeInv, Stamped, Doomed, GoneIsDropped, Served
<1>7. CASE MarkStale
  <2>1. pc' = "idle" /\ meta'.cursor = meta.cursor /\ meta'.resyncGen = meta.resyncGen
    BY <1>0, <1>7 DEF MarkStale, Over, Meta
  <2> QED
    BY <1>0, <1>1, <1>2, <2>1 DEF WholeInv, Stamped, Doomed, GoneIsDropped, GoneBy, Served
<1>8. CASE Unmark
  <2>1. /\ pc = "unmark" /\ pc' = "idle"
        /\ meta'.cursor = meta.cursor /\ meta'.resyncGen = NoGen
    BY <1>0, <1>8 DEF Unmark, Over, Meta
  <2>2. gen = meta.resyncGen /\ \A i \in Items : records[i] # NoRec => records[i].gen = gen
    BY <1>0, <2>1 DEF FrameOK, WholeInv, Stamped
  <2>3. \A i \in Mine : i \in Items
    BY DEF Mine, Visible
  <2>4. \A i \in Items : Doomed(i, meta.resyncGen) => Doomed(i, NoGen)
    BY <2>2 DEF Doomed
  <2>5. GoneIsDropped'
    BY <1>1, <2>1, <2>3, <2>4 DEF WholeInv, GoneIsDropped, GoneBy, Served, Doomed
  <2> QED
    BY <1>0, <1>1, <1>2, <2>1, <2>5 DEF WholeInv, Stamped
<1> QED
    BY <1>3, <1>4, <1>5, <1>6, <1>7, <1>8

\* The whole sweep is one page, and a page after a position that was served
\* has everything that went since.
LEMMA AnswersWhole == OnePageSweeps /\ WholeInv /\ ServiceAnswers => WholeInv'
<1> SUFFICES ASSUME OnePageSweeps, WholeInv, ServiceAnswers PROVE WholeInv'
    OBVIOUS
<1>0. IInv /\ IInv' /\ UNCHANGED <<file, store, since, gen>> /\ pc = "checked" /\ pc' = "answered"
    BY AnswersPreserves DEF WholeInv, ServiceAnswers
<1>1. Stamped' /\ GoneIsDropped' /\ (meta'.cursor # NoCursor => ~meta'.cursor.sweep)
    BY <1>0 DEF WholeInv, Stamped, Doomed, GoneIsDropped, GoneBy, Served, store
<1>2. CASE Refused(file, feed, since)
    BY <1>0, <1>1, <1>2 DEF ServiceAnswers, WholeInv, PageDrops, HasPage
<1>3. CASE ~Refused(file, feed, since)
  <2> DEFINE listed == PageItems(file, feed, me, since)
  <2>0. file \in File /\ LogOK(file)
    BY <1>0 DEF IInv, TypeOK
  <2>1. PICK last : IsRowOf(file, listed, since, last) /\ answer' = Page(last)
    BY <1>3 DEF IsRowOf, ServiceAnswers
  <2>2. /\ since \in Cursor \cup {NoCursor} /\ since = meta.cursor /\ gen = meta.resyncGen
        /\ AfterOf(since) <= file.seq /\ (IsSweep(since) => gen # NoGen)
    BY <1>0, <1>3, AskedFrom
  <2>3. /\ answer'.cursor = NextCursor(file, feed, me, since, last)
        /\ answer'.more = More(file, feed, me, since)
        /\ answer'.deletes = {i \in listed : ~Live(file, i)}
        /\ \A i \in Items : answer'.upserts[i] = IF i \in listed THEN Shown(file, i) ELSE 0
    BY <2>1, PageFieldsOf
  <2>4. ~More(file, feed, me, since) /\ listed = Ahead(file, feed, me, since)
    BY OnePage, LastPageIsWhole DEF OnePageSweeps
  <2>5. last \in Nat
    BY <2>0, <2>1, <2>2, PagePosition, PullAssumption
  <2>6. ~answer'.more /\ ~answer'.cursor.sweep /\ answer'.cursor.seq \in Nat
    BY <2>0, <2>3, <2>4, <2>5, NextCursorIsOK, PullAssumption DEF Cursor
  <2>7. ASSUME NEW i \in Mine, GoneBy(i, answer'.cursor.seq)
        PROVE  answer'.upserts[i] = 0 /\ (i \in answer'.deletes \/ Doomed(i, gen))
    <3>1. i \in Items /\ i \in Visible(feed, me) /\ ~Live(file, i)
      BY <2>7 DEF Mine, Visible, GoneBy
    <3>2. answer'.upserts[i] = 0
      <4>1. Shown(file, i) = 0
        BY <3>1 DEF Shown
      <4> HIDE DEF listed
      <4> QED
        BY <2>3, <3>1, <4>1
    <3>3. CASE since = NoCursor
      BY <1>0, <2>2, <3>1, <3>2, <3>3 DEF WholeInv, Stamped, IsSweep
    <3>4. CASE since # NoCursor /\ i \in listed
      BY <2>3, <3>1, <3>2, <3>4
    <3>5. CASE since # NoCursor /\ i \notin listed
      <4>1. ~since.sweep /\ Served
        BY <1>3, <2>2, <3>5 DEF WholeInv, Served
      <4>2. GoneBy(i, meta.cursor.seq)
        BY <2>2, <2>4, <3>1, <3>5, <4>1 DEF Ahead, GoneBy, IsSweep, AfterOf
      <4> QED
        BY <2>2, <3>2, <4>1, <4>2 DEF WholeInv, GoneIsDropped
    <3> QED
      BY <3>3, <3>4, <3>5
  <2>8. PageDrops'
    BY <1>0, <2>6, <2>7 DEF PageDrops, GoneBy, Doomed, store
  <2> QED
    BY <1>0, <1>1, <2>8 DEF WholeInv
<1> QED
    BY <1>2, <1>3

LEMMA ApplyWhole == WholeInv /\ Apply => WholeInv'
<1> SUFFICES ASSUME WholeInv, Apply PROVE WholeInv'
    OBVIOUS
<1>0. IInv /\ IInv' /\ HasPage /\ file' = file
    BY ApplyPreserves DEF WholeInv, Apply, HasPage
<1>1. /\ answer \in Answers /\ answer.status = "ok" /\ gen = meta.resyncGen
      /\ ~answer.more /\ ~answer.cursor.sweep
    BY <1>0, Stays DEF WholeInv, PageDrops
<1>2. /\ answer.cursor # NoCursor
      /\ meta'.cursor = answer.cursor /\ meta'.resyncGen = gen
      /\ \A i \in Items : answer.upserts[i] = 0 =>
           records'[i] = IF i \in answer.deletes THEN NoRec ELSE records[i]
    BY <1>0, <1>1, Applied, PageFields
<1>3. pc' \in {"prune", "idle"}
    BY <1>1 DEF Apply, Over
<1>4. Stamped' /\ PageDrops'
    BY <1>2, <1>3 DEF Stamped, PageDrops, HasPage
<1>5. GoneIsDropped'
  <2> SUFFICES ASSUME ~Refused(file, feed, answer.cursor), NEW i \in Mine,
                      GoneBy(i, answer.cursor.seq)
               PROVE  records'[i] = NoRec \/ (gen # NoGen /\ records'[i].gen # gen)
    BY <1>0, <1>2 DEF GoneIsDropped, Served, GoneBy, Doomed
  <2>1. answer.upserts[i] = 0 /\ (i \in answer.deletes \/ Doomed(i, gen)) /\ i \in Items
    BY <1>0 DEF WholeInv, PageDrops, Mine, Visible
  <2> QED
    BY <1>2, <2>1 DEF Doomed
<1> QED
    BY <1>0, <1>1, <1>2, <1>4, <1>5 DEF WholeInv

\* Taking records away leaves nothing more of what is gone.
LEMMA FewerWhole ==
    ASSUME WholeInv, IInv', UNCHANGED <<file, meta>>, ~HasPage', pc' # "mark",
           \A i \in Items : records'[i] \in {records[i], NoRec},
           pc' = "unmark" => \A i \in Items : records'[i] # NoRec => records'[i].gen = gen'
    PROVE  WholeInv'
<1>1. \A g : \A i \in Items : Doomed(i, g) => records'[i] = NoRec \/ (g # NoGen /\ records'[i].gen # g)
    BY DEF Doomed
<1>2. \A i \in Mine : i \in Items
    BY DEF Mine, Visible
<1>3. Stamped'
    BY <1>1 DEF WholeInv, Stamped, Doomed
<1>4. GoneIsDropped'
    BY <1>1, <1>2 DEF WholeInv, GoneIsDropped, Served, GoneBy, Doomed
<1> QED
    BY <1>3, <1>4 DEF WholeInv, PageDrops

LEMMA InitWhole == Init => WholeInv
<1> SUFFICES ASSUME Init PROVE WholeInv
    OBVIOUS
<1>1. meta.cursor = NoCursor /\ meta.resyncGen = NoGen /\ pc = "idle"
    BY DEF Init, Fresh
<1> QED
    BY <1>1, InitIInv DEF WholeInv, Stamped, GoneIsDropped, Served, PageDrops, HasPage

LEMMA NextWhole == OnePageSweeps /\ WholeInv /\ [Next]_vars => WholeInv'
<1> SUFFICES ASSUME OnePageSweeps, WholeInv, [Next]_vars PROVE WholeInv'
    OBVIOUS
<1>0. IInv /\ IInv'
    BY NextIInv DEF WholeInv
<1>1. CASE Service
    BY <1>1, ServiceWhole
<1>2. CASE ServiceAnswers
    BY <1>2, AnswersWhole
<1>3. CASE \/ Pull \/ Begin \/ Mark \/ Ask \/ Restart \/ ServiceChecks \/ AnswerLost
          \/ GiveUp \/ MarkStale \/ Unmark \/ Reload
    BY <1>3, FrameWhole
<1>4. CASE Apply
    BY <1>4, ApplyWhole
<1>5. CASE ApplyFull
  <2>1. /\ HasPage /\ records' = WithoutDeletes(answer) /\ UNCHANGED <<file, meta>>
        /\ pc' = "stale"
    BY <1>5 DEF ApplyFull, HasPage
  <2>2. \A i \in Items : records'[i] \in {records[i], NoRec}
    BY <1>0, <2>1, Stays
  <2> QED
    BY <1>0, <2>1, <2>2, FewerWhole DEF HasPage
<1>6. CASE PruneStale
  <2>1. UNCHANGED <<file, meta, gen>> /\ pc' = "unmark"
    BY <1>6 DEF PruneStale
  <2>2. /\ \A i \in Items : records'[i] \in {records[i], NoRec}
        /\ \A i \in Items : records'[i] # NoRec => records'[i].gen = gen'
    BY <1>6 DEF PruneStale
  <2> QED
    BY <1>0, <2>1, <2>2, FewerWhole DEF HasPage
<1>7. CASE UNCHANGED vars
    BY <1>0, <1>7 DEF vars, store, settings, run, WholeInv, Stamped, Doomed, GoneIsDropped,
                      GoneBy, Served, PageDrops, HasPage
<1> QED
    BY <1>1, <1>2, <1>3, <1>4, <1>5, <1>6, <1>7 DEF Next, Answering, Running, Failing

\* The store is the feed up to its cursor (LOCAL_DB_DESIGN.md): whenever no
\* resync is unfinished and the service would serve the stored cursor, every
\* item of the page is stored as the service has it, rightly absent, or changed
\* after that cursor.  For any number of items that fit one page of a sweep; a
\* longer sweep loses a deletion between its pages (MCChangeLogGhost.cfg).
THEOREM StoreIsTheFeed == ASSUME OnePageSweeps PROVE Spec => []StoreMirrorsLog
<1>1. WholeInv => StoreMirrorsLog
  <2> SUFFICES ASSUME WholeInv, Served, meta.resyncGen = NoGen, NEW i \in Mine,
                      ~(file.rows[i] # NoRow /\ file.rows[i].seq > meta.cursor.seq)
               PROVE  Mirrors(i)
    BY DEF StoreMirrorsLog
  <2>1. /\ all = TRUE /\ file \in File /\ file.epoch > 0 /\ i \in Items
        /\ meta.cursor # NoCursor /\ meta.cursor.seq \in Nat
    BY MetaFields DEF WholeInv, IInv, TypeOK, LogOK, FrameOK, Mine, Visible, Served
  <2>2. CASE Live(file, i)
    <3>1. file.rows[i].seq \in Nat /\ meta.cursor.epoch = file.epoch
      BY <2>1, <2>2, FileFields DEF Live, Row, Served, Refused, IsForeignTo
    <3>2. file.rows[i].seq <= meta.cursor.seq
      BY <2>1, <2>2, <3>1 DEF Live
    <3> QED
      BY <2>1, <2>2, <3>1, <3>2 DEF WholeInv, IInv, Listed, Mirrors, Keeps
  <2>3. CASE ~Live(file, i)
    BY <2>3 DEF WholeInv, GoneIsDropped, GoneBy, Doomed, Mirrors
  <2> QED
    BY <2>2, <2>3
<1>2. Spec => []WholeInv
    BY InitWhole, NextWhole, PTL DEF Spec
<1> QED
    BY <1>1, <1>2, PTL

(***************************************************************************)
(* LocalDb: types.                                                         *)
(***************************************************************************)

PullTypes ==
    /\ TypeOK /\ LogOK(file)
    /\ pc = "answered" => answer \in Answers

LocalTypes ==
    /\ PullTypes
    /\ uses \in Pages
    /\ joined \in BOOLEAN
    /\ switching \in [Calls -> {"idle", "asked", "forget", "pull", "trim"}]
    /\ clearing \in {"idle", "waiting", "reset"}
    /\ reading \in Reads \cup {NoRead}
    /\ strays \subseteq Items

\* A page, stored whole or without its upserts, leaves records.
LEMMA StoredType ==
    ASSUME PullTypes, pc = "answered", answer.status = "ok"
    PROVE  /\ WithoutDeletes(answer) \in [Items -> Record \cup {NoRec}]
           /\ WithUpserts(WithoutDeletes(answer), answer) \in [Items -> Record \cup {NoRec}]
           /\ answer.cursor \in Cursor /\ answer.more \in BOOLEAN
<1>1. /\ answer \in Answers /\ records \in [Items -> Record \cup {NoRec}]
      /\ gen \in Gens \cup {NoGen}
    BY DEF PullTypes, TypeOK
<1>2. /\ answer.upserts \in [Items -> Nat] /\ answer.cursor.epoch \in Nat
      /\ answer.cursor \in Cursor /\ answer.more \in BOOLEAN
    BY <1>1, PageFields
<1>3. WithoutDeletes(answer) \in [Items -> Record \cup {NoRec}]
    BY <1>1 DEF WithoutDeletes
<1> DEFINE recs == WithoutDeletes(answer)
<1> HIDE DEF recs
<1>4. ASSUME NEW i \in Items
      PROVE  /\ recs[i] \in Record \cup {NoRec}
             /\ [seq |-> answer.upserts[i], epoch |-> answer.cursor.epoch, gen |-> gen] \in Record
    BY <1>1, <1>2, <1>3 DEF recs, Record
<1>5. WithUpserts(recs, answer) \in [Items -> Record \cup {NoRec}]
    BY <1>4 DEF WithUpserts
<1> QED
    BY <1>2, <1>3, <1>5 DEF recs

\* The service, and the steps of a pull, keep the types.
LEMMA PullKeepsTypes ==
    ASSUME PullTypes,
           \/ Service \/ Answering \/ Pull \/ RunOn \/ GiveUp \/ MarkStale
           \/ AnswerLost \/ ApplyFull
    PROVE  PullTypes'
<1> USE DEF store, settings, run
<1>0. /\ file \in File /\ LogOK(file)
      /\ records \in [Items -> Record \cup {NoRec}] /\ meta \in Meta
      /\ all \in BOOLEAN /\ kept \in SUBSET Items /\ pc \in Places
      /\ since \in Cursor \cup {NoCursor} /\ gen \in Gens \cup {NoGen}
      /\ restarts \in {0, 1} /\ answer \in Answers \cup {NoAnswer}
    BY DEF PullTypes, TypeOK
<1>1. CASE Service
  <2>1. file' \in File /\ LogOK(file') /\ UNCHANGED <<store, settings, run>>
    BY <1>0, <1>1, ServiceMoves
  <2> QED
    BY <2>1 DEF PullTypes, TypeOK
<1>2. CASE Pull \/ Ask \/ ServiceChecks \/ AnswerLost
  <2>1. [status |-> "410"] \in Answers /\ [status |-> "unreachable"] \in Answers
    BY DEF Answers
  <2>2. /\ UNCHANGED <<file, records, meta, all, kept, since, gen, restarts>>
        /\ pc' \in Places /\ answer' \in Answers \cup {NoAnswer}
        /\ pc' = "answered" => answer' \in Answers
    BY <1>0, <1>2, <2>1 DEF Pull, Ask, ServiceChecks, AnswerLost, Places
  <2> QED
    BY <1>0, <2>2 DEF PullTypes, TypeOK
<1>3. CASE ServiceAnswers
  <2>1. answer' \in Answers
    <3>1. CASE Refused(file, feed, since)
      BY <1>3, <3>1 DEF ServiceAnswers, Answers
    <3>2. CASE ~Refused(file, feed, since)
      <4>1. PICK last \in {AfterOf(since)} \cup
                          {file.rows[i].seq : i \in PageItems(file, feed, me, since)} :
              answer' = Page(last)
        BY <1>3, <3>2 DEF ServiceAnswers
      <4>2. last \in Nat
        BY <1>0, <4>1, PositionType, PageIsAhead
      <4> QED
        BY <1>0, <4>1, <4>2, PageType
    <3> QED
      BY <3>1, <3>2
  <2>2. UNCHANGED <<file, records, meta, all, kept, since, gen, restarts>> /\ pc' = "answered"
    BY <1>3 DEF ServiceAnswers
  <2> QED
    BY <1>0, <2>1, <2>2 DEF PullTypes, TypeOK, Places
<1>4. CASE Begin
  <2>1. /\ UNCHANGED <<file, records, meta, all, kept, answer>>
        /\ since' = meta.cursor /\ restarts' = 0 /\ pc' \in {"ask", "mark"}
        /\ gen' \in {meta.resyncGen, FreshGen}
    BY <1>4 DEF Begin
  <2>2. meta.cursor \in Cursor \cup {NoCursor} /\ meta.resyncGen \in Gens \cup {NoGen}
    BY <1>0 DEF Meta
  <2> QED
    BY <1>0, <2>1, <2>2, FreshIsNew DEF PullTypes, TypeOK, Places
<1>5. CASE Mark \/ Restart
  <2>1. PICK g \in Gens \cup {NoGen} :
             meta' = [meta EXCEPT !.cursor = NoCursor, !.resyncGen = g]
    BY <1>0, <1>5, FreshIsNew DEF Mark, Restart
  <2>2. meta' \in Meta
    BY <1>0, <2>1 DEF Meta
  <2>3. /\ UNCHANGED <<file, records, all, kept>> /\ pc' = "ask"
        /\ since' \in {since, NoCursor} /\ gen' \in {gen, FreshGen}
        /\ restarts' \in {restarts, 1} /\ answer' \in {answer, NoAnswer}
    BY <1>5 DEF Mark, Restart
  <2> QED
    BY <1>0, <2>2, <2>3, FreshIsNew DEF PullTypes, TypeOK, Places
<1>6. CASE GiveUp \/ MarkStale \/ Unmark
  <2>1. meta' \in Meta
    BY <1>0, <1>6 DEF GiveUp, MarkStale, Unmark, Meta
  <2>2. UNCHANGED <<file, records, all, kept>> /\ Over
    BY <1>6 DEF GiveUp, MarkStale, Unmark
  <2> QED
    BY <1>0, <2>1, <2>2 DEF PullTypes, TypeOK, Places, Over
<1>7. CASE Apply
  <2>1. pc = "answered" /\ answer.status = "ok"
    BY <1>7 DEF Apply
  <2>2. /\ records' \in [Items -> Record \cup {NoRec}]
        /\ answer.cursor \in Cursor /\ answer.more \in BOOLEAN
    BY <1>7, <2>1, StoredType DEF Apply
  <2>3. meta' \in Meta
    BY <1>0, <1>7, <2>2 DEF Apply, Meta
  <2>4. /\ UNCHANGED <<file, all, kept>> /\ pc' \in {"ask", "prune", "idle"}
        /\ since' \in {answer.cursor, NoCursor} /\ gen' \in {gen, NoGen}
        /\ restarts' \in {restarts, 0} /\ answer' = NoAnswer
    BY <1>7, <2>2 DEF Apply, Over
  <2> QED
    BY <1>0, <2>2, <2>3, <2>4 DEF PullTypes, TypeOK, Places
<1>8. CASE ApplyFull
  <2>1. /\ records' \in [Items -> Record \cup {NoRec}]
        /\ UNCHANGED <<file, meta, all, kept, since, gen, restarts>>
        /\ pc' = "stale" /\ answer' = NoAnswer
    BY <1>8, StoredType DEF ApplyFull
  <2> QED
    BY <1>0, <2>1 DEF PullTypes, TypeOK, Places
<1>9. CASE PruneStale
  <2>1. /\ records' \in [Items -> Record \cup {NoRec}]
        /\ UNCHANGED <<file, meta, all, kept, since, gen, restarts, answer>> /\ pc' = "unmark"
    BY <1>0, <1>9 DEF PruneStale
  <2> QED
    BY <1>0, <2>1 DEF PullTypes, TypeOK, Places
<1> QED
    BY <1>1, <1>2, <1>3, <1>4, <1>5, <1>6, <1>7, <1>8, <1>9 DEF Answering, RunOn

LEMMA LocalInitTypes == LocalInit => LocalTypes
<1> SUFFICES ASSUME LocalInit PROVE LocalTypes
    OBVIOUS
<1> USE DEF LocalInit, Fresh
<1>1. file \in File /\ LogOK(file)
    BY FirstFileIsOK
<1>2. meta \in Meta
    BY DEF Meta
<1>3. PullTypes
    BY <1>1, <1>2 DEF PullTypes, TypeOK, Places
<1> QED
    BY <1>3 DEF LocalTypes

\* The calls of keepAll move one at a time.
LEMMA SwitchingType ==
    ASSUME LocalTypes, NEW k \in Calls, NEW to \in {"idle", "asked", "forget", "pull", "trim"},
           Goes(k, to)
    PROVE  /\ switching' \in [Calls -> {"idle", "asked", "forget", "pull", "trim"}]
           /\ switching'[k] = to
           /\ \A j \in Calls : j # k => switching'[j] = switching[j]
    BY DEF LocalTypes, Goes

LEMMA ReadFields ==
    ASSUME LocalTypes, reading # NoRead
    PROVE  /\ reading \in Reads /\ reading.item \in Items
           /\ reading.why \in {"keep", "through"} /\ reading.at \in {"asked", "answered", "differs"}
           /\ reading.seq \in Nat /\ reading.epoch \in Nat
    BY DEF LocalTypes, Reads

LEMMA RequestedIsAnItem == LocalTypes => Requested \subseteq Items
    BY ReadFields DEF Requested

\* The switch, by its steps.
LEMMA SwitchTypes ==
    ASSUME LocalTypes, NEW k \in Calls,
           Switch(k) \/ Decide(k) \/ Trim(k) \/ Forget(k) \/ PullAll(k)
    PROVE  LocalTypes'
<1> USE DEF LocalTypes, store, settings, run, vars
<1>1. switching' \in [Calls -> {"idle", "asked", "forget", "pull", "trim"}]
    BY SwitchingType DEF Switch, Decide, Trim, Forget, PullAll
<1>2. CASE Switch(k) \/ Decide(k)
  <2>1. UNCHANGED <<file, records, meta, kept, run>> /\ all' \in BOOLEAN
    BY <1>2 DEF Switch, Decide, PullTypes, TypeOK
  <2>2. PullTypes'
    BY <2>1 DEF PullTypes, TypeOK
  <2>3. strays' \subseteq Items
    BY <1>2, RequestedIsAnItem DEF Switch, Decide
  <2>4. UNCHANGED <<uses, joined, clearing, reading>>
    BY <1>2 DEF Switch, Decide
  <2> QED
    BY <1>1, <2>2, <2>3, <2>4
<1>3. CASE Trim(k)
  <2>1. records' \in [Items -> Record \cup {NoRec}]
    BY <1>3 DEF Trim, PullTypes, TypeOK
  <2>2. PullTypes'
    BY <1>3, <2>1 DEF Trim, PullTypes, TypeOK
  <2> QED
    BY <1>1, <1>3, <2>2 DEF Trim
<1>4. CASE Forget(k)
  <2>1. meta' \in Meta
    BY <1>4 DEF Forget, PullTypes, TypeOK, Meta
  <2>2. PullTypes'
    BY <1>4, <2>1 DEF Forget, PullTypes, TypeOK
  <2> QED
    BY <1>1, <1>4, <2>2 DEF Forget
<1>5. CASE PullAll(k)
  <2>1. /\ UNCHANGED <<file, records, meta, all, kept, since, gen, restarts, answer>>
        /\ pc' \in {pc, "begin"} /\ joined' \in BOOLEAN
    BY <1>5 DEF PullAll
  <2>2. PullTypes'
    BY <2>1 DEF PullTypes, TypeOK, Places
  <2> QED
    BY <1>1, <1>5, <2>1, <2>2 DEF PullAll
<1> QED
    BY <1>2, <1>3, <1>4, <1>5

\* Choosing, dropping and reading.
LEMMA ReadTypes ==
    ASSUME LocalTypes,
           \/ \E i \in Items : Choose(i) \/ Drop(i) \/ ReadThrough(i)
           \/ RouteAnswers \/ Compare \/ PutOne
    PROVE  LocalTypes'
<1> USE DEF store, settings, run, vars
<1>1. ASSUME NEW i \in Items, Choose(i) \/ ReadThrough(i) PROVE LocalTypes'
  <2>1. \A why \in {"keep", "through"} : Asked(why, i) \in Reads
    BY DEF Asked, Reads
  <2>2. reading' \in Reads \cup {NoRead}
    BY <1>1, <2>1 DEF Choose, ReadThrough, LocalTypes
  <2>3. PullTypes'
    BY <1>1 DEF Choose, ReadThrough, LocalTypes, PullTypes, TypeOK
  <2> QED
    BY <1>1, <2>2, <2>3 DEF Choose, ReadThrough, LocalTypes
<1>2. ASSUME NEW i \in Items, Drop(i) PROVE LocalTypes'
  <2>1. records' \in [Items -> Record \cup {NoRec}] /\ kept' \in SUBSET Items
    BY <1>2 DEF Drop, LocalTypes, PullTypes, TypeOK
  <2>2. PullTypes'
    BY <1>2, <2>1 DEF Drop, LocalTypes, PullTypes, TypeOK
  <2> QED
    BY <1>2, <2>2 DEF Drop, LocalTypes, page
<1>3. CASE RouteAnswers
  <2>1. reading \in Reads /\ reading.item \in Items /\ file \in File
    BY <1>3, ReadFields DEF RouteAnswers, LocalTypes, PullTypes, TypeOK
  <2>2. Live(file, reading.item) => file.rows[reading.item].seq \in Nat /\ file.epoch \in Nat
    BY <2>1, FileFields DEF Live, Row
  <2>3. reading' \in Reads \cup {NoRead}
    BY <1>3, <2>1, <2>2 DEF RouteAnswers, Reads
  <2> QED
    BY <1>3, <2>3 DEF RouteAnswers, LocalTypes, PullTypes, TypeOK
<1>4. CASE Compare
  <2>1. reading \in Reads
    BY <1>4, ReadFields DEF Compare
  <2>2. reading' \in Reads \cup {NoRead}
    BY <1>4, <2>1 DEF Compare, Reads
  <2> QED
    BY <1>4, <2>2 DEF Compare, LocalTypes, PullTypes, TypeOK
<1>5. CASE PutOne
  <2>1. /\ reading.item \in Items
        /\ [seq |-> reading.seq, epoch |-> reading.epoch, gen |-> NoGen] \in Record
    BY <1>5, ReadFields DEF PutOne, Record
  <2>2. records' \in [Items -> Record \cup {NoRec}]
    BY <1>5, <2>1 DEF PutOne, LocalTypes, PullTypes, TypeOK
  <2>3. PullTypes'
    BY <1>5, <2>2 DEF PutOne, LocalTypes, PullTypes, TypeOK
  <2> QED
    BY <1>5, <2>3 DEF PutOne, LocalTypes
<1> QED
    BY <1>1, <1>2, <1>3, <1>4, <1>5

LEMMA ResetTypes == LocalTypes /\ Reset => LocalTypes'
<1> SUFFICES ASSUME LocalTypes, Reset PROVE LocalTypes'
    OBVIOUS
<1>1. records' \in [Items -> Record \cup {NoRec}] /\ meta' \in Meta
    BY DEF Reset, Meta
<1>2. PullTypes'
    BY <1>1 DEF Reset, LocalTypes, PullTypes, TypeOK, settings, run
<1> QED
    BY <1>2 DEF Reset, LocalTypes

LEMMA LocalNextTypes == LocalTypes /\ [LocalNext]_allVars => LocalTypes'
<1> SUFFICES ASSUME LocalTypes, [LocalNext]_allVars PROVE LocalTypes'
    OBVIOUS
<1>1. CASE StartPull \/ StopPull \/ KeepPulling
  <2>1. PullTypes'
    BY <1>1, PullKeepsTypes DEF LocalTypes, StartPull, StopPull, KeepPulling
  <2>2. UNCHANGED <<uses, switching, clearing, reading, strays>> /\ joined' \in {joined, FALSE}
    BY <1>1 DEF StartPull, StopPull, KeepPulling, page
  <2> QED
    BY <2>1, <2>2 DEF LocalTypes
<1>2. CASE ClosePage
  <2>1. UNCHANGED <<file, records, meta, all, kept>> /\ Over
    BY <1>2 DEF ClosePage, store, settings
  <2>2. PullTypes'
    BY <2>1 DEF LocalTypes, PullTypes, TypeOK, Places, Over
  <2> QED
    BY <1>2, <2>2 DEF ClosePage, LocalTypes
<1>3. CASE \E k \in Calls : Switch(k) \/ Decide(k) \/ Trim(k) \/ Forget(k) \/ PullAll(k)
    BY <1>3, SwitchTypes
<1>4. CASE ClearAsked \/ Settled
  <2>1. UNCHANGED vars /\ UNCHANGED <<uses, joined, switching, reading, strays>>
        /\ clearing' \in {"waiting", "reset"}
    BY <1>4 DEF ClearAsked, Settled
  <2> QED
    BY <2>1 DEF LocalTypes, PullTypes, TypeOK, vars, store, settings, run
<1>5. CASE Reset
    BY <1>5, ResetTypes
<1>6. CASE \/ \E i \in Items : Choose(i) \/ Drop(i) \/ ReadThrough(i)
          \/ RouteAnswers \/ Compare \/ PutOne
    BY <1>6, ReadTypes
<1>7. CASE UNCHANGED allVars
    BY <1>7 DEF LocalTypes, PullTypes, TypeOK, allVars, page, vars, store, settings, run
<1> QED
    BY <1>1, <1>2, <1>3, <1>4, <1>5, <1>6, <1>7 DEF LocalNext

\* Every variable of the page's database keeps its type (db-client.js,
\* db-keep.js, db-through.js), whatever a page does at the same time.
THEOREM LocalTypeCorrect == LocalSpec => []LocalTypeOK
<1>1. LocalTypes => LocalTypeOK
    BY DEF LocalTypes, PullTypes, LocalTypeOK
<1> QED
    BY <1>1, LocalInitTypes, LocalNextTypes, PTL DEF LocalSpec

(***************************************************************************)
(* LocalDb: nothing but what is kept is stored.                            *)
(***************************************************************************)

\* A call of keepAll that will trim, unless everything is kept by then.
Trimming == \E k \in Calls : switching[k] \in {"asked", "trim"}

\* A record that nobody keeps is a stray or waits for a trim.
KeptOrTrimmed ==
    all \/ Trimming \/ \A i \in Items : records[i] # NoRec => i \in kept \cup strays

\* A request whose answer will be stored without another look at what is kept.
WillStore == reading # NoRead /\ (reading.why = "keep" \/ reading.at = "differs")

\* Its item is kept, or stopped being kept since.
ReadIsKept == WillStore => Keeps(reading.item) \/ reading.item \in strays

KeptInv == LocalTypes /\ KeptOrTrimmed /\ ReadIsKept

LEMMA InitKept == LocalInit => KeptInv
<1> SUFFICES ASSUME LocalInit PROVE KeptInv
    OBVIOUS
<1>1. LocalTypes
    BY LocalInitTypes
<1> QED
    BY <1>1 DEF LocalInit, Fresh, KeptInv, KeptOrTrimmed, ReadIsKept, WillStore

\* Steps that store nothing but what is kept, and leave the switch alone.
LEMMA QuietKept ==
    ASSUME KeptInv, LocalTypes', UNCHANGED <<settings, switching, strays>>,
           reading' \in {reading, NoRead},
           \A i \in Items : records'[i] # NoRec =>
                records[i] # NoRec \/ Keeps(i) \/ i \in strays
    PROVE  KeptInv'
<1> USE DEF KeptInv, settings
<1>1. KeptOrTrimmed'
    BY DEF KeptOrTrimmed, Trimming, Keeps
<1>2. ReadIsKept'
    BY DEF ReadIsKept, WillStore, Keeps
<1> QED
    BY <1>1, <1>2

\* A pull stores what is kept.
LEMMA PullStoresKept ==
    ASSUME PullTypes,
           \/ Service \/ Answering \/ Pull \/ RunOn \/ GiveUp \/ MarkStale
           \/ AnswerLost \/ ApplyFull
    PROVE  /\ UNCHANGED settings
           /\ \A i \in Items : records'[i] # NoRec => records[i] # NoRec \/ Keeps(i)
<1>1. CASE Service \/ Answering \/ Pull \/ Begin \/ Mark \/ Ask \/ Restart \/ Unmark
        \/ GiveUp \/ MarkStale \/ AnswerLost
    BY <1>1 DEF Service, Write, Prune, Restore, Answering, ServiceChecks, ServiceAnswers, Pull,
                Begin, Mark, Ask, Restart, Unmark, GiveUp, MarkStale, AnswerLost, store
<1>2. CASE Apply \/ ApplyFull
  <2>1. ASSUME NEW i \in Items
        PROVE  /\ WithoutDeletes(answer)[i] # NoRec => records[i] # NoRec
               /\ i \notin Kept(answer) =>
                    WithUpserts(WithoutDeletes(answer), answer)[i] = WithoutDeletes(answer)[i]
    BY DEF WithoutDeletes, WithUpserts
  <2>2. UNCHANGED settings
    BY <1>2 DEF Apply, ApplyFull
  <2>3. \/ records' = WithoutDeletes(answer)
        \/ records' = WithUpserts(WithoutDeletes(answer), answer)
    BY <1>2 DEF Apply, ApplyFull
  <2> QED
    BY <2>1, <2>2, <2>3 DEF Kept
<1>3. CASE PruneStale
    BY <1>3 DEF PruneStale
<1> QED
    BY <1>1, <1>2, <1>3 DEF RunOn

LEMMA SwitchKept ==
    ASSUME KeptInv, LocalTypes', NEW k \in Calls,
           Switch(k) \/ Decide(k) \/ Trim(k) \/ Forget(k) \/ PullAll(k)
    PROVE  KeptInv'
<1> USE DEF KeptInv, settings
<1>0. \A j \in Calls : j # k => switching'[j] = switching[j]
    BY SwitchingType DEF Switch, Decide, Trim, Forget, PullAll
<1>1. CASE Switch(k)
  <2>1. switching'[k] = "asked" /\ UNCHANGED <<kept, reading>> /\ all' = ~all
    BY <1>1, SwitchingType DEF Switch
  <2>2. strays' = IF all THEN strays \cup (Requested \ kept) ELSE strays
    BY <1>1 DEF Switch
  <2>3. KeptOrTrimmed'
    BY <2>1 DEF KeptOrTrimmed, Trimming
  <2>4. ReadIsKept'
    <3>1. CASE all
      <4>1. WillStore => reading.item \in Requested
        BY DEF WillStore, Requested
      <4> QED
        BY <2>1, <2>2, <3>1, <4>1 DEF ReadIsKept, WillStore, Keeps
    <3>2. CASE ~all
      <4>1. all' /\ Keeps(reading.item)'
        BY <2>1, <3>2 DEF Keeps
      <4> QED
        BY <4>1 DEF ReadIsKept
    <3> QED
      BY <3>1, <3>2
  <2> QED
    BY <2>3, <2>4
<1>2. CASE Decide(k)
  <2>1. UNCHANGED <<records, all, kept, reading, strays>> /\ (~all => switching'[k] = "trim")
    BY <1>2, SwitchingType DEF Decide, vars, store
  <2> QED
    BY <2>1 DEF KeptOrTrimmed, Trimming, ReadIsKept, WillStore, Keeps
<1>3. CASE Trim(k)
  <2>1. /\ \A i \in Items : records'[i] # NoRec => i \in kept
        /\ strays' = strays \cap Requested /\ UNCHANGED <<all, kept, reading>>
    BY <1>3 DEF Trim
  <2>2. WillStore => reading.item \in Requested
    BY DEF WillStore, Requested
  <2> QED
    BY <2>1, <2>2 DEF KeptOrTrimmed, ReadIsKept, WillStore, Keeps
<1>4. CASE Forget(k) \/ PullAll(k)
  <2>1. UNCHANGED <<records, all, kept, reading, strays>> /\ switching[k] \notin {"asked", "trim"}
    BY <1>4 DEF Forget, PullAll, store
  <2> QED
    BY <1>0, <2>1 DEF KeptOrTrimmed, Trimming, ReadIsKept, WillStore, Keeps
<1> QED
    BY <1>1, <1>2, <1>3, <1>4

LEMMA ReadKept ==
    ASSUME KeptInv, LocalTypes',
           \/ \E i \in Items : Choose(i) \/ Drop(i) \/ ReadThrough(i)
           \/ RouteAnswers \/ Compare \/ PutOne
    PROVE  KeptInv'
<1> USE DEF KeptInv, settings
<1>0. UNCHANGED <<all, switching>>
    BY DEF Choose, Drop, ReadThrough, RouteAnswers, Compare, PutOne, vars
<1>1. ASSUME NEW i \in Items, Choose(i) PROVE KeptInv'
  <2>1. UNCHANGED <<records, strays>> /\ kept' = kept \cup {i}
    BY <1>1 DEF Choose, store
  <2>2. reading' = reading \/ reading'.item = i
    BY <1>1 DEF Choose, Asked
  <2>3. ReadIsKept'
    BY <1>0, <2>1, <2>2 DEF ReadIsKept, WillStore, Keeps
  <2> QED
    BY <1>0, <2>1, <2>3 DEF KeptOrTrimmed, Trimming
<1>2. ASSUME NEW i \in Items, Drop(i) PROVE KeptInv'
  <2>1. /\ reading' = reading /\ kept' = kept \ {i}
        /\ ~all => strays' = (strays \ {i}) \cup (Requested \cap {i})
    BY <1>2 DEF Drop
  <2>2. ~all => records'[i] = NoRec /\ \A j \in Items : j # i => records'[j] = records[j]
    BY <1>2 DEF Drop, LocalTypes, PullTypes, TypeOK
  <2>3. KeptOrTrimmed'
    BY <1>0, <2>1, <2>2 DEF KeptOrTrimmed, Trimming
  <2>4. WillStore => reading.item \in Requested
    BY DEF WillStore, Requested
  <2>5. ReadIsKept'
    BY <1>0, <2>1, <2>4 DEF ReadIsKept, WillStore, Keeps
  <2> QED
    BY <2>3, <2>5
<1>3. ASSUME NEW i \in Items, ReadThrough(i) PROVE KeptInv'
  <2>1. /\ UNCHANGED <<records, kept, strays>>
        /\ reading'.why = "through" /\ reading'.at = "asked"
    BY <1>3 DEF ReadThrough, Asked, vars, store
  <2> QED
    BY <1>0, <2>1 DEF ReadIsKept, WillStore, KeptOrTrimmed, Trimming
<1>4. CASE RouteAnswers
  <2>1. reading \in Reads /\ reading # NoRead /\ UNCHANGED <<records, kept, strays>>
    BY <1>4, ReadFields DEF RouteAnswers, vars, store
  <2>2. \/ reading' = NoRead
        \/ reading'.why = reading.why /\ reading'.item = reading.item /\ reading'.at = "answered"
    BY <1>4, <2>1 DEF RouteAnswers, Reads
  <2> QED
    BY <1>0, <2>1, <2>2 DEF ReadIsKept, WillStore, KeptOrTrimmed, Trimming, Keeps
<1>5. CASE Compare
  <2>1. reading \in Reads /\ reading # NoRead /\ UNCHANGED <<records, kept, strays>>
    BY <1>5, ReadFields DEF Compare, vars, store
  <2>2. \/ reading' = NoRead
        \/ reading'.item = reading.item /\ Keeps(reading.item)
    BY <1>5, <2>1 DEF Compare, Reads
  <2> QED
    BY <1>0, <2>1, <2>2 DEF ReadIsKept, WillStore, KeptOrTrimmed, Trimming, Keeps
<1>6. CASE PutOne
  <2>1. /\ reading.item \in Items /\ (Keeps(reading.item) \/ reading.item \in strays)
    BY <1>6, ReadFields DEF PutOne, ReadIsKept, WillStore
  <2>2. \A j \in Items : j # reading.item => records'[j] = records[j]
    BY <1>6 DEF PutOne, LocalTypes, PullTypes, TypeOK
  <2>3. UNCHANGED <<settings, strays>> /\ reading' = NoRead
    BY <1>6 DEF PutOne
  <2> QED
    BY <1>0, <2>1, <2>2, <2>3, QuietKept
<1> QED
    BY <1>1, <1>2, <1>3, <1>4, <1>5, <1>6

LEMMA NextKept == KeptInv /\ [LocalNext]_allVars => KeptInv'
<1> SUFFICES ASSUME KeptInv, [LocalNext]_allVars PROVE KeptInv'
    OBVIOUS
<1>0. LocalTypes /\ LocalTypes'
    BY LocalNextTypes DEF KeptInv
<1>1. CASE StartPull \/ StopPull \/ KeepPulling
  <2>1. /\ UNCHANGED settings
        /\ \A i \in Items : records'[i] # NoRec => records[i] # NoRec \/ Keeps(i)
    BY <1>0, <1>1, PullStoresKept DEF LocalTypes, StartPull, StopPull, KeepPulling
  <2>2. UNCHANGED <<switching, reading, strays>>
    BY <1>1 DEF StartPull, StopPull, KeepPulling, page
  <2> QED
    BY <1>0, <2>1, <2>2, QuietKept
<1>2. CASE ClosePage
  <2>1. /\ UNCHANGED <<all, kept, records>> /\ reading' = NoRead
        /\ ~all /\ Trimming => strays' = strays \cup (Items \ kept)
        /\ all \/ ~Trimming => strays' = strays
    BY <1>2 DEF ClosePage, Trimming, settings, store
  <2>2. KeptOrTrimmed'
    BY <2>1 DEF KeptInv, KeptOrTrimmed
  <2>3. ReadIsKept'
    BY <2>1 DEF ReadIsKept, WillStore
  <2> QED
    BY <1>0, <2>2, <2>3 DEF KeptInv
<1>3. CASE \E k \in Calls : Switch(k) \/ Decide(k) \/ Trim(k) \/ Forget(k) \/ PullAll(k)
    BY <1>0, <1>3, SwitchKept
<1>4. CASE ClearAsked \/ Settled
  <2>1. UNCHANGED <<settings, switching, records, reading, strays>>
    BY <1>4 DEF ClearAsked, Settled, vars, store
  <2> QED
    BY <1>0, <2>1, QuietKept
<1>5. CASE Reset
  <2>1. /\ UNCHANGED <<all, kept, reading>> /\ strays' = strays \cap Requested
        /\ \A i \in Items : records'[i] = NoRec
    BY <1>5 DEF Reset, settings
  <2>2. WillStore => reading.item \in Requested
    BY DEF WillStore, Requested
  <2> QED
    BY <1>0, <2>1, <2>2 DEF KeptInv, KeptOrTrimmed, ReadIsKept, WillStore, Keeps
<1>6. CASE \/ \E i \in Items : Choose(i) \/ Drop(i) \/ ReadThrough(i)
          \/ RouteAnswers \/ Compare \/ PutOne
    BY <1>0, <1>6, ReadKept
<1>7. CASE UNCHANGED allVars
    BY <1>0, <1>7, QuietKept DEF allVars, page, vars, store
<1> QED
    BY <1>1, <1>2, <1>3, <1>4, <1>5, <1>6, <1>7 DEF LocalNext

\* When nothing the page does is unfinished, no record is stored that the
\* settings do not keep, but for items that stopped being kept in the middle of
\* a request for them or of a trim that the closed page never made (db-keep.js,
\* db-through.js, data-settings.js).  On every page, whatever it uses, with any
\* number of calls of keepAll at once.
THEOREM OnlyRacesLeaveRecords == LocalSpec => []OnlyRacesLeaveStrays
<1>1. KeptInv => OnlyRacesLeaveStrays
    BY DEF KeptInv, KeptOrTrimmed, Trimming, OnlyRacesLeaveStrays, AtRest, Keeps
<1> QED
    BY <1>1, InitKept, NextKept, PTL DEF LocalSpec
=============================================================================
