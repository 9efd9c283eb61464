------------------------------ MODULE SyncPull ------------------------------
(***************************************************************************)
(* A page that pulls one collection of the changes feed into its local     *)
(* store (db-pull.js over db-store.js), beside the service that answers    *)
(* it.  Each step of the page is one turn: an IndexedDB transaction takes  *)
(* effect in the order it was created, so what a turn computes and the     *)
(* store operation it starts are one step, and everything else may happen  *)
(* before the next.  The service answers a request in two snapshots, the   *)
(* floor check of service.rs and the page of log.rs.                       *)
(***************************************************************************)
EXTENDS SyncFeed

CONSTANTS
    feed,          \* the collection that is pulled
    me,            \* the login scope of the page
    Gens,          \* resync generations (crypto.randomUUID)
    MaxSeq,        \* bound: changes recorded in the life of the file
    MaxEpoch,      \* bound: epochs ever made
    MayLose,       \* an answer may be lost
    MayClose,      \* the page may be closed at any time
    MayFill,       \* the store may run out of room
    NoRec, NoGen, NoAnswer

VARIABLES
    file,      \* the committed database file of the service
    records,   \* the store: the record of each item, or NoRec
    meta,      \* its meta row: the cursor, the generation of a resync, stale
    all, kept, \* "keep everything", and the items chosen one by one
    pc,        \* where the running pull is
    since,     \* locals of run(): the position asked from,
    gen,       \*   the generation stamped on what is stored,
    restarts,  \*   and how often a 410 restarted it
    answer     \* the answer on its way, or NoAnswer

store == <<records, meta>>
settings == <<all, kept>>
run == <<pc, since, gen, restarts, answer>>
vars == <<file, store, settings, run>>

Mine == Visible(feed, me)

Places == {"idle", "begin", "mark", "ask", "sent", "checked", "answered",
           "stale", "prune", "unmark"}

\* A stored body is named by the change it came from: its number and the
\* epoch of the file that counted it.
Record == [seq : Nat, epoch : Nat, gen : Gens \cup {NoGen}]

Meta == [cursor : Cursor \cup {NoCursor}, resyncGen : Gens \cup {NoGen},
         stale : BOOLEAN]

Answers ==
    \* upserts: the number of the change the body of a listed item is, else 0
    [status : {"ok"}, upserts : [Items -> Nat], deletes : SUBSET Items,
     cursor : Cursor, more : BOOLEAN]
    \cup [status : {"410", "unreachable"}]

ASSUME PullAssumption ==
    /\ feed \in Collections
    /\ me \in Scopes
    /\ NoRec \notin Record
    /\ NoGen \notin Gens
    /\ NoAnswer \notin Answers
    /\ MaxSeq \in Nat
    /\ MaxEpoch \in Nat \ {0}

\* There is always a generation that no record, meta row or run refers to.
ASSUME GensAssumption == IsFiniteSet(Gens) => Cardinality(Gens) > Cardinality(Items) + 2

(***************************************************************************)
(* Helpers.                                                                *)
(***************************************************************************)

\* keeper.keeps: whether a pulled upsert is stored.
Keeps(i) == all \/ i \in kept

\* Generations are compared, never ordered, and a UUID never comes back: any
\* one that nothing refers to is as fresh as another.
UsedGens == {records[i].gen : i \in {j \in Items : records[j] # NoRec}}
            \cup {meta.resyncGen, gen}

FreshGen == CHOOSE g \in Gens : g \notin UsedGens

\* (Mutant: "keep everything" is forgotten.)
KeptChosen(page) == {i \in Items : page.upserts[i] > 0 /\ i \in kept}

\* applyPage: the page and its cursor in one transaction.  The deletes are
\* always applied; the upserts all or, when they do not fit, none.
Kept(page) == {i \in Items : page.upserts[i] > 0 /\ Keeps(i)}

WithoutDeletes(page) ==
    [i \in Items |-> IF i \in page.deletes THEN NoRec ELSE records[i]]

WithUpserts(recs, page) ==
    [i \in Items |-> IF i \in Kept(page)
                     THEN [seq |-> page.upserts[i], epoch |-> page.cursor.epoch,
                           gen |-> gen]
                     ELSE recs[i]]

(***************************************************************************)
(* The service: writes, retention, a restore, and the answers.             *)
(***************************************************************************)

\* One write transaction with one change.
Write(i, deleted) ==
    /\ file.seq < MaxSeq
    /\ file' = Recorded(file, i, 1, deleted)
    /\ UNCHANGED <<store, settings, run>>

Prune ==
    /\ \E S \in SUBSET Tombstones(file, feed) \ {{}} : \E i \in S :
         /\ \A j \in S : file.rows[j].seq <= file.rows[i].seq
         /\ file' = Pruned(file, feed, S, file.rows[i].seq)
    /\ UNCHANGED <<store, settings, run>>

FirstFile ==
    [rows |-> [i \in Items |-> NoRow], seq |-> 0,
     floor |-> [c \in Collections |-> 0], epoch |-> 1, witness |-> 1]

\* The file is replaced by the copy that was made of it when it was new.
Restore ==
    /\ file.epoch < MaxEpoch
    /\ file' = Ensured(FirstFile, file.epoch + 1, file.epoch + 1)
    /\ UNCHANGED <<store, settings, run>>

Page(last) ==
    LET items == PageItems(file, feed, me, since)
    IN  [status |-> "ok",
         upserts |-> [i \in Items |-> IF i \in items THEN Shown(file, i) ELSE 0],
         deletes |-> {i \in items : ~Live(file, i)},
         cursor |-> NextCursor(file, feed, me, since, last),
         more |-> More(file, feed, me, since)]

\* SyncService::feed: with a position, the floor is read and compared first.
ServiceChecks ==
    /\ pc = "sent"
    /\ IF Refused(file, feed, since)
       THEN answer' = [status |-> "410"] /\ pc' = "answered"
       ELSE answer' = NoAnswer /\ pc' = "checked"
    /\ UNCHANGED <<file, store, settings, since, gen, restarts>>

\* read_feed: the page, or a resync, in one snapshot.
ServiceAnswers ==
    /\ pc = "checked"
    /\ IF Refused(file, feed, since)
       THEN answer' = [status |-> "410"]
       ELSE \E last \in {AfterOf(since)} \cup
                        {file.rows[i].seq : i \in PageItems(file, feed, me, since)} :
              /\ IsLast(file, feed, me, since, last)
              /\ answer' = Page(last)
    /\ pc' = "answered"
    /\ UNCHANGED <<file, store, settings, since, gen, restarts>>

\* No answer reaches the page (status 0, a gateway error).
AnswerLost ==
    /\ MayLose
    /\ pc \in {"sent", "checked", "answered"}
    /\ answer' = [status |-> "unreachable"]
    /\ pc' = "answered"
    /\ UNCHANGED <<file, store, settings, since, gen, restarts>>

(***************************************************************************)
(* The page: pull, begin, run, apply, finish.                              *)
(***************************************************************************)

\* pull(): starts a job.  A call that joins a running job only makes it go
\* round once more, which is another Pull here (JobRounds models the joining).
Pull ==
    /\ pc = "idle"
    /\ pc' = "begin"
    /\ UNCHANGED <<file, store, settings, since, gen, restarts, answer>>

\* (Mutant: a resync that is resumed gets another generation.)
BeginAnew ==
    /\ pc = "begin"
    /\ since' = meta.cursor
    /\ restarts' = 0
    /\ IF meta.cursor # NoCursor
       THEN gen' = (IF meta.resyncGen # NoGen THEN FreshGen ELSE NoGen) /\ pc' = "ask"
       ELSE gen' = FreshGen /\ pc' = "mark"
    /\ UNCHANGED <<file, store, settings, answer>>

\* begin(): resume at the cursor with the generation of an unfinished resync,
\* or start from the beginning with one.
Begin ==
    /\ pc = "begin"
    /\ since' = meta.cursor
    /\ restarts' = 0
    /\ IF meta.cursor # NoCursor
       THEN gen' = meta.resyncGen /\ pc' = "ask"
       ELSE /\ gen' = IF meta.resyncGen # NoGen THEN meta.resyncGen ELSE FreshGen
            /\ pc' = "mark"
    /\ UNCHANGED <<file, store, settings, answer>>

\* (Mutant: the meta row is written over, not merged.)
MarkOver ==
    /\ pc = "mark"
    /\ meta' = [cursor |-> NoCursor, resyncGen |-> gen]
    /\ pc' = "ask"
    /\ UNCHANGED <<file, records, settings, since, gen, restarts, answer>>

Mark ==
    /\ pc = "mark"
    /\ meta' = [meta EXCEPT !.cursor = NoCursor, !.resyncGen = gen]
    /\ pc' = "ask"
    /\ UNCHANGED <<file, records, settings, since, gen, restarts, answer>>

Ask ==
    /\ pc = "ask"
    /\ answer' = NoAnswer
    /\ pc' = IF since = NoCursor THEN "checked" ELSE "sent"
    /\ UNCHANGED <<file, store, settings, since, gen, restarts>>

\* The first 410 of a run starts a resync.
Restart ==
    /\ pc = "answered"
    /\ answer.status = "410"
    /\ restarts = 0
    /\ restarts' = 1
    /\ since' = NoCursor
    /\ gen' = FreshGen
    /\ meta' = [meta EXCEPT !.cursor = NoCursor, !.resyncGen = FreshGen]
    /\ answer' = NoAnswer
    /\ pc' = "ask"
    /\ UNCHANGED <<file, records, settings>>

\* The run is over: its frame is gone.
Over ==
    /\ pc' = "idle"
    /\ since' = NoCursor
    /\ gen' = NoGen
    /\ restarts' = 0
    /\ answer' = NoAnswer

\* Any other answer that is not a page ends the run.
GiveUp ==
    /\ pc = "answered"
    /\ \/ answer.status = "unreachable"
       \/ answer.status = "410" /\ restarts > 0
    /\ Over
    /\ UNCHANGED <<file, store, settings>>

\* (Mutant: the last page of every pull prunes.)
ApplyAndPrune ==
    /\ pc = "answered"
    /\ answer.status = "ok"
    /\ records' = WithUpserts(WithoutDeletes(answer), answer)
    /\ meta' = [meta EXCEPT !.cursor = answer.cursor, !.stale = FALSE]
    /\ pc' = IF answer.more THEN "ask" ELSE "prune"
    /\ since' = answer.cursor
    /\ answer' = NoAnswer
    /\ UNCHANGED <<gen, restarts, file, settings>>

Apply ==
    /\ pc = "answered"
    /\ answer.status = "ok"
    /\ records' = WithUpserts(WithoutDeletes(answer), answer)
    /\ meta' = [meta EXCEPT !.cursor = answer.cursor, !.stale = FALSE]
    /\ CASE answer.more ->
              /\ pc' = "ask"
              /\ since' = answer.cursor
              /\ answer' = NoAnswer
              /\ UNCHANGED <<gen, restarts>>
         [] ~answer.more /\ gen # NoGen ->
              /\ pc' = "prune"
              /\ since' = answer.cursor
              /\ answer' = NoAnswer
              /\ UNCHANGED <<gen, restarts>>
         [] OTHER -> Over
    /\ UNCHANGED <<file, settings>>

\* (Mutant: the cursor moves although the upserts did not fit.)
ApplyFullMoving ==
    /\ MayFill
    /\ pc = "answered"
    /\ answer.status = "ok"
    /\ Kept(answer) # {}
    /\ records' = WithoutDeletes(answer)
    /\ meta' = [meta EXCEPT !.cursor = answer.cursor]
    /\ answer' = NoAnswer
    /\ pc' = "stale"
    /\ UNCHANGED <<file, settings, since, gen, restarts>>

\* The upserts do not fit: the deletes are applied, the cursor stays.
ApplyFull ==
    /\ MayFill
    /\ pc = "answered"
    /\ answer.status = "ok"
    /\ Kept(answer) # {}
    /\ records' = WithoutDeletes(answer)
    /\ answer' = NoAnswer
    /\ pc' = "stale"
    /\ UNCHANGED <<file, meta, settings, since, gen, restarts>>

MarkStale ==
    /\ pc = "stale"
    /\ meta' = [meta EXCEPT !.stale = TRUE]
    /\ Over
    /\ UNCHANGED <<file, records, settings>>

\* finish(): everything that did not get the generation goes ...
PruneStale ==
    /\ pc = "prune"
    /\ records' = [i \in Items |-> IF records[i] # NoRec /\ records[i].gen # gen
                                   THEN NoRec ELSE records[i]]
    /\ pc' = "unmark"
    /\ UNCHANGED <<file, meta, settings, since, gen, restarts, answer>>

\* ... and the resync is over.
Unmark ==
    /\ pc = "unmark"
    /\ meta' = [meta EXCEPT !.resyncGen = NoGen]
    /\ Over
    /\ UNCHANGED <<file, records, settings>>

\* The page is closed and opened again: only the store survives.
Reload ==
    /\ MayClose
    /\ pc # "idle"
    /\ Over
    /\ UNCHANGED <<file, store, settings>>

\* An empty store and no pull, whatever the settings are.
Fresh ==
    /\ file = FirstFile
    /\ records = [i \in Items |-> NoRec]
    /\ meta = [cursor |-> NoCursor, resyncGen |-> NoGen, stale |-> FALSE]
    /\ pc = "idle"
    /\ since = NoCursor
    /\ gen = NoGen
    /\ restarts = 0
    /\ answer = NoAnswer

Init == Fresh /\ all = TRUE /\ kept = {}

Service ==
    \/ \E i \in Items, deleted \in BOOLEAN : Write(i, deleted)
    \/ Prune
    \/ Restore

Answering == ServiceChecks \/ ServiceAnswers

Running ==
    \/ Begin \/ Mark \/ Ask \/ Restart \/ GiveUp \/ Apply
    \/ MarkStale \/ PruneStale \/ Unmark

Failing == AnswerLost \/ ApplyFull \/ Reload

Next == Service \/ Answering \/ Pull \/ Running \/ Failing

Spec == Init /\ [][Next]_vars

\* The timer, the hints and the own writes ask for a pull again and again, the
\* event loop runs every turn that is due, and neither does every answer get
\* lost, nor every page fail to fit, nor is the page closed each time before
\* the same step.
FairSpec ==
    /\ Spec
    /\ WF_vars(Pull)
    /\ SF_vars(Begin) /\ SF_vars(Mark) /\ SF_vars(Ask)
    /\ SF_vars(ServiceChecks) /\ SF_vars(ServiceAnswers)
    /\ SF_vars(Restart) /\ SF_vars(Apply)
    /\ WF_vars(GiveUp \/ MarkStale)
    /\ SF_vars(PruneStale) /\ SF_vars(Unmark)

(***************************************************************************)
(* Properties.                                                             *)
(***************************************************************************)

\* Every variable keeps its type.
TypeOK ==
    /\ file \in File
    /\ records \in [Items -> Record \cup {NoRec}]
    /\ meta \in Meta
    /\ all \in BOOLEAN
    /\ kept \in SUBSET Items
    /\ pc \in Places
    /\ since \in Cursor \cup {NoCursor}
    /\ gen \in Gens \cup {NoGen}
    /\ restarts \in {0, 1}
    /\ answer \in Answers \cup {NoAnswer}

\* The stored cursor is one the service would serve.
Served == meta.cursor # NoCursor /\ ~Refused(file, feed, meta.cursor)

Current(i) ==
    /\ records[i] # NoRec
    /\ records[i].seq = file.rows[i].seq
    /\ records[i].epoch = file.epoch

\* The store holds item i exactly as the service does (or rightly not at all).
Mirrors(i) == IF Live(file, i) /\ Keeps(i) THEN Current(i) ELSE records[i] = NoRec

\* LOCAL_DB_DESIGN.md: the store is the feed up to its cursor.  When no resync
\* is unfinished and the service would serve the stored cursor, every item is
\* mirrored, or its newest change is still above that cursor.
StoreMirrorsLog ==
    Served /\ ~meta.cursor.sweep /\ meta.resyncGen = NoGen =>
        \A i \in Mine :
            \/ file.rows[i] # NoRow /\ file.rows[i].seq > meta.cursor.seq
            \/ Mirrors(i)

\* A live item below a cursor that is served is stored, in the middle of a
\* sweep too, and while a resync is unfinished it carries that generation, so
\* the end of the resync cannot drop it.
ListedIsStored ==
    Served => \A i \in Mine :
        Live(file, i) /\ Keeps(i) /\ file.rows[i].seq <= meta.cursor.seq =>
            Current(i) /\ (meta.resyncGen # NoGen => records[i].gen = meta.resyncGen)

\* db-pull.js: "The old data stays readable until the last page is in".  No
\* step, a resync, a reload and a full store included, takes away a record
\* that is what the service holds.
CurrentRecordsStay ==
    [][\A i \in Mine : Live(file, i) /\ Current(i) => records'[i] # NoRec]_vars

\* db-pull.js: "One pull per collection at a time".  No record is replaced by an
\* older version of its item, whatever was lost, restored or begun again since
\* its page was asked for.  (Epochs are numbered in the order they are made.)
NeverGoesBack ==
    [][\A i \in Items : records[i] # NoRec /\ records'[i] # NoRec =>
          \/ records'[i].epoch > records[i].epoch
          \/ /\ records'[i].epoch = records[i].epoch
             /\ records'[i].seq >= records[i].seq]_vars

\* Once the log rests, the store becomes what the service holds and stays so.
Converges == <>[](\A i \in Mine : Mirrors(i))
=============================================================================
