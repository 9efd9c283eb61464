------------------------------ MODULE LocalDb ------------------------------
(***************************************************************************)
(* One collection of chassisData.db with everything that touches its       *)
(* store: the puller of SyncPull, the "keep everything" switch and the     *)
(* clear of db-client.js, the chosen items of db-keep.js and the reads     *)
(* through the service of db-through.js.  They are concurrent async        *)
(* functions of one page and share nothing but the store and the settings. *)
(***************************************************************************)
EXTENDS SyncPull

CONSTANTS
    Pages,      \* what a page may do: sets of uses
    Calls,      \* calls of keepAll that may run at the same time
    NoRead

AllUses == {"switch", "clear", "choose", "drop", "read", "close"}

VARIABLES
    uses,       \* what this page does
    joined,     \* a pull that was asked for while one runs: one more round
    switching,  \* each call of keepAll: where it is
    clearing,   \* clear(): "idle", "waiting" or "reset"
    reading,    \* a request of an item's own route, or NoRead
    strays      \* history: items that stopped being kept in the middle of a
                \*   request for them, or of a trim the closed page never made

page == <<uses, joined, switching, clearing, reading, strays>>
allVars == <<vars, page>>

\* "keep" is fetchOne of db-keep.js, "through" is rememberKept of db-through.js;
\* seq and epoch name the change the answer's body is.
Reads == [why : {"keep", "through"}, item : Items,
          at : {"asked", "answered", "differs"}, seq : Nat, epoch : Nat]

ASSUME PagesAssumption == Pages \subseteq SUBSET AllUses /\ NoRead \notin Reads

\* The settings live in localStorage and outlive the store.
LocalInit ==
    /\ Fresh
    /\ uses \in Pages
    /\ all \in BOOLEAN
    /\ kept \in SUBSET Items
    /\ joined = FALSE
    /\ switching = [k \in Calls |-> "idle"]
    /\ clearing = "idle"
    /\ reading = NoRead
    /\ strays = {}

\* The item a request is under way for.
Requested == IF reading = NoRead THEN {} ELSE {reading.item}

(***************************************************************************)
(* keepAll (data.js, data-settings.js), keepAllChanged, resync, trim.      *)
(***************************************************************************)

Goes(k, to) == switching' = [switching EXCEPT ![k] = to]

\* The setting is saved at once; then the cached answers are trimmed.
Switch(k) ==
    /\ "switch" \in uses
    /\ switching[k] = "idle"
    /\ all' = ~all
    /\ Goes(k, "asked")
    /\ strays' = IF all THEN strays \cup (Requested \ kept) ELSE strays
    /\ UNCHANGED <<file, store, kept, run, uses, joined, clearing, reading>>

\* The call goes on with the setting as it is now.
Decide(k) ==
    /\ switching[k] = "asked"
    /\ Goes(k, IF all THEN "forget" ELSE "trim")
    /\ UNCHANGED <<vars, uses, joined, clearing, reading, strays>>

\* Off: drop the records nobody chose.
Trim(k) ==
    /\ switching[k] = "trim"
    /\ records' = [i \in Items |-> IF i \in kept THEN records[i] ELSE NoRec]
    /\ strays' = strays \cap Requested
    /\ Goes(k, "idle")
    /\ UNCHANGED <<file, meta, settings, run, uses, joined, clearing, reading>>

\* On: forget the cursor ...
Forget(k) ==
    /\ switching[k] = "forget"
    /\ meta' = [meta EXCEPT !.cursor = NoCursor, !.resyncGen = NoGen]
    /\ Goes(k, "pull")
    /\ UNCHANGED <<file, records, settings, run, uses, joined, clearing, reading, strays>>

\* ... and pull, or join the pull that runs.
PullAll(k) ==
    /\ switching[k] = "pull"
    /\ Goes(k, "idle")
    /\ IF pc = "idle"
       THEN pc' = "begin" /\ joined' = FALSE
       ELSE joined' = TRUE /\ UNCHANGED pc
    /\ UNCHANGED <<file, store, settings, since, gen, restarts, answer, uses, clearing, reading, strays>>

(***************************************************************************)
(* clear(): wait for the running pull, then empty the store.               *)
(***************************************************************************)

ClearAsked ==
    /\ "clear" \in uses
    /\ clearing = "idle"
    /\ clearing' = "waiting"
    /\ UNCHANGED <<vars, uses, joined, switching, reading, strays>>

Settled ==
    /\ clearing = "waiting"
    /\ pc = "idle" /\ ~joined
    /\ clearing' = "reset"
    /\ UNCHANGED <<vars, uses, joined, switching, reading, strays>>

\* (Mutant: the meta row loses its other fields.)
ResetBare ==
    /\ clearing = "reset"
    /\ clearing' = "idle"
    /\ records' = [i \in Items |-> NoRec] /\ strays' = strays \cap Requested
    /\ meta' = [cursor |-> NoCursor]
    /\ UNCHANGED <<file, settings, run, uses, joined, switching, reading>>

Reset ==
    /\ clearing = "reset"
    /\ clearing' = "idle"
    /\ records' = [i \in Items |-> NoRec] /\ strays' = strays \cap Requested
    /\ meta' = [cursor |-> NoCursor, resyncGen |-> NoGen, stale |-> FALSE]
    /\ UNCHANGED <<file, settings, run, uses, joined, switching, reading>>

(***************************************************************************)
(* Choosing items one by one, and reading through the service.             *)
(***************************************************************************)

Asked(why, i) == [why |-> why, item |-> i, at |-> "asked", seq |-> 0, epoch |-> 0]

\* keeper.set(key, true): an item that is not stored is fetched.
Choose(i) ==
    /\ "choose" \in uses
    /\ kept' = kept \cup {i}
    /\ IF records[i] # NoRec
       THEN UNCHANGED reading
       ELSE reading = NoRead /\ reading' = Asked("keep", i)
    /\ UNCHANGED <<file, store, all, run, uses, joined, switching, clearing, strays>>

\* keeper.set(key, false)
Drop(i) ==
    /\ "drop" \in uses
    /\ i \in kept
    /\ kept' = kept \ {i}
    /\ records' = IF all THEN records ELSE [records EXCEPT ![i] = NoRec]
    /\ strays' = IF all THEN strays ELSE (strays \ {i}) \cup (Requested \cap {i})
    /\ UNCHANGED <<file, meta, all, run, uses, joined, switching, clearing, reading>>

\* get() or a query while not everything is kept.
ReadThrough(i) ==
    /\ "read" \in uses
    /\ ~all
    /\ reading = NoRead
    /\ reading' = Asked("through", i)
    /\ UNCHANGED <<vars, uses, joined, switching, clearing, strays>>

\* The app's own route answers with the item as it is now, or 404.
RouteAnswers ==
    /\ reading # NoRead
    /\ reading.at = "asked"
    /\ reading' = IF Live(file, reading.item)
                  THEN [reading EXCEPT !.at = "answered",
                                       !.seq = file.rows[reading.item].seq,
                                       !.epoch = file.epoch]
                  ELSE NoRead
    /\ UNCHANGED <<vars, uses, joined, switching, clearing, strays>>

\* (Mutant: every item that is read is remembered.)
CompareAny ==
    /\ reading # NoRead
    /\ reading.why = "through" /\ reading.at = "answered"
    /\ LET had == records[reading.item]
       IN  reading' = IF had = NoRec \/ had.seq # reading.seq
                      THEN [reading EXCEPT !.at = "differs"] ELSE NoRead
    /\ UNCHANGED <<vars, uses, joined, switching, clearing, strays>>

\* rememberKept: only a chosen item whose stored revision is another one.
Compare ==
    /\ reading # NoRead
    /\ reading.why = "through" /\ reading.at = "answered"
    /\ LET had == records[reading.item]
       IN  reading' = IF Keeps(reading.item) /\ (had = NoRec \/ had.seq # reading.seq)
                      THEN [reading EXCEPT !.at = "differs"] ELSE NoRead
    /\ UNCHANGED <<vars, uses, joined, switching, clearing, strays>>

PutOne ==
    /\ reading # NoRead
    /\ \/ reading.why = "keep" /\ reading.at = "answered"
       \/ reading.why = "through" /\ reading.at = "differs"
    /\ records' = [records EXCEPT ![reading.item] =
                     [seq |-> reading.seq, epoch |-> reading.epoch, gen |-> NoGen]]
    /\ reading' = NoRead
    /\ UNCHANGED <<file, meta, settings, run, uses, joined, switching, clearing, strays>>

(***************************************************************************)
(* The pull among them.                                                    *)
(***************************************************************************)

\* A pull starts, for its own reasons or as the round a joined call asked for.
StartPull == Pull /\ joined' = FALSE /\ UNCHANGED <<uses, switching, clearing, reading, strays>>

\* A run that is stopped is not gone round again.
StopPull == (GiveUp \/ MarkStale) /\ joined' = FALSE
            /\ UNCHANGED <<uses, switching, clearing, reading, strays>>

RunOn == Begin \/ Mark \/ Ask \/ Restart \/ Apply \/ PruneStale \/ Unmark

KeepPulling ==
    /\ Service \/ Answering \/ RunOn \/ AnswerLost \/ ApplyFull
    /\ UNCHANGED page

\* The page is closed: every function it runs is gone, a trim that was due too.
ClosePage ==
    /\ "close" \in uses
    /\ Over
    /\ joined' = FALSE
    /\ strays' = IF ~all /\ \E k \in Calls : switching[k] \in {"asked", "trim"}
                 THEN strays \cup (Items \ kept) ELSE strays
    /\ switching' = [k \in Calls |-> "idle"]
    /\ clearing' = "idle"
    /\ reading' = NoRead
    /\ UNCHANGED <<file, store, settings, uses>>

LocalNext ==
    \/ StartPull \/ StopPull \/ KeepPulling \/ ClosePage
    \/ \E k \in Calls : Switch(k) \/ Decide(k) \/ Trim(k) \/ Forget(k) \/ PullAll(k)
    \/ ClearAsked \/ Settled \/ Reset
    \/ \E i \in Items : Choose(i) \/ Drop(i) \/ ReadThrough(i)
    \/ RouteAnswers \/ Compare \/ PutOne

LocalSpec == LocalInit /\ [][LocalNext]_allVars

(***************************************************************************)
(* Properties.                                                             *)
(***************************************************************************)

\* Every variable keeps its type.
LocalTypeOK ==
    /\ TypeOK
    /\ uses \in Pages
    /\ joined \in BOOLEAN
    /\ switching \in [Calls -> {"idle", "asked", "forget", "pull", "trim"}]
    /\ clearing \in {"idle", "waiting", "reset"}
    /\ reading \in Reads \cup {NoRead}
    /\ strays \subseteq Items

\* Nothing the page does is unfinished.
AtRest ==
    /\ pc = "idle" /\ ~joined
    /\ \A k \in Calls : switching[k] = "idle"
    /\ clearing = "idle" /\ reading = NoRead

\* At rest the store holds nothing but what is kept, whatever calls of keepAll,
\* chosen and dropped items, reads, clears and pulls overlapped on the page -
\* but for an item that stopped being kept while a request for it was under way
\* (db-keep.js:45, db-through.js:37: what was asked once is not asked again after
\* the await), or before the trim of a page that was closed.
OnlyRacesLeaveStrays ==
    AtRest => \A i \in Items : records[i] # NoRec => Keeps(i) \/ i \in strays

\* db-keep.js: "Dropping removes the local record unless everything is kept".
\* At rest the store holds nothing but what is kept, strays or not.  A page that
\* may do everything does not keep this.
OnlyKeptIsStored ==
    AtRest => \A i \in Items : records[i] # NoRec => Keeps(i)

\* db-pull.js, resync: "the next pull is a full resync".  At rest with "keep
\* everything" on, the store mirrors the feed up to its cursor.
EverythingIsPulled == AtRest /\ all => StoreMirrorsLog
=============================================================================
