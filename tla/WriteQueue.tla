----------------------------- MODULE WriteQueue -----------------------------
(***************************************************************************)
(* The edits of one page (data-writes.js) and their queue (data-queue.js). *)
(* An edit is sent at once when nothing waits, or else stored and replayed *)
(* in order with the revision it was made from.  Edits replace one item    *)
(* (PUT) or create an item of their own (POST with an idempotency key).    *)
(* A step is a turn of the page with the IndexedDB transaction it creates. *)
(* The queue in memory follows in a later turn, when the transaction is    *)
(* done; transactions are done in the order they were created.  Requests   *)
(* may be lost, or arrive after the page gave up.                          *)
(***************************************************************************)
EXTENDS Integers, Sequences, FiniteSets

CONSTANTS
    LastEdit,    \* edits are numbered in the order they are made
    Creates,     \* those that are a POST
    Policies,    \* what onConflict may answer
    MaxLost,     \* bound: requests given up
    MaxEvents,   \* bound: writes by other devices, times the page is closed and
                 \* edits the person saves again, together
    NoEntry

Edits == 1..LastEdit

\* Revisions count from 1; none is 0 (no If-Match, no copy).
NoRev == 0
Entry == [id : Nat, rev : Nat, state : {"queued", "held", "failed"}]
Queue == [Edits -> Entry \cup {NoEntry}]
Outcome == [kind : {"ok", "conflict", "rejected", "unreachable"}, rev : Nat]
NoAnswer == [kind |-> "unreachable", rev |-> NoRev]

ASSUME QueueAssumption ==
    /\ LastEdit \in Nat
    /\ Creates \subseteq Edits
    /\ Policies \subseteq {"skip", "hold", "drop"}
    /\ {MaxLost, MaxEvents} \subseteq Nat
    /\ NoEntry \notin Entry

VARIABLES
    service,   \* the item's revision, how often each edit took effect, requests
               \* given up that may still arrive (late)
    faults,    \* how many requests were given up, and the events so far
    store,     \* the queue in IndexedDB
    lastId,    \* the newest id it gave
    txs,       \* who waits for a transaction on it, oldest first
    copy,      \* the revision of the item's offline copy
    mem,       \* the queue in memory
    calls,     \* each call of put() or post()
    job,       \* the replay: where it is, the locals of step(), "again"
    timer,     \* the retry timer is set
    person,    \* the drop or resave that is under way
    past       \* history: edits accepted, dropped, failed, saved again, and
               \* for each edit those accepted before it was made

page == <<mem, calls, job, timer, person>>
disk == <<store, lastId, txs>>
vars == <<service, faults, disk, copy, page, past>>

(***************************************************************************)
(* The queue.                                                              *)
(***************************************************************************)

Waiting(q) == {e \in Edits : q[e] # NoEntry /\ q[e].state # "failed"}

\* (Mutant: the newest goes first.)
IsLast(e) == e \in Waiting(mem) /\ \A f \in Waiting(mem) : mem[e].id >= mem[f].id

\* The first entry that is not in the failed list.
IsHead(e) == e \in Waiting(mem) /\ \A f \in Waiting(mem) : mem[e].id <= mem[f].id

\* onChange: the retry timer runs while edits wait.
Changed(q) == timer' = (Waiting(q) # {})

\* persist() in memory: an entry that is gone stays gone.
Mapped(e, new) == IF mem[e] = NoEntry THEN mem ELSE [mem EXCEPT ![e] = new]

\* The entries of the same path that carried the old revision, with the new.
Rebased(q, old, new) ==
    {[edit |-> e, entry |-> [q[e] EXCEPT !.rev = new]] :
        e \in {f \in Edits \ Creates : old \notin {NoRev, new} /\ q[f] # NoEntry /\ q[f].rev = old}}

\* A transaction on the stored queue, and the turn when it is done.
Replayer == 0
Person == -1
Puts(who, e, new) == store' = [store EXCEPT ![e] = new] /\ txs' = Append(txs, who)
Settled(who) == txs # <<>> /\ Head(txs) = who /\ txs' = Tail(txs) /\ UNCHANGED <<store, lastId>>

(***************************************************************************)
(* The service: the app's item route checks If-Match (core/revision.rs),   *)
(* its create route the idempotency key (create_rules.rs).                 *)
(***************************************************************************)

\* (Mutant: a key that is held is created again.)
TakesEffectAgain(e, rev) == e \in Creates \/ rev \in {NoRev, service.rev}

TakesEffect(e, rev) ==
    IF e \in Creates THEN service.effects[e] = 0 ELSE rev \in {NoRev, service.rev}

Effect(e, rev) ==
    IF TakesEffect(e, rev)
    THEN [service EXCEPT !.effects[e] = @ + 1, !.rev = IF e \in Creates THEN @ ELSE @ + 1]
    ELSE service

\* The service answers an edit it finds no fault with, or refuses it.
Answers(e, rev, said) ==
    \/ /\ service' = Effect(e, rev)
       /\ said = [kind |-> IF e \in Creates \/ service' # service THEN "ok" ELSE "conflict",
                  rev  |-> IF e \in Creates THEN NoRev ELSE service'.rev]
    \/ /\ service' = service
       /\ said = [kind |-> "rejected", rev |-> NoRev]

\* A request is given up.  It may still arrive (a request whose answer is lost
\* arrives at once), or never.
GivenUp(e, rev) ==
    /\ faults.lost < MaxLost
    /\ faults' = [faults EXCEPT !.lost = @ + 1]
    /\ service' = [service EXCEPT !.late = @ \cup {[edit |-> e, rev |-> rev]}]

LateArrives(r) ==
    /\ r \in service.late
    /\ service' = [Effect(r.edit, r.rev) EXCEPT !.late = @ \ {r}]
    /\ UNCHANGED <<faults, disk, copy, page, past>>

EventsLeft == faults.events < MaxEvents
Event == EventsLeft /\ faults' = [faults EXCEPT !.events = @ + 1]

OtherWrites ==
    /\ Event
    /\ service' = [service EXCEPT !.rev = @ + 1]
    /\ UNCHANGED <<disk, copy, page, past>>

(***************************************************************************)
(* put() and post().                                                       *)
(***************************************************************************)

NoCall == [at |-> "unmade", rev |-> NoRev, said |-> NoAnswer, saved |-> NoEntry]
At(e, place) == calls[e].at = place
Goes(e, place) == calls' = [calls EXCEPT ![e].at = place]

\* entryFor: the revision of the copy, if any.
Make(e) ==
    /\ At(e, "unmade") /\ \A f \in 1..(e - 1) : ~At(f, "unmade")
    /\ calls' = [calls EXCEPT ![e].at = "made", ![e].rev = IF e \in Creates THEN NoRev ELSE copy]
    /\ past' = [past EXCEPT !.before[e] = past.accepted]
    /\ UNCHANGED <<service, faults, disk, copy, mem, job, timer, person>>

\* (Mutant: an edit is sent at once whatever waits.)
SendAnyway(e) ==
    /\ At(e, "made") /\ Goes(e, "sent")
    /\ UNCHANGED <<service, faults, disk, copy, mem, job, timer, person, past>>

Send(e) ==
    /\ At(e, "made") /\ Waiting(mem) = {} /\ Goes(e, "sent")
    /\ UNCHANGED <<service, faults, disk, copy, mem, job, timer, person, past>>

AnswerCall(e) ==
    /\ \E kind \in {"ok", "conflict", "rejected"}, rev \in NoRev..(service.rev + 1) :
         LET said == [kind |-> kind, rev |-> rev]
         IN  /\ At(e, "sent") /\ Answers(e, calls[e].rev, said)
             /\ calls' = [calls EXCEPT ![e].at = "answered", ![e].said = said]
    /\ UNCHANGED <<faults, disk, copy, mem, job, timer, person, past>>

LoseCall(e) ==
    /\ At(e, "sent") /\ GivenUp(e, calls[e].rev)
    /\ calls' = [calls EXCEPT ![e].at = "answered", ![e].said = NoAnswer]
    /\ UNCHANGED <<disk, copy, mem, job, timer, person, past>>

\* The answer becomes the copy; a refusal is thrown to the caller.
Finish(e) ==
    /\ At(e, "answered") /\ calls[e].said # NoAnswer
    /\ calls' = [calls EXCEPT ![e].at = "over", ![e].said = NoAnswer]
    /\ IF calls[e].said.kind = "ok"
       THEN copy' = IF e \in Creates THEN copy ELSE calls[e].said.rev
       ELSE UNCHANGED copy
    /\ UNCHANGED <<service, faults, disk, mem, job, timer, person, past>>

\* (Mutant: the revision is not stored with the edit.)
AddUnversioned(e) ==
    /\ (At(e, "made") /\ Waiting(mem) # {}) \/ (At(e, "answered") /\ calls[e].said = NoAnswer)
    /\ lastId' = lastId + 1
    /\ Puts(e, e, [id |-> lastId', rev |-> NoRev, state |-> "queued"])
    /\ Goes(e, "added")
    /\ UNCHANGED <<service, faults, copy, mem, job, timer, person, past>>

\* queue.add: behind what waits, or after a request that got no answer.
Add(e) ==
    /\ (At(e, "made") /\ Waiting(mem) # {}) \/ (At(e, "answered") /\ calls[e].said = NoAnswer)
    /\ lastId' = lastId + 1
    /\ Puts(e, e, [id |-> lastId', rev |-> calls[e].rev, state |-> "queued"])
    /\ Goes(e, "added")
    /\ UNCHANGED <<service, faults, copy, mem, job, timer, person, past>>

Added(e) ==
    /\ At(e, "added") /\ Settled(e) /\ Goes(e, "listed")
    /\ mem' = [mem EXCEPT ![e] = store[e]]
    /\ Changed(mem')
    /\ past' = [past EXCEPT !.accepted = @ \cup {e}]
    /\ UNCHANGED <<service, faults, copy, job, person>>

Idle == [at |-> "idle", edit |-> 0, entry |-> NoEntry, said |-> NoAnswer, behind |-> {},
         again |-> FALSE]

\* replay(): one at a time; a call while one runs makes it go round once more.
Called == job' = IF job.at = "idle" THEN [Idle EXCEPT !.at = "next"] ELSE [job EXCEPT !.again = TRUE]

\* queue.patch: what the edit did to the copies is stored with it; nothing is
\* when it did nothing, or is gone.  Then put() calls for a replay.
Patch(e) ==
    /\ At(e, "listed")
    /\ \/ /\ mem[e] # NoEntry /\ Puts(e, e, mem[e])
          /\ calls' = [calls EXCEPT ![e].at = "patched", ![e].saved = mem[e]]
          /\ UNCHANGED job
       \/ Goes(e, "over") /\ Called /\ UNCHANGED <<store, txs>>
    /\ UNCHANGED <<service, faults, lastId, copy, mem, timer, person, past>>

Patched(e) ==
    /\ At(e, "patched") /\ Settled(e)
    /\ mem' = Mapped(e, calls[e].saved)
    /\ calls' = [calls EXCEPT ![e].at = "over", ![e].saved = NoEntry]
    /\ Called
    /\ UNCHANGED <<service, faults, copy, timer, person, past>>

\* get(): the service's answer becomes the copy.  (Bound: only while an edit is
\* still to be made or saved, which are what looks at the copy.)
Read ==
    /\ EventsLeft \/ \E e \in Edits : At(e, "unmade")
    /\ copy' = service.rev
    /\ UNCHANGED <<service, faults, disk, page, past>>

(***************************************************************************)
(* replay().                                                               *)
(***************************************************************************)

Moves(place) == job' = [job EXCEPT !.at = place]
NextEntry == job' = [Idle EXCEPT !.at = "next", !.again = job.again]

\* A round that is over is gone round once more when a call came meanwhile.
EndRound == job' = [Idle EXCEPT !.at = IF job.again THEN "next" ELSE "idle"]

\* The online event or retry(), while no replay runs (JobRounds has those that
\* join one); the timer, at any time.
Replay ==
    /\ job.at = "idle" /\ Called
    /\ UNCHANGED <<service, faults, disk, copy, mem, calls, timer, person, past>>

TimerFires ==
    /\ timer /\ timer' = FALSE /\ Called
    /\ UNCHANGED <<service, faults, disk, copy, mem, calls, person, past>>

SendHead(e) ==
    /\ job.at = "next" /\ IsHead(e) /\ mem[e].state = "queued"
    /\ job' = [job EXCEPT !.at = "sent", !.edit = e, !.entry = mem[e]]
    /\ UNCHANGED <<service, faults, disk, copy, mem, calls, timer, person, past>>

NothingToSend ==
    /\ job.at = "next" /\ (\A e \in Edits : IsHead(e) => mem[e].state = "held") /\ EndRound
    /\ UNCHANGED <<service, faults, disk, copy, mem, calls, timer, person, past>>

AnswerHead ==
    /\ \E kind \in {"ok", "conflict", "rejected"}, rev \in NoRev..(service.rev + 1) :
         LET said == [kind |-> kind, rev |-> rev]
         IN  /\ job.at = "sent" /\ Answers(job.edit, job.entry.rev, said)
             /\ job' = [job EXCEPT !.at = "answered", !.said = said]
    /\ UNCHANGED <<faults, disk, copy, mem, calls, timer, person, past>>

LoseHead ==
    /\ job.at = "sent" /\ GivenUp(job.edit, job.entry.rev)
    /\ job' = [job EXCEPT !.at = "answered", !.said = NoAnswer]
    /\ UNCHANGED <<disk, copy, mem, calls, timer, person, past>>

\* (Mutant: the timer is not set again.)
StopQuietly ==
    /\ job.at = "answered" /\ job.said = NoAnswer /\ EndRound
    /\ UNCHANGED <<service, faults, disk, copy, mem, calls, timer, person, past>>

Stop ==
    /\ job.at = "answered" /\ job.said = NoAnswer /\ EndRound
    /\ Changed(mem)
    /\ UNCHANGED <<service, faults, disk, copy, mem, calls, person, past>>

\* (Mutant: a refused edit is removed like one that went through.)
RemoveRefused ==
    /\ job.at = "answered" /\ job.said.kind \in {"ok", "rejected"} /\ Moves("removed")
    /\ Puts(Replayer, job.edit, NoEntry)
    /\ UNCHANGED <<service, faults, lastId, copy, mem, calls, timer, person, past>>

\* It went through: remove it, rebase what is behind it, adopt the answer.
Remove ==
    /\ job.at = "answered" /\ job.said.kind = "ok" /\ Moves("removed")
    /\ Puts(Replayer, job.edit, NoEntry)
    /\ UNCHANGED <<service, faults, lastId, copy, mem, calls, timer, person, past>>

Removed ==
    /\ job.at = "removed" /\ Settled(Replayer)
    /\ mem' = [mem EXCEPT ![job.edit] = NoEntry]
    /\ job' = [job EXCEPT !.at = "rebase",
                          !.behind = IF job.edit \in Creates THEN {}
                                     ELSE Rebased(mem', job.entry.rev, job.said.rev)]
    /\ UNCHANGED <<service, faults, copy, calls, timer, person, past>>

IsNext(b) == \A c \in job.behind : b.entry.id <= c.entry.id

PutRebased(b) ==
    /\ job.at = "rebase" /\ IsNext(b) /\ Moves("rebased")
    /\ Puts(Replayer, b.edit, b.entry)
    /\ UNCHANGED <<service, faults, lastId, copy, mem, calls, timer, person, past>>

MapRebased(b) ==
    /\ job.at = "rebased" /\ IsNext(b) /\ Settled(Replayer)
    /\ mem' = Mapped(b.edit, b.entry)
    /\ job' = [job EXCEPT !.at = "rebase", !.behind = @ \ {b}]
    /\ UNCHANGED <<service, faults, copy, calls, timer, person, past>>

Adopt ==
    /\ job.at = "rebase" /\ job.behind = {} /\ NextEntry
    /\ copy' = IF job.edit \in Creates THEN copy ELSE job.said.rev
    /\ Changed(mem)
    /\ UNCHANGED <<service, faults, disk, mem, calls, person, past>>

\* A refusal: the copy goes back to the version the answer brings along or a
\* GET reads, or goes when there is none; then the policy decides.
Refuse ==
    /\ job.at = "answered" /\ job.said.kind \in {"conflict", "rejected"}
    /\ copy' \in IF job.edit \in Creates THEN {copy} ELSE {job.said.rev, service.rev, NoRev}
    /\ \E answer \in Policies : Moves(answer)
    /\ UNCHANGED <<service, faults, disk, mem, calls, timer, person, past>>

\* (Mutant: the policy's answer is stored as the state.)
ParkAsAnswered ==
    /\ job.at \in {"skip", "hold"}
    /\ LET parked == [job.entry EXCEPT !.state = job.at]
       IN  /\ Puts(Replayer, job.edit, parked)
           /\ job' = [job EXCEPT !.at = "parked", !.entry = parked]
    /\ UNCHANGED <<service, faults, lastId, copy, mem, calls, timer, person, past>>

\* The failed list, or a hold.
Park ==
    /\ job.at \in {"skip", "hold"}
    /\ LET skipped == job.at = "skip"
           parked == [job.entry EXCEPT !.state = IF skipped THEN "failed" ELSE "held"]
       IN  /\ Puts(Replayer, job.edit, parked)
           /\ job' = [job EXCEPT !.at = "parked", !.entry = parked]
           /\ past' = IF skipped THEN [past EXCEPT !.failed = @ \cup {job.edit}] ELSE past
    /\ UNCHANGED <<service, faults, lastId, copy, mem, calls, timer, person>>

Parked ==
    /\ job.at = "parked" /\ Settled(Replayer)
    /\ mem' = Mapped(job.edit, job.entry)
    /\ Changed(mem')
    /\ IF job.entry.state = "failed" THEN NextEntry ELSE EndRound
    /\ UNCHANGED <<service, faults, copy, calls, person, past>>

Discard ==
    /\ job.at = "drop" /\ Moves("discarded")
    /\ Puts(Replayer, job.edit, NoEntry)
    /\ past' = [past EXCEPT !.dropped = @ \cup {job.edit}]
    /\ UNCHANGED <<service, faults, lastId, copy, mem, calls, timer, person>>

Discarded ==
    /\ job.at = "discarded" /\ Settled(Replayer) /\ NextEntry
    /\ mem' = [mem EXCEPT ![job.edit] = NoEntry]
    /\ Changed(mem')
    /\ UNCHANGED <<service, faults, copy, calls, person, past>>

(***************************************************************************)
(* The person, and the end of the page.                                    *)
(***************************************************************************)

Nobody == [edit |-> 0, entry |-> NoEntry]

Drop(e) ==
    /\ person = Nobody /\ mem[e] # NoEntry
    /\ Puts(Person, e, NoEntry)
    /\ person' = [Nobody EXCEPT !.edit = e]
    /\ past' = [past EXCEPT !.dropped = @ \cup {e}]
    /\ UNCHANGED <<service, faults, lastId, copy, mem, calls, job, timer>>

\* resave: on top of the copy's revision, or else the one of the conflict.
Save(e) ==
    /\ Event
    /\ person = Nobody /\ mem[e] # NoEntry /\ mem[e].state # "queued"
    /\ \E rev \in IF copy # NoRev THEN {copy} ELSE NoRev..service.rev :
         LET saved == [mem[e] EXCEPT !.state = "queued", !.rev = rev]
         IN  Puts(Person, e, saved) /\ person' = [edit |-> e, entry |-> saved]
    /\ past' = [past EXCEPT !.saved = @ \cup {e}]
    /\ UNCHANGED <<service, lastId, copy, mem, calls, job, timer>>

Done ==
    /\ person # Nobody /\ person' = Nobody /\ Settled(Person)
    /\ mem' = Mapped(person.edit, person.entry)
    /\ Changed(mem') /\ Called
    /\ UNCHANGED <<service, faults, copy, calls, past>>

\* The page is closed and opened again: what was under way is gone.
Close ==
    /\ Event
    /\ calls' = [e \in Edits |-> IF At(e, "unmade") THEN calls[e]
                                 ELSE [NoCall EXCEPT !.at = "over", !.rev = calls[e].rev]]
    /\ txs' = <<>> /\ mem' = store /\ job' = Idle /\ person' = Nobody
    /\ Changed(mem')
    /\ past' = [past EXCEPT !.accepted = @ \cup {e \in Edits : store[e] # NoEntry}]
    /\ UNCHANGED <<service, store, lastId, copy>>

Init ==
    /\ service = [rev |-> 1, effects |-> [e \in Edits |-> 0], late |-> {}]
    /\ faults = [lost |-> 0, events |-> 0]
    /\ store = [e \in Edits |-> NoEntry] /\ lastId = 0 /\ txs = <<>>
    /\ copy = 1
    /\ mem = store
    /\ calls = [e \in Edits |-> NoCall]
    /\ job = Idle /\ timer = FALSE /\ person = Nobody
    /\ past = [accepted |-> {}, dropped |-> {}, failed |-> {}, saved |-> {},
               before |-> [e \in Edits |-> {}]]

Editing(e) ==
    \/ Make(e) \/ Send(e) \/ AnswerCall(e) \/ LoseCall(e) \/ Finish(e)
    \/ Add(e) \/ Added(e) \/ Patch(e) \/ Patched(e) \/ Drop(e) \/ Save(e)

Replaying ==
    \/ Replay \/ TimerFires \/ (\E e \in Edits : SendHead(e)) \/ NothingToSend
    \/ AnswerHead \/ LoseHead \/ Stop \/ Remove \/ Removed
    \/ (\E b \in job.behind : PutRebased(b) \/ MapRebased(b)) \/ Adopt
    \/ Refuse \/ Park \/ Parked \/ Discard \/ Discarded

Next ==
    \/ OtherWrites \/ (\E r \in service.late : LateArrives(r))
    \/ (\E e \in Edits : Editing(e)) \/ Replaying \/ Done \/ Read \/ Close

Spec == Init /\ [][Next]_vars

(***************************************************************************)
(* Properties.                                                             *)
(***************************************************************************)

\* Every variable keeps its type.
TypeOK ==
    /\ service \in [rev : Nat, effects : [Edits -> Nat],
                    late : SUBSET [edit : Edits, rev : Nat]]
    /\ faults \in [lost : Nat, events : Nat]
    /\ store \in Queue /\ mem \in Queue
    /\ lastId \in Nat /\ copy \in Nat /\ timer \in BOOLEAN
    /\ txs \in Seq(Edits \cup {Replayer, Person})
    /\ calls \in [Edits -> [at : {"unmade", "made", "sent", "answered", "added", "listed",
                                  "patched", "over"},
                            rev : Nat, said : Outcome, saved : Entry \cup {NoEntry}]]
    /\ job \in [at : {"idle", "next", "sent", "answered", "removed", "rebase", "rebased",
                      "skip", "hold", "drop", "parked", "discarded"},
                edit : 0..LastEdit, entry : Entry \cup {NoEntry}, said : Outcome,
                behind : SUBSET [edit : Edits, entry : Entry], again : BOOLEAN]
    /\ person \in [edit : 0..LastEdit, entry : Entry \cup {NoEntry}]

\* OFFLINE_DESIGN.md: "queued writes are never dropped".  An edit the page
\* took on is stored until it took effect or was dropped, whatever gets lost
\* and whenever the page is closed.
NothingLost ==
    \A e \in past.accepted :
        store[e] # NoEntry \/ service.effects[e] > 0 \/ e \in past.dropped

\* OFFLINE_DESIGN.md: "edits reach the server in the order they were made".
\* An edit takes effect only after each edit that was accepted before it was
\* made took effect, or was dropped or put in the failed list.
InOrder ==
    \A f \in Edits : service.effects[f] > 0 =>
        \A e \in past.before[f] :
            service.effects[e] > 0 \/ e \in past.dropped \cup past.failed

\* An edit that names a revision or has a key takes effect at most once unless
\* the person saves it again: lost answers, late requests, rebasing and reloads
\* included.
AppliedOnce ==
    \A e \in Edits \ past.saved :
        e \in Creates \/ calls[e].rev # NoRev => service.effects[e] <= 1

\* OFFLINE_DESIGN.md: "a timer while the queue is non-empty".  When no replay
\* runs and the first edit waits to be sent, the timer is set.
NeverStranded ==
    job.at = "idle" =>
        \A e \in Edits : IsHead(e) /\ mem[e].state = "queued" => timer

\* OFFLINE_DESIGN.md: "drop(id) discards one".  When nothing is under way, what
\* was dropped is not stored.
DroppedIsGone ==
    (/\ job.at = "idle" /\ person = Nobody
     /\ \A e \in Edits : calls[e].at \in {"unmade", "over"})
    => \A e \in past.dropped : store[e] = NoEntry

\* The page and its queue keep what is promised of an edit: EditContract, one
\* step of it for each step of the code.  An edit that replaces the item without
\* a revision, or that the person saves again, may take effect more than once.
Promise == INSTANCE EditContract WITH
    made <- {e \in Edits : ~At(e, "unmade")}, ahead <- past.before,
    stored <- {e \in Edits : store[e] # NoEntry}, kept <- past.accepted,
    effects <- service.effects, dropped <- past.dropped, failed <- past.failed,
    repeatable <- past.saved \cup
        {e \in Edits \ Creates : ~At(e, "unmade") /\ calls[e].rev = NoRev}
Contract == Promise!Spec
=============================================================================
