------------------------------- MODULE Outbox -------------------------------
(***************************************************************************)
(* Notifications (shell/notify*, storage/outbox.rs): an event goes through *)
(* a bounded hand-off in memory to a writer, which keeps it in the outbox  *)
(* on disk; one loop offers the oldest message that is due to its targets  *)
(* in turn and deletes it once one has taken it.  A step is one            *)
(* transaction, one request with its retries, or one use of the loop's     *)
(* wake-up.  What a retry time says is whether it has come: "now" (0),     *)
(* "later", or "ripe" (it passed).                                         *)
(***************************************************************************)
EXTENDS Naturals, Sequences, FiniteSets, Functions

CONSTANTS
    LastMessage,   \* bound: events 1 .. LastMessage are emitted in turn
    KitEvents,     \* those that are events of the kit
    KitTarget,     \* the configuration names a target for them
    Caps,          \* what notify_outbox_max may be set to
    HandOff,       \* what the hand-off holds
    MaxEdits,      \* bound: changes of the addresses
    MaxFaults,     \* bound: restarts, lost answers, writes that fail
    Refusals,      \* which targets may take which messages never, not even late
    NoMessage

Messages == 1 .. LastMessage
Editable == {"primary", "fallback"}
Targets == Editable \cup {"kit"}

ASSUME OutboxAssumption ==
    /\ {LastMessage, HandOff, MaxEdits, MaxFaults} \subseteq Nat
    /\ Caps \subseteq Nat \ {0}
    /\ KitEvents \subseteq Messages /\ KitTarget \in BOOLEAN
    /\ Refusals \subseteq SUBSET (Messages \X Targets)
    /\ NoMessage \notin Messages

VARIABLES
    emitted,   \* events so far
    hand,      \* the hand-off
    writer,    \* the writer task: "ready", or "wakes" after an insert
    rows,      \* the outbox: message -> its retry time
    targets,   \* the editable addresses that are set
    editor,    \* a change of them under way: "ready", "due", "wakes"
    step,      \* where the delivery loop is
    msg,       \* the message it works on
    left,      \* the targets it has not asked for it yet
    failures,  \* messages nobody took, in a row (2 stands for more)
    permit,    \* the wake-up that waits for the loop
    kept,      \* messages the outbox took and did not drop at its cap
    times,     \* how often a message was taken by a target
    quiet,     \* a write that failed kept a wake-up back since the loop looked
    cap,       \* notify_outbox_max
    refused,   \* <<m, t>>: target t is down for good, or always refuses m
    edits, faults

tasks == <<hand, writer, editor>>
loop == <<step, msg, left, failures>>
ghosts == <<kept, times, quiet>>
bounds == <<emitted, cap, refused, edits, faults>>
vars == <<tasks, rows, targets, loop, permit, ghosts, bounds>>

Steps == {"look", "picked", "ask", "accepted", "sleep", "pause"}

Init ==
    /\ emitted = 0 /\ hand = <<>> /\ writer = "ready"
    /\ rows = << >> /\ targets = Editable /\ editor = "ready"
    /\ step = "look" /\ msg = NoMessage /\ left = <<>> /\ failures = 0 /\ permit = FALSE
    /\ kept = {} /\ times = [m \in Messages |-> 0] /\ quiet = FALSE
    /\ cap \in Caps /\ refused \in Refusals /\ edits = 0 /\ faults = 0

\* targets_for: whom a message is offered, in order.
TargetsFor(m) ==
    LET first == IF m \in KitEvents /\ KitTarget THEN "kit" ELSE "primary"
        IfSet(t) == IF t = "kit" \/ t \in targets THEN <<t>> ELSE <<>>
    IN IfSet(first) \o IfSet("fallback")

Deliverable(m) == TargetsFor(m) # <<>>

Stored == DOMAIN rows
With(m, time) == [k \in Stored \cup {m} |-> IF k = m THEN time ELSE rows[k]]

Fault == faults < MaxFaults /\ faults' = faults + 1 /\ UNCHANGED <<emitted, cap, refused, edits>>

(***************************************************************************)
(* From an event to a row.                                                 *)
(***************************************************************************)

Emit ==
    /\ emitted < LastMessage
    /\ emitted' = emitted + 1
    /\ hand' = IF Len(hand) < HandOff THEN Append(hand, emitted + 1) ELSE hand
    /\ UNCHANGED <<writer, editor, rows, targets, loop, permit, ghosts, cap, refused, edits, faults>>

\* (Mutant: one row more than the cap.)
CappedLate(all) ==
    Restrict(all, {k \in DOMAIN all : Cardinality({l \in DOMAIN all : l > k}) <= cap})

\* The cap keeps the newest.
Capped(all) ==
    Restrict(all, {k \in DOMAIN all : Cardinality({l \in DOMAIN all : l > k}) < cap})

\* What the writer takes next.
First == Head(hand)

\* (Mutant: the loop is not woken after an insert.)
KeepQuietly ==
    /\ writer = "ready" /\ hand # <<>> /\ Deliverable(First)
    /\ hand' = Tail(hand)
    /\ rows' = Capped(With(First, "now"))
    /\ kept' = (kept \cup {First}) \ (Stored \ DOMAIN rows')
    /\ UNCHANGED <<writer, editor, targets, loop, permit, times, quiet, bounds>>

\* The loop is woken, unless older messages were dropped and that cannot be
\* counted.
Keep ==
    /\ writer = "ready" /\ hand # <<>> /\ Deliverable(First)
    /\ hand' = Tail(hand)
    /\ rows' = Capped(With(First, "now"))
    /\ kept' = (kept \cup {First}) \ (Stored \ DOMAIN rows')
    /\ \/ writer' = "wakes" /\ UNCHANGED <<quiet, bounds>>
       \/ Stored \ DOMAIN rows' # {} /\ Fault /\ quiet' = TRUE /\ UNCHANGED writer
    /\ UNCHANGED <<editor, targets, loop, permit, times>>

\* No target is set for it, or the write fails.
Forgo ==
    /\ writer = "ready" /\ hand # <<>>
    /\ \/ ~Deliverable(First) /\ UNCHANGED bounds
       \/ Deliverable(First) /\ Fault
    /\ hand' = Tail(hand)
    /\ UNCHANGED <<writer, editor, rows, targets, loop, permit, ghosts>>

WriterWakes ==
    /\ writer = "wakes"
    /\ writer' = "ready"
    /\ permit' = TRUE
    /\ UNCHANGED <<hand, editor, rows, targets, loop, ghosts, bounds>>

(***************************************************************************)
(* The page changes the addresses: save or reset, reload, due_now, wake.   *)
(***************************************************************************)

Edit ==
    /\ editor = "ready" /\ edits < MaxEdits
    /\ edits' = edits + 1
    /\ targets' \in SUBSET Editable
    /\ editor' = "due"
    /\ UNCHANGED <<hand, writer, rows, loop, permit, ghosts, cap, refused, emitted, faults>>

DueNow ==
    /\ editor = "due"
    /\ \/ /\ rows' = [m \in Stored |-> "now"]
          /\ editor' = "wakes" /\ UNCHANGED <<quiet, bounds>>
       \/ Fault /\ editor' = "ready" /\ quiet' = TRUE /\ UNCHANGED rows
    /\ UNCHANGED <<hand, writer, targets, loop, permit, kept, times>>

EditorWakes ==
    /\ editor = "wakes"
    /\ editor' = "ready"
    /\ permit' = TRUE
    /\ UNCHANGED <<hand, writer, rows, targets, loop, ghosts, bounds>>

(***************************************************************************)
(* The delivery loop.                                                      *)
(***************************************************************************)

\* (Mutant: a retry time that has passed is not looked at.)
DueUnretried == {m \in Stored : rows[m] = "now" /\ Deliverable(m)}

\* What next_due chooses from.
Due == {m \in Stored : rows[m] # "later" /\ Deliverable(m)}

Goes(place) == step' = place /\ UNCHANGED <<msg, left, failures>>
AtRest == UNCHANGED <<tasks, targets>>

Pick ==
    /\ step = "look"
    /\ \E m \in Due : (\A k \in Due : m <= k) /\ msg' = m
    /\ step' = "picked"
    /\ AtRest /\ UNCHANGED <<rows, left, failures, permit, ghosts, bounds>>

Sleep ==
    /\ step = "look" /\ Due = {}
    /\ Goes("sleep")
    /\ quiet' = FALSE
    /\ AtRest /\ UNCHANGED <<rows, permit, kept, times, bounds>>

Offer ==
    /\ step = "picked"
    /\ left' = TargetsFor(msg)
    /\ step' = "ask"
    /\ AtRest /\ UNCHANGED <<rows, msg, failures, permit, ghosts, bounds>>

\* The target asked next may take the message.
MayTake == <<msg, Head(left)>> \notin refused

Took == times' = [times EXCEPT ![msg] = @ + 1] /\ UNCHANGED <<kept, quiet>>

\* (Mutant: the fallback is asked, too.)
TakenByBoth ==
    /\ step = "ask" /\ left # <<>> /\ MayTake
    /\ Took
    /\ left' = Tail(left)
    /\ step' = IF left' = <<>> THEN "accepted" ELSE "ask"
    /\ AtRest /\ UNCHANGED <<rows, msg, failures, permit, bounds>>

Taken ==
    /\ step = "ask" /\ left # <<>> /\ MayTake
    /\ Took
    /\ left' = <<>>
    /\ step' = "accepted"
    /\ AtRest /\ UNCHANGED <<rows, msg, failures, permit, bounds>>

\* The target did not take it, or its answer is lost.
NotTaken ==
    /\ step = "ask" /\ left # <<>>
    /\ \/ UNCHANGED <<ghosts, bounds>>
       \/ MayTake /\ Took /\ Fault
    /\ left' = Tail(left)
    /\ AtRest /\ UNCHANGED <<rows, step, msg, failures, permit>>

\* The loop is done with a message.
DoneThen(place) == step' = place /\ msg' = NoMessage /\ left' = <<>>
NobodyTook == step = "ask" /\ left = <<>>

\* (Mutant: a message nobody took is deleted, too.)
DeleteAnyway ==
    /\ step = "accepted" \/ NobodyTook
    /\ DoneThen("look") /\ failures' = 0
    /\ rows' = Restrict(rows, Stored \ {msg}) /\ UNCHANGED bounds
    /\ AtRest /\ UNCHANGED <<permit, ghosts>>

\* delivered(); when the row cannot be deleted it is due as before.
Delete ==
    /\ step = "accepted"
    /\ DoneThen("look") /\ failures' = 0
    /\ \/ rows' = Restrict(rows, Stored \ {msg}) /\ UNCHANGED bounds
       \/ Fault /\ UNCHANGED rows
    /\ AtRest /\ UNCHANGED <<permit, ghosts>>

OneMore == IF failures < 2 THEN failures + 1 ELSE failures

\* failed(): a row the cap dropped meanwhile stays dropped.
Postpone ==
    /\ NobodyTook
    /\ failures' = OneMore
    /\ DoneThen(IF OneMore = 2 THEN "pause" ELSE "look")
    /\ rows' = IF msg \in Stored THEN [rows EXCEPT ![msg] = "later"] ELSE rows
    /\ AtRest /\ UNCHANGED <<permit, ghosts, bounds>>

\* The retry time cannot be saved: the row is still due, the loop pauses.
PostponeFails ==
    /\ NobodyTook
    /\ failures' = OneMore
    /\ DoneThen("pause")
    /\ Fault
    /\ AtRest /\ UNCHANGED <<rows, permit, ghosts>>

Idle == step \in {"sleep", "pause"}

Woken ==
    /\ Idle /\ permit
    /\ permit' = FALSE
    /\ Goes("look")
    /\ AtRest /\ UNCHANGED <<rows, ghosts, bounds>>

TimerFires ==
    /\ Idle
    /\ Goes("look")
    /\ AtRest /\ UNCHANGED <<rows, permit, ghosts, bounds>>

\* A retry time passes.
Ripens(m) ==
    /\ m \in Stored /\ rows[m] = "later"
    /\ rows' = [rows EXCEPT ![m] = "ripe"]
    /\ AtRest /\ UNCHANGED <<loop, permit, ghosts, bounds>>

\* The process stops or dies, and is started again: memory is lost.
Restart ==
    /\ Fault
    /\ hand' = <<>> /\ writer' = "ready" /\ editor' = "ready"
    /\ step' = "look" /\ msg' = NoMessage /\ left' = <<>> /\ failures' = 0
    /\ permit' = FALSE /\ quiet' = FALSE
    /\ UNCHANGED <<rows, targets, kept, times>>

Writer == Keep \/ Forgo \/ WriterWakes
Editor == DueNow \/ EditorWakes
Loop ==
    \/ Pick \/ Sleep \/ Offer \/ NotTaken \/ Delete
    \/ Postpone \/ PostponeFails \/ Woken \/ TimerFires

Next ==
    \/ Emit \/ Writer \/ Edit \/ Editor
    \/ Taken \/ Loop \/ \E m \in Messages : Ripens(m)
    \/ Restart

Spec == Init /\ [][Next]_vars

\* Tasks are scheduled, time passes, and a message that is offered again and
\* again to a target that may take it is taken in the end.  Of a target that is
\* down for good nothing is assumed: Taken is never enabled for it.
FairSpec ==
    /\ Spec
    /\ WF_vars(Writer) /\ WF_vars(Editor) /\ WF_vars(Loop)
    /\ \A m \in Messages : WF_vars(Ripens(m)) /\ SF_vars(msg = m /\ Taken)

(***************************************************************************)
(* Properties.                                                             *)
(***************************************************************************)

\* Every variable keeps its type.
TypeOK ==
    /\ hand \in Seq(Messages) /\ Len(hand) <= HandOff
    /\ Stored \subseteq Messages /\ Cardinality(Stored) <= cap
    /\ \A m \in Stored : rows[m] \in {"now", "later", "ripe"}
    /\ targets \subseteq Editable
    /\ writer \in {"ready", "wakes"} /\ editor \in {"ready", "due", "wakes"}
    /\ step \in Steps /\ msg \in Messages \cup {NoMessage}
    /\ left \in Seq(Editable \cup {"kit"})
    /\ failures \in 0 .. 2 /\ permit \in BOOLEAN /\ quiet \in BOOLEAN
    /\ kept \subseteq Messages /\ times \in [Messages -> Nat]

\* A message the outbox kept waits there until a target has taken it, through
\* restarts, changed addresses and failed writes, unless the cap dropped it as
\* the oldest (storage/outbox.rs:4-9).
NothingLost == \A m \in kept : m \in Stored \/ times[m] > 0

\* A message is taken twice only after a restart, a lost answer or a failed
\* write: the fallback is not asked for what the primary took, nor the other
\* way round (notify_delivery.rs:5-8).
TakenTwiceOnlyByFault == \A m \in Messages : times[m] <= 1 + faults

\* The loop never sleeps on a message that is due since it was written or
\* since the addresses changed: a wake-up is there or under way, unless a write
\* that failed kept it back (notify_channel/edit.rs:72).
NoMissedWake ==
    step = "sleep" /\ (\E m \in Due : rows[m] = "now") =>
        permit \/ writer = "wakes" \/ editor # "ready" \/ quiet

\* Every target it has now refuses it for good.
Hopeless(m) == Deliverable(m) /\ \A i \in DOMAIN TargetsFor(m) : <<m, TargetsFor(m)[i]>> \in refused

\* A message leaves the outbox in the end, loses its targets, or waits behind
\* an older one that all of its targets refuse for good (or is such a one).
\* Newer messages that nobody takes, messages with no target, a dead target
\* beside a live one, backoffs and pauses do not hold it up.
DeliveredAtLast ==
    \A m \in Messages :
        m \in Stored ~> \/ m \notin Stored \/ ~Deliverable(m)
                        \/ \E k \in Stored : k <= m /\ Hopeless(k)

\* A message that some target may take leaves the outbox in the end or loses
\* its targets: "a dead target does not stall the others"
\* (notify_delivery.rs:35-38).  The loop does not keep this: whenever the
\* retry time of an older message passes while it pauses, that one is next.
DeadTargetStallsNobody ==
    \A m \in Messages :
        m \in Stored ~> m \notin Stored \/ ~Deliverable(m) \/ Hopeless(m)
=============================================================================
