----------------------------- MODULE BackupGate -----------------------------
(***************************************************************************)
(* The backup pause of a running service: the process-wide gate every      *)
(* write takes a ticket from (shell/backup/gate.rs) and the controller     *)
(* that pauses, extends and ends it (controller.rs).  Each request on the  *)
(* socket is a task of its own, as is each deadline timer; a step is what  *)
(* a task does between two awaits, or two times it holds the gate's lock.  *)
(* Time is counted in ticks.  A held write that gives up after ten seconds *)
(* changes nothing and has no action; what the project's hooks do is       *)
(* outside, but that they take time and may fail is not.                   *)
(***************************************************************************)
EXTENDS Integers

CONSTANTS
    Calls,        \* requests to pause, each served once
    Lengths,      \* the lengths they ask for, in ticks
    MaxWriters,   \* bound: tickets out at once
    MaxResumes,   \* bound: requests to resume
    LastTick      \* bound: the clock

ASSUME GateAssumption ==
    /\ Lengths \subseteq Nat
    /\ {MaxWriters, MaxResumes, LastTick} \subseteq Nat

VARIABLES
    writers,    \* tickets that are out
    paused,
    full,       \* the pause in force holds requests too
    until,      \* its deadline
    epoch,      \* pauses begun so far
    at,         \* where each call is
    mine,       \* the pause a call began, extended or found
    timer,      \* the deadline timer a call armed
    resumes,    \* how many requests to resume there were
    stopping,   \* Server::stop: not begun, found its own pause, done
    now

gate == <<writers, paused, full, until, epoch>>
tasks == <<at, mine, timer, resumes, stopping>>
vars == <<gate, tasks, now>>

Places ==
    {"unasked", "drain", "hooks", "held", "refused",   \* began a pause
     "raise", "extended", "unraised"}                  \* found one in force
Timers == {"none", "watch", "due", "ends", "gone"}

Init ==
    /\ writers = 0 /\ paused = FALSE /\ full = FALSE /\ until = 0 /\ epoch = 0
    /\ at = [p \in Calls |-> "unasked"]
    /\ mine = [p \in Calls |-> 0]
    /\ timer = [p \in Calls |-> "none"]
    /\ resumes = 0 /\ stopping = "no" /\ now = 0

(***************************************************************************)
(* Tickets (gate.rs, and Drop of WriteTicket).                             *)
(***************************************************************************)

TakeTicket ==
    /\ ~paused
    /\ writers < MaxWriters
    /\ writers' = writers + 1
    /\ UNCHANGED <<paused, full, until, epoch, tasks, now>>

\* (Mutant: a ticket is counted back twice, by its holder and by its Drop.)
DropTicketTwice ==
    /\ writers > 0
    /\ writers' = writers - 2
    /\ UNCHANGED <<paused, full, until, epoch, tasks, now>>

DropTicket ==
    /\ writers > 0
    /\ writers' = writers - 1
    /\ UNCHANGED <<paused, full, until, epoch, tasks, now>>

(***************************************************************************)
(* A request to pause.                                                     *)
(***************************************************************************)

Goes(p, place) == at' = [at EXCEPT ![p] = place]
Answers(p, place) == Goes(p, place) /\ UNCHANGED <<mine, resumes, stopping, now>>

\* The pause is over: paused, full and until are reset under one lock.
Ended == paused' = FALSE /\ full' = FALSE /\ until' = 0 /\ UNCHANGED <<writers, epoch>>

\* (Mutant: a refused call leaves its pause in force.)
LeavesIt(p) == UNCHANGED gate

\* abort(): only the pause of this call.
Aborts(p) == IF epoch = mine[p] THEN Ended ELSE UNCHANGED gate

BeginPause(p, asked, length) ==
    /\ at[p] = "unasked" /\ ~paused /\ now + length <= LastTick
    /\ paused' = TRUE /\ full' = asked /\ until' = now + length /\ epoch' = epoch + 1
    /\ mine' = [mine EXCEPT ![p] = epoch + 1]
    /\ Goes(p, "drain")
    /\ UNCHANGED <<writers, timer, resumes, stopping, now>>

\* arm_deadline(): a timer for the pause of this call.
Arms(p) == timer' = [timer EXCEPT ![p] = "watch"]

\* A pause in force keeps the later deadline and the larger mode; a raise to
\* full runs the hooks first, everything else is answered at once.
ExtendPause(p, asked, length) ==
    /\ at[p] = "unasked" /\ paused /\ now + length <= LastTick
    /\ until' = IF now + length > until THEN now + length ELSE until
    /\ full' = (full \/ asked)
    /\ mine' = [mine EXCEPT ![p] = epoch]
    /\ IF asked /\ ~full
       THEN Goes(p, "raise") /\ UNCHANGED timer
       ELSE Goes(p, "extended") /\ Arms(p)
    /\ UNCHANGED <<writers, paused, epoch, resumes, stopping, now>>

\* (Mutant: the tickets that are out are not waited for.)
DrainsAtOnce(p) ==
    /\ at[p] = "drain"
    /\ Answers(p, "hooks")
    /\ UNCHANGED <<gate, timer>>

Drained(p) ==
    /\ at[p] = "drain"
    /\ writers = 0
    /\ Answers(p, "hooks")
    /\ UNCHANGED <<gate, timer>>

DrainTimesOut(p) ==
    /\ at[p] = "drain"
    /\ Aborts(p)
    /\ Answers(p, "refused")
    /\ UNCHANGED timer

\* (Mutant: no timer is armed.)
HooksRanUntimed(p) ==
    /\ at[p] = "hooks"
    /\ Answers(p, "held") /\ UNCHANGED <<timer, gate>>

HooksRan(p) ==
    /\ at[p] = "hooks"
    /\ Answers(p, "held") /\ Arms(p) /\ UNCHANGED gate

HooksFailed(p) ==
    /\ at[p] = "hooks"
    /\ Aborts(p)
    /\ Answers(p, "refused") /\ UNCHANGED timer

Raised(p) ==
    /\ at[p] = "raise"
    /\ Answers(p, "extended") /\ Arms(p) /\ UNCHANGED gate

\* The mode is lowered whatever pause is in force now.
RaiseFailed(p) ==
    /\ at[p] = "raise"
    /\ full' = FALSE
    /\ Answers(p, "unraised")
    /\ UNCHANGED <<writers, paused, until, epoch, timer>>

(***************************************************************************)
(* What ends a pause.                                                      *)
(***************************************************************************)

Fires(p, place) ==
    /\ timer' = [timer EXCEPT ![p] = place]
    /\ UNCHANGED <<at, mine, resumes, stopping, now>>

\* The pause of this call is the one in force.
InForce(p) == paused /\ epoch = mine[p]

\* A timer looks at the deadline under the lock, ...
TimerIsDue(p) ==
    /\ timer[p] = "watch"
    /\ InForce(p) => now >= until
    /\ Fires(p, IF InForce(p) THEN "due" ELSE "gone")
    /\ UNCHANGED gate

\* ... looks whether its pause is still in force under another, ...
TimerChecks(p) ==
    /\ timer[p] = "due"
    /\ Fires(p, IF InForce(p) THEN "ends" ELSE "gone")
    /\ UNCHANGED gate

\* ... and calls resume(), which takes it once more.
TimerEnds(p) ==
    /\ timer[p] = "ends"
    /\ Ended
    /\ Fires(p, "gone")

Resume ==
    /\ resumes < MaxResumes
    /\ resumes' = resumes + 1
    /\ Ended
    /\ UNCHANGED <<at, mine, timer, stopping, now>>

\* Server::stop ends a pause its own controller began: the only controller of
\* a process began the pause in force.
StopBegins ==
    /\ stopping = "no"
    /\ stopping' = IF paused THEN "own" ELSE "done"
    /\ UNCHANGED <<gate, at, mine, timer, resumes, now>>

StopResumes ==
    /\ stopping = "own"
    /\ stopping' = "done"
    /\ Ended
    /\ UNCHANGED <<at, mine, timer, resumes, now>>

Tick == now < LastTick /\ now' = now + 1 /\ UNCHANGED <<gate, tasks>>

Serve(p) ==
    \/ Drained(p) \/ DrainTimesOut(p) \/ HooksRan(p) \/ HooksFailed(p)
    \/ Raised(p) \/ RaiseFailed(p)

Timer(p) == TimerIsDue(p) \/ TimerChecks(p) \/ TimerEnds(p)

Next ==
    \/ TakeTicket \/ DropTicket
    \/ \E p \in Calls :
        \/ \E asked \in BOOLEAN, length \in Lengths :
            BeginPause(p, asked, length) \/ ExtendPause(p, asked, length)
        \/ Serve(p) \/ Timer(p)
    \/ Resume \/ StopBegins \/ StopResumes
    \/ Tick

Spec == Init /\ [][Next]_vars

\* The clock runs, the drain is bounded, hooks return and tasks are scheduled.
FairSpec ==
    /\ Spec
    /\ WF_vars(Tick)
    /\ \A p \in Calls : WF_vars(Serve(p)) /\ WF_vars(Timer(p))

(***************************************************************************)
(* Properties.                                                             *)
(***************************************************************************)

\* Every variable keeps its type.
TypeOK ==
    /\ writers \in Nat /\ paused \in BOOLEAN /\ full \in BOOLEAN
    /\ until \in Nat /\ epoch \in Nat
    /\ at \in [Calls -> Places]
    /\ mine \in [Calls -> Nat]
    /\ timer \in [Calls -> Timers]
    /\ resumes \in Nat /\ stopping \in {"no", "own", "done"} /\ now \in Nat

\* The call that began the pause in force has seen the last ticket come back.
Holding == paused /\ \E p \in Calls : mine[p] = epoch /\ at[p] \in {"hooks", "held"}

\* From the hooks of a pause to its end no write ticket is out, whoever else
\* pauses, resumes or is refused (backup.rs:28-32: still files for the backup).
HoldIsStill == Holding => writers = 0

\* A pause that was answered busy, or with a hook's error, is not in force
\* (client.rs:13, "nothing is paused"); the caller stops the unit instead.
RefusalLetsGo == \A p \in Calls : at[p] = "refused" => ~InForce(p)

\* Every pause ends, also one nobody resumes (backup.rs:37-40, the dead-man).
PauseEnds == paused ~> ~paused

\* The gate keeps the promise of a pause: PauseContract, with the safety and
\* the liveness of it.
Promise == INSTANCE PauseContract WITH writing <- writers, still <- Holding
Contract == Promise!FairSpec

\* What the comment at controller.rs:58 says of a call that extends a pause:
\* "Writes are already held", so its answer, too, finds the files still.
AnswersWhenStill ==
    \A p \in Calls : at[p] = "extended" /\ InForce(p) => writers = 0
=============================================================================
