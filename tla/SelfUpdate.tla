----------------------------- MODULE SelfUpdate -----------------------------
(***************************************************************************)
(* The autonomous self-update of a service (shell/update, app/run.rs): the *)
(* process replaces its own binary, notes the update in the kit database   *)
(* and exits; the supervisor starts what lies at the binary's path; that   *)
(* process serves on probation, is confirmed, or puts the old binary back. *)
(* A process may be killed between any two steps and a write of the kit    *)
(* database may fail.  A release is verified and its binary starts (the    *)
(* probe), else nothing is installed; a bad one dies before it has served  *)
(* for healthy_after.  The first check comes after that                    *)
(* (startup_delay > healthy_after, as the defaults have it).               *)
(***************************************************************************)
EXTENDS Integers

CONSTANTS
    LastVersion,   \* bound: versions 1 .. LastVersion are released in turn
    Bad,           \* those that never become healthy
    MaxAttempts,   \* the knob max_start_attempts
    MaxFaults,     \* bound: kills of a process and writes that fail
    NoteMayFail,   \* the write that notes the update may be one of them
    NoVersion, NoUpdate

Versions == 1 .. LastVersion

ASSUME UpdateAssumption ==
    /\ LastVersion \in Nat \ {0} /\ {MaxAttempts, MaxFaults} \subseteq Nat
    /\ Bad \subseteq Versions \ {1}
    /\ NoteMayFail \in BOOLEAN
    /\ NoVersion \notin Versions

VARIABLES
    bin,       \* the version at the binary's path
    prev,      \* the one at bin.prev
    pending,   \* the row kit_update_state
    skipped,   \* the rows of kit_update_skipped
    latest,    \* what the release host offers
    running,   \* the version of the process
    step,      \* where it is
    target,    \* what it is installing
    faults

disk == <<bin, prev>>
store == <<pending, skipped>>
vars == <<disk, store, latest, running, step, target, faults>>

Updates == [from : Versions, to : Versions, attempts : Nat]
ASSUME NoUpdateAssumption == NoUpdate \notin Updates

Steps == {"down", "starting", "restored", "unrestored", "cleared", "uncleared",
          "serving", "healthy", "removed", "linked", "renamed"}

Init ==
    /\ bin = 1 /\ prev = NoVersion /\ pending = NoUpdate /\ skipped = {}
    /\ latest = 1 /\ running = 1 /\ step = "healthy" /\ target = 1 /\ faults = 0

Goes(place) == step' = place /\ UNCHANGED <<latest, running, target, faults>>

\* A step that ends in a write of the kit database: when it fails, another
\* place is next.
Fails(place) ==
    /\ faults < MaxFaults
    /\ faults' = faults + 1
    /\ step' = place
    /\ UNCHANGED <<disk, store, latest, running, target>>

Start ==
    /\ step = "down"
    /\ running' = bin
    /\ step' = "starting"
    /\ UNCHANGED <<disk, store, latest, target, faults>>

(***************************************************************************)
(* handle_pending_update: what a start does about a pending update.        *)
(***************************************************************************)

\* (Mutant: attempts are counted down.)
TriedDown == pending.attempts - 1

Tried == pending.attempts + 1

OutOfAttempts == Tried >= MaxAttempts

StartNormally ==
    /\ step = "starting" /\ pending = NoUpdate
    /\ Goes("serving")
    /\ UNCHANGED <<disk, store>>

Stale == step = "starting" /\ pending # NoUpdate /\ pending.to # running

ClearStale ==
    /\ Stale
    /\ \/ pending' = NoUpdate /\ Goes("serving") /\ UNCHANGED <<disk, skipped>>
       \/ Fails("down")

OnProbation == step = "starting" /\ pending # NoUpdate /\ pending.to = running

\* (Mutant: the attempt is not kept.)
CountNoAttempt ==
    /\ OnProbation /\ ~OutOfAttempts
    /\ Goes("serving") /\ UNCHANGED <<disk, store>>

CountAttempt ==
    /\ OnProbation /\ ~OutOfAttempts
    /\ \/ /\ pending' = [pending EXCEPT !.attempts = Tried]
          /\ Goes("serving") /\ UNCHANGED <<disk, skipped>>
       \/ Fails("down")

\* revert(): one rename, then two writes, whatever becomes of each.
PutBack ==
    /\ OnProbation /\ OutOfAttempts
    /\ IF prev = NoVersion
       THEN Goes("unrestored") /\ UNCHANGED disk
       ELSE Goes("restored") /\ bin' = prev /\ prev' = NoVersion
    /\ UNCHANGED store

AfterClear == IF step = "restored" THEN "cleared" ELSE "uncleared"

ClearReverted ==
    /\ step \in {"restored", "unrestored"}
    /\ \/ pending' = NoUpdate /\ Goes(AfterClear) /\ UNCHANGED <<disk, skipped>>
       \/ Fails(AfterClear)

\* A reverted process exits; one that found no bin.prev runs on.
AfterSkip == IF step = "cleared" THEN "down" ELSE "serving"

\* The version that is rolled back is the one that runs.
RememberSkip ==
    /\ step \in {"cleared", "uncleared"}
    /\ \/ skipped' = skipped \cup {running} /\ Goes(AfterSkip) /\ UNCHANGED <<disk, pending>>
       \/ Fails(AfterSkip)

(***************************************************************************)
(* Serving.                                                                *)
(***************************************************************************)

\* confirm_healthy, after healthy_after.
Confirm ==
    /\ step = "serving" /\ running \notin Bad
    /\ \/ pending' = NoUpdate /\ Goes("healthy") /\ UNCHANGED <<disk, skipped>>
       \/ pending # NoUpdate /\ Fails("healthy")

DieOfItself ==
    /\ step = "serving" /\ running \in Bad
    /\ Goes("down")
    /\ UNCHANGED <<disk, store>>

Kill ==
    /\ step # "down"
    /\ Fails("down")

Release ==
    /\ latest < LastVersion
    /\ latest' = latest + 1
    /\ UNCHANGED <<disk, store, running, step, target, faults>>

(***************************************************************************)
(* check_once and install.                                                 *)
(***************************************************************************)

\* (Mutant: what was rolled back is tried again.)
WantedAgain == latest > running

Wanted == latest > running /\ latest \notin skipped

\* (Mutant: an update that is pending does not hold back the next.)
InstallOver ==
    /\ step = "healthy" /\ Wanted
    /\ target' = latest
    /\ prev' = NoVersion
    /\ step' = "removed"
    /\ UNCHANGED <<bin, store, latest, running, faults>>

\* The release is verified, staged and probed; bin.prev is removed.
Install ==
    /\ step = "healthy" /\ pending = NoUpdate /\ Wanted
    /\ target' = latest
    /\ prev' = NoVersion
    /\ step' = "removed"
    /\ UNCHANGED <<bin, store, latest, running, faults>>

Link ==
    /\ step = "removed"
    /\ prev' = bin
    /\ Goes("linked")
    /\ UNCHANGED <<bin, store>>

Rename ==
    /\ step = "linked"
    /\ bin' = target
    /\ Goes("renamed")
    /\ UNCHANGED <<prev, store>>

Note ==
    /\ step = "renamed"
    /\ \/ /\ pending' = [from |-> running, to |-> target, attempts |-> 0]
          /\ Goes("down") /\ UNCHANGED <<disk, skipped>>
       \/ NoteMayFail /\ Fails("healthy")

Runs ==
    \/ Start
    \/ StartNormally \/ ClearStale \/ CountAttempt
    \/ PutBack \/ ClearReverted \/ RememberSkip
    \/ Confirm \/ DieOfItself
    \/ Install \/ Link \/ Rename \/ Note

Next == Runs \/ Kill \/ Release

Spec == Init /\ [][Next]_vars

\* The supervisor starts what went down, and a process that runs goes on.
FairSpec == Spec /\ WF_vars(Runs)

(***************************************************************************)
(* Properties.                                                             *)
(***************************************************************************)

\* Every variable keeps its type.
TypeOK ==
    /\ bin \in Versions /\ prev \in Versions \cup {NoVersion}
    /\ pending \in Updates \cup {NoUpdate}
    /\ skipped \subseteq Versions
    /\ {latest, running, target} \subseteq Versions
    /\ step \in Steps /\ faults \in Nat

\* While the version at the binary's path is on probation, bin.prev holds the
\* one it replaced, which was healthy: a revert always has a proven binary to
\* go back to (install_binary.rs:5-6), whenever a process was killed.
RollbackTargetKept ==
    pending # NoUpdate /\ bin = pending.to =>
        prev = pending.from /\ pending.from \notin Bad

\* A version on the skip list never comes back to the binary's path, by an
\* install or by a revert (store.rs:76, "never retried").
SkippedStaysOut == [][bin' # bin => bin' \notin skipped']_vars

\* A bad version that was noted gives way to one that serves in good health,
\* however its starts and its revert are interrupted (install.rs:117-119).
BadVersionLeaves ==
    (pending # NoUpdate /\ pending.to \in Bad) ~> (step = "healthy" /\ running \notin Bad)

\* A version that never becomes healthy serves on probation only
\* (core/update.rs:140, "Exists on disk exactly while an update is on
\* probation").
BadRunsOnProbation ==
    running \in Bad /\ step = "serving" => pending # NoUpdate /\ pending.to = running
=============================================================================
