-------------------------- MODULE SelfUpdate_proofs --------------------------
(***************************************************************************)
(* Whatever fails, the variables keep their types.  As long as the note of *)
(* an update does not fail, a revert always has a proven binary to go back *)
(* to and what was rolled back stays out.  Both for any number of          *)
(* releases, bad ones among them, attempts and faults.                     *)
(***************************************************************************)
EXTENDS SelfUpdate, TLAPS

LEMMA TypesStay == TypeOK /\ [Next]_vars => TypeOK'
<1> SUFFICES ASSUME TypeOK, [Next]_vars PROVE TypeOK'
  OBVIOUS
<1> USE UpdateAssumption, NoUpdateAssumption DEF TypeOK, Steps, disk, store
<1>1. CASE UNCHANGED vars
  BY <1>1 DEF vars
<1>2. CASE Start \/ StartNormally \/ PutBack
  BY <1>2 DEF Start, StartNormally, PutBack, Goes
<1>3. ASSUME NEW place \in Steps, Fails(place) PROVE TypeOK'
  BY <1>3 DEF Fails
<1>4. CASE ClearStale \/ CountAttempt
  BY <1>3, <1>4 DEF ClearStale, CountAttempt, OnProbation, Tried, Updates, Goes
<1>5. CASE ClearReverted \/ RememberSkip
  BY <1>3, <1>5 DEF ClearReverted, RememberSkip, AfterClear, AfterSkip, Goes
<1>6. CASE Confirm \/ DieOfItself \/ Kill
  BY <1>3, <1>6 DEF Confirm, DieOfItself, Kill, Goes
<1>7. CASE Install \/ Link \/ Rename
  BY <1>7 DEF Install, Link, Rename, Goes
<1>8. CASE Note
  <2>1. [from |-> running, to |-> target, attempts |-> 0] \in Updates
    BY DEF Updates
  <2> QED
    BY <1>3, <1>8, <2>1 DEF Note, Goes
<1>9. CASE Release
  BY <1>9 DEF Release, Versions
<1> QED
  BY <1>1, <1>2, <1>4, <1>5, <1>6, <1>7, <1>8, <1>9 DEF Next, Runs

\* Every variable of the self-update keeps its type, also when the note of an
\* update fails after its binary was replaced (install.rs:101, loops.rs:42).
THEOREM TypeCorrect == Spec => []TypeOK
<1>1. Init => TypeOK
  BY UpdateAssumption DEF Init, TypeOK, Versions, Steps
<1> QED
  BY <1>1, TypesStay, PTL DEF Spec

Installing == step \in {"removed", "linked", "renamed"}
Reverting == step \in {"restored", "cleared"}

\* Where the process is says what lies on disk.
Placed ==
    /\ step \notin {"unrestored", "uncleared"}
    /\ step \in {"starting", "serving", "healthy", "removed", "linked"} => bin = running
    /\ step \in {"linked", "renamed"} => prev = running
    /\ step = "renamed" => bin = target

\* Only a healthy process installs, a newer version, while none is pending.
Proven ==
    /\ step = "healthy" \/ Installing => running \notin Bad
    /\ Installing => pending = NoUpdate /\ target > running

\* An update leads upwards, and away from a version that was healthy.
Pending ==
    pending # NoUpdate =>
        /\ pending.to > pending.from
        /\ pending.from \notin Bad

\* While a revert is under way the old binary is back and the new one runs.
Reverted ==
    Reverting =>
        /\ bin # running
        /\ pending # NoUpdate => pending.to = running

\* What is skipped lies nowhere it could come back from.
Skipped ==
    /\ bin \notin skipped
    /\ Installing => target \notin skipped /\ running \notin skipped
    /\ pending # NoUpdate => pending.from \notin skipped

IInv ==
    /\ TypeOK /\ RollbackTargetKept
    /\ Placed /\ Proven /\ Pending /\ Reverted /\ Skipped

LEMMA InitEstablishes == Init => IInv
  BY UpdateAssumption, NoUpdateAssumption
  DEF Init, IInv, TypeOK, Versions, Steps, RollbackTargetKept, Placed, Proven, Installing,
      Pending, Reverted, Reverting, Skipped

\* A process may be killed, and a start or a revert may end, anywhere.
LEMMA GoingDownPreserves == IInv /\ Fails("down") => IInv'
  BY UpdateAssumption
  DEF IInv, TypeOK, Steps, disk, store, Fails, RollbackTargetKept, Placed, Proven,
      Installing, Pending, Reverted, Reverting, Skipped

\* Each conjunct is kept by each action because of what the others say of the
\* place the process is at; an action with a write that may fail has a case for
\* either end of it.
LEMMA StepPreserves ==
  ASSUME IInv, [Next]_vars, NoteMayFail = FALSE
  PROVE  IInv'
<1> USE UpdateAssumption, NoUpdateAssumption DEF IInv, TypeOK, Steps, disk, store
<1>0. ASSUME UNCHANGED vars PROVE IInv'
  BY <1>0 DEF vars, RollbackTargetKept, Placed, Proven, Installing,
              Pending, Reverted, Reverting, Skipped
<1>1. ASSUME Start PROVE IInv'
  BY <1>1 DEF Start, Versions, Updates, RollbackTargetKept, Placed, Proven, Installing,
              Pending, Reverted, Reverting, Skipped
<1>2. ASSUME StartNormally PROVE IInv'
  BY <1>2 DEF StartNormally, Goes, Versions, Updates, RollbackTargetKept, Placed, Proven, Installing,
              Pending, Reverted, Reverting, Skipped
<1>3. ASSUME ClearStale PROVE IInv'
  <2>1. Stale
    BY <1>3 DEF ClearStale, Stale
  <2>2. CASE pending' = NoUpdate /\ Goes("serving") /\ UNCHANGED <<disk, skipped>>
    BY <2>1, <2>2 DEF Goes, Tried, Stale, OnProbation, Updates, RollbackTargetKept, Placed, Proven, Installing,
                    Pending, Reverted, Reverting, Skipped
  <2>3. CASE Fails("down")
    BY <2>3, GoingDownPreserves
  <2> QED
    BY <1>3, <2>1, <2>2, <2>3 DEF ClearStale, Stale
<1>4. ASSUME CountAttempt PROVE IInv'
  <2>1. OnProbation
    BY <1>4 DEF CountAttempt, OnProbation
  <2>2. CASE pending' = [pending EXCEPT !.attempts = Tried] /\ Goes("serving") /\ UNCHANGED <<disk, skipped>>
    BY <2>1, <2>2 DEF Goes, Tried, Stale, OnProbation, Updates, RollbackTargetKept, Placed, Proven, Installing,
                    Pending, Reverted, Reverting, Skipped
  <2>3. CASE Fails("down")
    BY <2>3, GoingDownPreserves
  <2> QED
    BY <1>4, <2>1, <2>2, <2>3 DEF CountAttempt, OnProbation
<1>5. ASSUME PutBack PROVE IInv'
  BY <1>5 DEF PutBack, OnProbation, OutOfAttempts, Goes, Versions, Updates, RollbackTargetKept, Placed, Proven, Installing,
              Pending, Reverted, Reverting, Skipped
<1>6. ASSUME ClearReverted PROVE IInv'
  <2>1. step = "restored"
    BY <1>6 DEF ClearReverted, AfterClear, Placed
  <2>2. CASE pending' = NoUpdate /\ Goes("cleared") /\ UNCHANGED <<disk, skipped>>
    BY <2>1, <2>2 DEF Goes, Tried, Stale, OnProbation, Updates, RollbackTargetKept, Placed, Proven, Installing,
                    Pending, Reverted, Reverting, Skipped
  <2>3. CASE Fails("cleared")
    BY <2>1, <2>3 DEF Fails, RollbackTargetKept, Placed, Proven, Installing,
                    Pending, Reverted, Reverting, Skipped
  <2> QED
    BY <1>6, <2>1, <2>2, <2>3 DEF ClearReverted, AfterClear, Placed
<1>7. ASSUME RememberSkip PROVE IInv'
  <2>1. step = "cleared"
    BY <1>7 DEF RememberSkip, AfterSkip, Placed
  <2>2. CASE skipped' = skipped \cup {running} /\ Goes("down") /\ UNCHANGED <<disk, pending>>
    <3>1. bin # running /\ (pending # NoUpdate => pending.to = running)
      BY <2>1 DEF Reverted, Reverting
    <3>2. pending # NoUpdate => pending.from # running
      BY <3>1 DEF Pending, Updates, Versions
    <3>3. Skipped'
      BY <2>1, <2>2, <3>1, <3>2 DEF Goes, Skipped, Installing
    <3>4. TypeOK'
      BY <2>2 DEF Goes
    <3> QED
      BY <2>1, <2>2, <3>3, <3>4 DEF Goes, RollbackTargetKept, Placed, Proven, Installing,
                      Pending, Reverted, Reverting
  <2>3. CASE Fails("down")
    BY <2>3, GoingDownPreserves
  <2> QED
    BY <1>7, <2>1, <2>2, <2>3 DEF RememberSkip, AfterSkip, Placed
<1>8. ASSUME Confirm PROVE IInv'
  <2>1. step = "serving" /\ running \notin Bad
    BY <1>8 DEF Confirm
  <2>2. CASE pending' = NoUpdate /\ Goes("healthy") /\ UNCHANGED <<disk, skipped>>
    BY <2>1, <2>2 DEF Goes, Tried, Stale, OnProbation, Updates, RollbackTargetKept, Placed, Proven, Installing,
                    Pending, Reverted, Reverting, Skipped
  <2>3. CASE Fails("healthy")
    BY <2>1, <2>3 DEF Fails, RollbackTargetKept, Placed, Proven, Installing,
                    Pending, Reverted, Reverting, Skipped
  <2> QED
    BY <1>8, <2>1, <2>2, <2>3 DEF Confirm
<1>9. ASSUME DieOfItself PROVE IInv'
  BY <1>9 DEF DieOfItself, Goes, Versions, Updates, RollbackTargetKept, Placed, Proven, Installing,
              Pending, Reverted, Reverting, Skipped
<1>10. ASSUME Install PROVE IInv'
  BY <1>10 DEF Install, Wanted, Versions, Updates, RollbackTargetKept, Placed, Proven, Installing,
              Pending, Reverted, Reverting, Skipped
<1>11. ASSUME Link PROVE IInv'
  BY <1>11 DEF Link, Goes, Versions, Updates, RollbackTargetKept, Placed, Proven, Installing,
              Pending, Reverted, Reverting, Skipped
<1>12. ASSUME Rename PROVE IInv'
  BY <1>12 DEF Rename, Goes, Versions, Updates, RollbackTargetKept, Placed, Proven, Installing,
              Pending, Reverted, Reverting, Skipped
<1>13. ASSUME Note PROVE IInv'
  <2>1. /\ step = "renamed"
        /\ pending' = [from |-> running, to |-> target, attempts |-> 0]
        /\ Goes("down") /\ UNCHANGED <<disk, skipped>>
    BY <1>13 DEF Note
  <2>2. pending' \in Updates
    BY <2>1 DEF Updates
  <2> QED
    BY <2>1, <2>2 DEF Goes, RollbackTargetKept, Placed, Proven, Installing,
                      Pending, Reverted, Reverting, Skipped
<1>14. ASSUME Kill PROVE IInv'
  BY <1>14, GoingDownPreserves DEF Kill
<1>15. ASSUME Release PROVE IInv'
  BY <1>15 DEF Release, Versions, Updates, RollbackTargetKept, Placed, Proven, Installing,
              Pending, Reverted, Reverting, Skipped
<1>16. QED
  BY <1>0, <1>1, <1>2, <1>3, <1>4, <1>5, <1>6, <1>7, <1>8, <1>9, <1>10, <1>11, <1>12, <1>13, <1>14, <1>15 DEF Next, Runs

\* Every reachable state has the invariant, as long as an update can be noted.
LEMMA Invariance == NoteMayFail = FALSE /\ Spec => []IInv
<1>1. NoteMayFail = FALSE /\ IInv /\ [Next]_vars => IInv'
  BY StepPreserves
<1>2. CASE NoteMayFail = FALSE
  <2>1. IInv /\ [Next]_vars => IInv'
    BY <1>1, <1>2
  <2> QED
    BY <2>1, InitEstablishes, PTL DEF Spec
<1>3. CASE NoteMayFail # FALSE
  BY <1>3
<1> QED
  BY <1>2, <1>3

\* While a version is on probation bin.prev holds the proven one it replaced.
THEOREM RollbackTargetIsKept == NoteMayFail = FALSE /\ Spec => []RollbackTargetKept
<1>1. IInv => RollbackTargetKept
  BY DEF IInv
<1> QED
  BY <1>1, Invariance, PTL

\* A version that is remembered as rolled back never lies at the binary's path
\* again: no install, revert or restart brings it back.
THEOREM SkippedVersionsStayOut == NoteMayFail = FALSE /\ Spec => SkippedStaysOut
<1>1. IInv' => [bin' # bin => bin' \notin skipped']_vars
  BY DEF IInv, Skipped
<1> QED
  BY <1>1, Invariance, PTL DEF SkippedStaysOut
=============================================================================
