-------------------------- MODULE BackupGate_proofs --------------------------
(***************************************************************************)
(* A pause that holds is still, a refused one is gone, and the gate        *)
(* implements PauseContract, for any calls, lengths, writers and ticks.    *)
(***************************************************************************)
EXTENDS BackupGate, TLAPS

\* No call knows of a pause that has not begun.
Known == \A p \in Calls : mine[p] <= epoch

IInv == TypeOK /\ Known /\ HoldIsStill /\ RefusalLetsGo

LEMMA InitEstablishes == Init => IInv
<1> SUFFICES ASSUME Init PROVE IInv
  OBVIOUS
<1>1. paused \in BOOLEAN /\ full \in BOOLEAN
  BY DEF Init
<1>2. TypeOK
  BY <1>1 DEF Init, TypeOK, Places, Timers
<1> QED
  BY <1>2 DEF Init, IInv, Known, HoldIsStill, Holding, RefusalLetsGo, InForce

\* The pause that ends leaves what it resets well typed.
LEMMA EndedTypes ==
  ASSUME IInv, Ended
  PROVE  /\ paused' \in BOOLEAN /\ full' \in BOOLEAN
         /\ until' \in Nat /\ epoch' \in Nat /\ writers' \in Nat
  BY DEF IInv, TypeOK, Ended

\* The pause in force ends, whoever ends it.
LEMMA EndingPreserves ==
  ASSUME IInv, Ended, TypeOK', UNCHANGED mine
  PROVE  IInv'
  BY DEF IInv, TypeOK, Ended, Known, HoldIsStill, Holding, RefusalLetsGo, InForce

\* A call that is refused lets go of its own pause only.
LEMMA AbortPreserves ==
  ASSUME IInv, NEW p \in Calls, Aborts(p), Answers(p, "refused"), UNCHANGED timer
  PROVE  IInv'
<1>1. TypeOK'
  <2>1. /\ paused' \in BOOLEAN /\ full' \in BOOLEAN
        /\ until' \in Nat /\ epoch' \in Nat /\ writers' \in Nat
    <3>1. CASE epoch = mine[p]
      BY <3>1, EndedTypes DEF Aborts
    <3>2. CASE epoch # mine[p]
      BY <3>2 DEF Aborts, gate, IInv, TypeOK
    <3> QED
      BY <3>1, <3>2
  <2> QED
    BY <2>1 DEF IInv, TypeOK, Places, Answers, Goes
<1>2. CASE epoch = mine[p]
  BY <1>1, <1>2, EndingPreserves DEF Aborts, Answers
<1>3. CASE epoch # mine[p]
  BY <1>1, <1>3 DEF IInv, TypeOK, Aborts, Answers, Goes, gate,
                    Known, HoldIsStill, Holding, RefusalLetsGo, InForce
<1> QED
  BY <1>2, <1>3

LEMMA BeginPreserves ==
  ASSUME IInv, NEW p \in Calls, NEW asked \in BOOLEAN, NEW length \in Lengths,
         BeginPause(p, asked, length)
  PROVE  IInv'
<1> USE DEF BeginPause, Goes
<1>1. TypeOK'
  BY GateAssumption DEF IInv, TypeOK, Places
\* Every other call knows of an earlier pause.
<1>2. \A q \in Calls : q # p => mine'[q] = mine[q] /\ at'[q] = at[q] /\ mine[q] < epoch'
  BY DEF IInv, TypeOK, Known
<1>3. mine'[p] = epoch' /\ at'[p] = "drain"
  BY DEF IInv, TypeOK
<1>4. Known'
  BY <1>1, <1>2, <1>3 DEF Known, TypeOK
<1>5. \A q \in Calls : at'[q] \in {"hooks", "held", "refused"} => mine'[q] # epoch'
  BY <1>1, <1>2, <1>3 DEF IInv, TypeOK
<1> QED
  BY <1>1, <1>4, <1>5 DEF IInv, HoldIsStill, Holding, RefusalLetsGo, InForce

LEMMA ExtendPreserves ==
  ASSUME IInv, NEW p \in Calls, NEW asked \in BOOLEAN, NEW length \in Lengths,
         ExtendPause(p, asked, length)
  PROVE  IInv'
<1> USE DEF ExtendPause, Goes
<1>1. TypeOK'
  BY GateAssumption DEF IInv, TypeOK, Places, Timers, Arms
<1>2. \A q \in Calls : q # p => mine'[q] = mine[q] /\ at'[q] = at[q]
  BY DEF IInv, TypeOK
<1>3. mine'[p] = epoch /\ at'[p] \in {"raise", "extended"}
  BY DEF IInv, TypeOK
<1>4. Known'
  BY <1>2, <1>3 DEF IInv, TypeOK, Known
<1> QED
  BY <1>1, <1>2, <1>3, <1>4 DEF IInv, HoldIsStill, Holding, RefusalLetsGo, InForce

\* A task that goes on without touching what the pause is.
LEMMA ServePreserves ==
  ASSUME IInv, NEW p \in Calls, Serve(p)
  PROVE  IInv'
<1> USE DEF Answers, Goes, gate
<1>1. CASE Drained(p)
  BY <1>1 DEF Drained, IInv, TypeOK, Places, Known, HoldIsStill, Holding, RefusalLetsGo, InForce
<1>2. CASE DrainTimesOut(p)
  BY <1>2, AbortPreserves DEF DrainTimesOut
<1>3. CASE HooksRan(p)
  BY <1>3 DEF HooksRan, Arms, IInv, TypeOK, Places, Timers,
              Known, HoldIsStill, Holding, RefusalLetsGo, InForce
<1>4. CASE HooksFailed(p)
  BY <1>4, AbortPreserves DEF HooksFailed
<1>5. CASE Raised(p)
  BY <1>5 DEF Raised, Arms, IInv, TypeOK, Places, Timers,
              Known, HoldIsStill, Holding, RefusalLetsGo, InForce
<1>6. CASE RaiseFailed(p)
  BY <1>6 DEF RaiseFailed, IInv, TypeOK, Places, Known, HoldIsStill, Holding, RefusalLetsGo, InForce
<1> QED
  BY <1>1, <1>2, <1>3, <1>4, <1>5, <1>6 DEF Serve

LEMMA TimerPreserves ==
  ASSUME IInv, NEW p \in Calls, Timer(p)
  PROVE  IInv'
<1>1. CASE TimerIsDue(p) \/ TimerChecks(p)
  BY <1>1 DEF TimerIsDue, TimerChecks, Fires, gate, IInv, TypeOK, Timers,
              Known, HoldIsStill, Holding, RefusalLetsGo, InForce
<1>2. CASE TimerEnds(p)
  <2>1. TypeOK'
    BY <1>2 DEF TimerEnds, Ended, Fires, IInv, TypeOK, Timers
  <2> QED
    BY <1>2, <2>1, EndingPreserves DEF TimerEnds, Fires
<1> QED
  BY <1>1, <1>2 DEF Timer

\* Every step keeps the invariant.
LEMMA StepPreserves == IInv /\ [Next]_vars => IInv'
<1> SUFFICES ASSUME IInv, [Next]_vars PROVE IInv'
  OBVIOUS
<1> USE DEF tasks
<1>1. CASE UNCHANGED vars
  BY <1>1 DEF vars, gate, IInv, TypeOK, Known, HoldIsStill, Holding, RefusalLetsGo, InForce
<1>2. CASE TakeTicket
  BY <1>2 DEF TakeTicket, IInv, TypeOK, Known, HoldIsStill, Holding, RefusalLetsGo, InForce
<1>3. CASE DropTicket
  BY <1>3 DEF DropTicket, IInv, TypeOK, Known, HoldIsStill, Holding, RefusalLetsGo, InForce
<1>4. ASSUME NEW p \in Calls, NEW asked \in BOOLEAN, NEW length \in Lengths,
             BeginPause(p, asked, length) \/ ExtendPause(p, asked, length)
      PROVE IInv'
  BY <1>4, BeginPreserves, ExtendPreserves
<1>5. ASSUME NEW p \in Calls, Serve(p) \/ Timer(p) PROVE IInv'
  BY <1>5, ServePreserves, TimerPreserves
<1>6. CASE Resume \/ StopResumes
  <2>1. TypeOK'
    <3>1. Ended
      BY <1>6 DEF Resume, StopResumes
    <3> QED
      BY <1>6, <3>1, EndedTypes DEF Resume, StopResumes, IInv, TypeOK
  <2> QED
    BY <1>6, <2>1, EndingPreserves DEF Resume, StopResumes
<1>7. CASE StopBegins \/ Tick
  BY <1>7 DEF StopBegins, Tick, gate, IInv, TypeOK, Known, HoldIsStill, Holding, RefusalLetsGo, InForce
<1> QED
  BY <1>1, <1>2, <1>3, <1>4, <1>5, <1>6, <1>7 DEF Next

LEMMA Invariance == Spec => []IInv
  BY InitEstablishes, StepPreserves, PTL DEF Spec

\* Every variable of the gate keeps its type.
THEOREM TypeCorrect == Spec => []TypeOK
<1>1. IInv => TypeOK
  BY DEF IInv
<1> QED
  BY <1>1, Invariance, PTL

\* Between the hooks of a pause and its end no write ticket is out.
THEOREM HeldFilesAreStill == Spec => []HoldIsStill
<1>1. IInv => HoldIsStill
  BY DEF IInv
<1> QED
  BY <1>1, Invariance, PTL

\* A call that was refused has no pause in force.
THEOREM RefusedCallsLetGo == Spec => []RefusalLetsGo
<1>1. IInv => RefusalLetsGo
  BY DEF IInv
<1> QED
  BY <1>1, Invariance, PTL

(***************************************************************************)
(* The refinement.                                                         *)
(***************************************************************************)

\* Ending a pause releases what it held, or changes nothing that is promised.
LEMMA EndingReleases ==
  ASSUME Ended PROVE [Promise!Next]_(Promise!vars)
  BY DEF Ended, Holding, Promise!Next, Promise!Release, Promise!vars

\* What leaves the gate, the pauses of the calls and who holds as they were.
LEMMA StillAsBefore ==
  ASSUME UNCHANGED <<writers, paused, epoch>>,
         \A q \in Calls : /\ (mine[q] = epoch)' <=> mine[q] = epoch
                          /\ (at[q] \in {"hooks", "held"})' <=> at[q] \in {"hooks", "held"}
  PROVE  UNCHANGED Promise!vars
  BY DEF Holding, Promise!vars

\* Every step of the gate is a step of the contract or leaves it as it was.
LEMMA StepRefines == IInv /\ [Next]_vars => [Promise!Next]_(Promise!vars)
<1> SUFFICES ASSUME IInv, [Next]_vars PROVE [Promise!Next]_(Promise!vars)
  OBVIOUS
<1> USE DEF tasks
<1>1. CASE UNCHANGED vars \/ StopBegins \/ Tick
  BY <1>1 DEF vars, gate, StopBegins, Tick, Holding, Promise!vars
<1>2. CASE TakeTicket
  BY <1>2 DEF TakeTicket, Holding, Promise!Next, Promise!TakeTicket, Promise!vars
<1>3. CASE DropTicket
  BY <1>3 DEF DropTicket, Holding, Promise!Next, Promise!DropTicket, Promise!vars
<1>4. CASE Resume \/ StopResumes
  BY <1>4, EndingReleases DEF Resume, StopResumes
<1>5. ASSUME NEW p \in Calls, NEW asked \in BOOLEAN, NEW length \in Lengths,
             BeginPause(p, asked, length)
      PROVE  UNCHANGED Promise!vars
  <2>1. ~Holding
    BY <1>5 DEF BeginPause, Holding
  <2>2. \A q \in Calls : at'[q] \in {"hooks", "held"} => mine'[q] # epoch'
    BY <1>5 DEF BeginPause, Goes, IInv, TypeOK, Known
  <2> QED
    BY <1>5, <2>1, <2>2 DEF BeginPause, Holding, Promise!vars
<1>6. ASSUME NEW p \in Calls, NEW asked \in BOOLEAN, NEW length \in Lengths,
             ExtendPause(p, asked, length)
      PROVE  UNCHANGED Promise!vars
  <2>1. \A q \in Calls : q # p => mine'[q] = mine[q] /\ at'[q] = at[q]
    BY <1>6 DEF ExtendPause, Goes, IInv, TypeOK
  <2>2. at[p] \notin {"hooks", "held"} /\ at'[p] \notin {"hooks", "held"}
    BY <1>6 DEF ExtendPause, Goes, IInv, TypeOK
  <2> QED
    BY <1>6, <2>1, <2>2 DEF ExtendPause, Holding, Promise!vars
<1>7. ASSUME NEW p \in Calls, Serve(p) PROVE [Promise!Next]_(Promise!vars)
  <2> USE DEF Answers, Goes, gate, IInv, TypeOK
  \* The step that holds: no ticket is out.
  <2>1. CASE Drained(p)
    <3>1. writers = 0 /\ UNCHANGED writers
      BY <2>1 DEF Drained
    <3>2. Holding => Holding'
      BY <2>1 DEF Drained, Holding
    <3> QED
      BY <3>1, <3>2 DEF Promise!Next, Promise!Hold, Promise!vars, Holding
  <2>2. CASE DrainTimesOut(p) \/ HooksFailed(p)
    <3>1. CASE epoch = mine[p]
      BY <2>2, <3>1, EndingReleases DEF DrainTimesOut, HooksFailed, Aborts
    <3>2. CASE epoch # mine[p]
      BY <2>2, <3>2 DEF DrainTimesOut, HooksFailed, Aborts, Holding, Promise!vars
    <3> QED
      BY <3>1, <3>2
  <2>3. CASE HooksRan(p)
    BY <2>3, StillAsBefore DEF HooksRan
  <2>4. CASE Raised(p)
    BY <2>4, StillAsBefore DEF Raised
  <2>5. CASE RaiseFailed(p)
    BY <2>5, StillAsBefore DEF RaiseFailed
  <2> QED
    BY <1>7, <2>1, <2>2, <2>3, <2>4, <2>5 DEF Serve
<1>8. ASSUME NEW p \in Calls, Timer(p) PROVE [Promise!Next]_(Promise!vars)
  BY <1>8, EndingReleases
  DEF Timer, TimerIsDue, TimerChecks, TimerEnds, Fires, gate, Holding, Promise!vars
<1> QED
  BY <1>1, <1>2, <1>3, <1>4, <1>5, <1>6, <1>7, <1>8 DEF Next

\* The gate implements the contract of a pause: whatever calls, refusals,
\* timers and stops meet, nobody writes while a pause holds the files still.
THEOREM GateKeepsContract == Spec => Promise!Spec
<1>1. Init => Promise!Init
  BY DEF Init, Promise!Init, Holding
<1> QED
  BY <1>1, Invariance, StepRefines, PTL DEF Spec, Promise!Spec
=============================================================================
