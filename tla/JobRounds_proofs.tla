-------------------------- MODULE JobRounds_proofs --------------------------
(***************************************************************************)
(* No call of replay() gets the summary of a round that had begun before   *)
(* it, for any callers and any number of calls that nobody waits for.      *)
(***************************************************************************)
EXTENDS JobRounds, TLAPS

\* Who called during the present round of replay() made it go round again;
\* that round runs.
JoinedGoesAgain ==
    which = "replay" =>
        /\ job \in {"none", "round"}
        /\ \A c \in Callers : calls[c] = "asked" => job = "round" /\ again

IInv == TypeOK /\ JoinedGoesAgain /\ ReplaysAreFresh

LEMMA InitEstablishes == Init => IInv
  BY DEF Init, IInv, TypeOK, JoinedGoesAgain, ReplaysAreFresh, Outcomes

LEMMA CallsMade ==
  ASSUME IInv, NEW C \in SUBSET Callers, NEW how \in {"asked", "begun"}, CallBy(C, how)
  PROVE  /\ calls' \in [Callers -> {"idle", "asked", "begun"}]
         /\ \A c \in Callers : calls'[c] \in {calls[c], how}
  BY DEF CallBy, IInv, TypeOK

LEMMA JoinPreserves == ASSUME IInv, NEW C \in SUBSET Callers, Join(C) PROVE IInv'
<1>1. calls' \in [Callers -> {"idle", "asked", "begun"}]
  BY CallsMade DEF Join
<1>2. TypeOK' /\ ReplaysAreFresh'
  BY <1>1 DEF Join, IInv, TypeOK, ReplaysAreFresh
<1>3. JoinedGoesAgain'
  BY DEF Join, IInv, JoinedGoesAgain
<1> QED
  BY <1>2, <1>3 DEF IInv

\* Nobody is waiting when a job starts: its first round answers who starts it.
LEMMA StartPreserves == ASSUME IInv, NEW C \in SUBSET Callers, Start(C) PROVE IInv'
<1>1. /\ calls' \in [Callers -> {"idle", "asked", "begun"}]
      /\ \A c \in Callers : calls'[c] \in {calls[c], "begun"}
  BY CallsMade DEF Start
<1>2. TypeOK' /\ ReplaysAreFresh'
  BY <1>1 DEF Start, IInv, TypeOK, ReplaysAreFresh
<1>3. JoinedGoesAgain'
  BY <1>1 DEF Start, IInv, JoinedGoesAgain
<1> QED
  BY <1>2, <1>3 DEF IInv

\* What everybody who waits is told.
LEMMA SettledType ==
  ASSUME IInv, NEW with \in [Callers -> Outcomes], Settles(with)
  PROVE  /\ calls' \in [Callers -> {"idle", "asked", "begun"}]
         /\ got' \in [Callers -> Outcomes]
         /\ \A c \in Callers : calls'[c] = "idle" /\ got'[c] \in {got[c], with[c]}
  BY DEF Settles, IInv, TypeOK

\* A job that ends with nobody to be gone round for again.
LEMMA AnswerPreserves ==
  ASSUME IInv, NEW stopped \in BOOLEAN, Answer(stopped), job' = "none",
         which = "replay" => job = "round" /\ ~again, UNCHANGED <<which, again>>
  PROVE  IInv'
<1> DEFINE with == [c \in Callers |-> IF calls[c] = "begun" THEN "fresh"
                                    ELSE IF stopped THEN "stopped" ELSE "stale"]
<1>1. with \in [Callers -> Outcomes]
  BY DEF Outcomes
<1>2. /\ calls' \in [Callers -> {"idle", "asked", "begun"}] /\ got' \in [Callers -> Outcomes]
      /\ \A c \in Callers : calls'[c] = "idle"
  <2> HIDE DEF with
  <2>1. Settles(with)
    BY DEF Answer, with
  <2> QED
    BY <1>1, <2>1, SettledType
<1>3. TypeOK' /\ JoinedGoesAgain'
  BY <1>2 DEF IInv, TypeOK, JoinedGoesAgain
<1>4. ASSUME which = "replay", NEW c \in Callers
      PROVE  got'[c] \in {"nothing", "fresh", "failed"}
  <2>1. calls[c] # "asked" /\ calls[c] \in {"idle", "asked", "begun"}
    BY <1>4 DEF IInv, TypeOK, JoinedGoesAgain
  <2>2. CASE calls[c] = "begun"
    <3>1. with[c] = "fresh"
      BY <2>2
    <3>4. c \in Waiting
      BY <2>2 DEF Waiting
    <3>2. Settles(with)
      BY DEF Answer
    <3> HIDE DEF with
    <3>3. got'[c] = with[c]
      BY <3>4, <3>2 DEF Settles
    <3> QED
      BY <3>1, <3>3
  <2>3. CASE calls[c] = "idle"
    <3>1. c \notin Waiting /\ got[c] \in {"nothing", "fresh", "failed"}
      BY <1>4, <2>3 DEF Waiting, IInv, ReplaysAreFresh
    <3>2. Settles(with)
      BY DEF Answer
    <3> HIDE DEF with
    <3>3. got'[c] = got[c]
      BY <3>1, <3>2 DEF Settles
    <3> QED
      BY <3>1, <3>3
  <2> QED
    BY <2>1, <2>2, <2>3
<1> QED
  BY <1>3, <1>4 DEF IInv, ReplaysAreFresh

LEMMA RoundPreserves ==
  ASSUME IInv, NEW stopped \in BOOLEAN, RoundAgain(stopped) \/ LastRound(stopped)
  PROVE  IInv'
<1>1. CASE RoundAgain(stopped)
  BY <1>1 DEF RoundAgain, IInv, TypeOK, JoinedGoesAgain, ReplaysAreFresh
<1>2. CASE LastRound(stopped) /\ ForgottenLate
  BY <1>2 DEF LastRound, ForgottenLate, IInv, TypeOK, JoinedGoesAgain, ReplaysAreFresh
<1>3. CASE LastRound(stopped) /\ ~ForgottenLate
  BY <1>3, AnswerPreserves DEF LastRound, ForgottenLate, StopEndsIt
<1> QED
  BY <1>1, <1>2, <1>3

LEMMA ThrowPreserves == IInv /\ RoundThrows => IInv'
<1> SUFFICES ASSUME IInv, RoundThrows PROVE IInv'
  OBVIOUS
<1> DEFINE with == [c \in Callers |-> "failed"]
<1>1. with \in [Callers -> Outcomes] /\ \A c \in Callers : with[c] = "failed"
  BY DEF Outcomes
<1>2. /\ calls' \in [Callers -> {"idle", "asked", "begun"}] /\ got' \in [Callers -> Outcomes]
      /\ \A c \in Callers : calls'[c] = "idle" /\ got'[c] \in {got[c], "failed"}
  <2> HIDE DEF with
  <2>1. Settles(with)
    BY DEF RoundThrows, with
  <2> QED
    BY <1>1, <2>1, SettledType
<1> QED
  BY <1>2 DEF RoundThrows, IInv, TypeOK, JoinedGoesAgain, ReplaysAreFresh

LEMMA StepPreserves == IInv /\ [Next]_vars => IInv'
<1> SUFFICES ASSUME IInv, [Next]_vars PROVE IInv'
  OBVIOUS
<1>1. ASSUME NEW C \in SUBSET Callers, Join(C) \/ Start(C) PROVE IInv'
  BY <1>1, JoinPreserves, StartPreserves
<1>2. CASE RoundEnds
  BY <1>2, RoundPreserves DEF RoundEnds
<1>3. CASE RoundThrows
  BY <1>3, ThrowPreserves
<1>4. CASE Forgotten
  <2>1. which # "replay" /\ (job = "over:stopped") \in BOOLEAN
    BY <1>4 DEF Forgotten, IInv, JoinedGoesAgain
  <2>2. PICK stopped \in BOOLEAN : Answer(stopped)
    BY <1>4, <2>1 DEF Forgotten
  <2> QED
    BY <1>4, <2>1, <2>2, AnswerPreserves DEF Forgotten
<1>5. CASE UNCHANGED vars
  BY <1>5 DEF vars, IInv, TypeOK, JoinedGoesAgain, ReplaysAreFresh
<1> QED
  BY <1>1, <1>2, <1>3, <1>4, <1>5 DEF Next

\* Every variable keeps its type.
THEOREM TypeCorrect == Spec => []TypeOK
<1>1. IInv => TypeOK
  BY DEF IInv
<1> QED
  BY <1>1, InitEstablishes, StepPreserves, PTL DEF Spec

\* data-queue.js: a call while a replay runs makes it go round once more, so no
\* call of replay() gets the summary of a round that had begun before it, also
\* after a round that threw.
THEOREM ReplaysAreAnsweredFresh == Spec => []ReplaysAreFresh
<1>1. IInv => ReplaysAreFresh
  BY DEF IInv
<1> QED
  BY <1>1, InitEstablishes, StepPreserves, PTL DEF Spec
=============================================================================
