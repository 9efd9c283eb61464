----------------------------- MODULE JobRounds -----------------------------
(***************************************************************************)
(* The handshake of a job that runs once at a time and is shared by every  *)
(* call: pull(name) of db-pull.js and replay() of data-queue.js.  A call   *)
(* that finds the job running sets "again", which sends the job round once *)
(* more, and shares its answer.  Many calls (timers, hints, "online") are  *)
(* made by nobody who waits for the answer, and there is no end of them.   *)
(* The two functions differ in when the job is forgotten after its last    *)
(* look at "again", in what a stopped round does to "again", and in that   *)
(* only a round of replay() can throw.                                     *)
(***************************************************************************)
CONSTANTS
    Callers    \* those who wait for the answer before they call again

VARIABLES
    which,     \* the function: "pull" or "replay"
    job,       \* "none", "round": a round runs, "over": the last one ended
    again,
    calls,     \* a caller's call: "idle", "asked", "begun" (a round has, since)
    got        \* what came of its last call

vars == <<which, job, again, calls, got>>

Waiting == {c \in Callers : calls[c] # "idle"}

\* The job is forgotten in a .finally() of its own (pull) or in the same turn
\* as its last look at "again" (replay); a stopped round is not gone round
\* again (pull); once() catches what a round throws (pull).
ForgottenLate == which = "pull"
StopEndsIt == which = "pull"
MayThrow == which = "replay"

Init ==
    /\ which \in {"pull", "replay"}
    /\ job = "none"
    /\ again = FALSE
    /\ calls = [c \in Callers |-> "idle"]
    /\ got = [c \in Callers |-> "nothing"]

\* Calls of this turn, by C and by others who do not wait.
CallBy(C, how) ==
    /\ C \cap Waiting = {}
    /\ calls' = [c \in Callers |-> IF c \in C THEN how ELSE calls[c]]

\* The job is running: join it.
Join(C) ==
    /\ job # "none"
    /\ again' = TRUE
    /\ CallBy(C, "asked")
    /\ UNCHANGED <<which, job, got>>

Start(C) ==
    /\ job = "none"
    /\ job' = "round"
    /\ again' = FALSE
    /\ CallBy(C, "begun")
    /\ UNCHANGED <<which, got>>

\* The promise of the job settles, for everybody who waits.
Settles(with) ==
    /\ calls' = [c \in Callers |-> "idle"]
    /\ got' = [c \in Callers |-> IF c \in Waiting THEN with[c] ELSE got[c]]

\* (Mutant: the promise settles with nothing.)
AnswerNothing(stopped) == Settles([c \in Callers |-> "undefined"])

\* It settles with the summary of the last round.
Answer(stopped) ==
    Settles([c \in Callers |-> IF calls[c] = "begun" THEN "fresh"
                               ELSE IF stopped THEN "stopped" ELSE "stale"])

\* (Mutant: "again" is not reset before the next round.)
RoundAgainStill(stopped) ==
    /\ job = "round"
    /\ again
    /\ ~(StopEndsIt /\ stopped)
    /\ calls' = [c \in Callers |-> IF c \in Waiting THEN "begun" ELSE "idle"]
    /\ UNCHANGED <<which, job, again, got>>

RoundAgain(stopped) ==
    /\ job = "round"
    /\ again
    /\ ~(StopEndsIt /\ stopped)
    /\ again' = FALSE
    /\ calls' = [c \in Callers |-> IF c \in Waiting THEN "begun" ELSE "idle"]
    /\ UNCHANGED <<which, job, got>>

\* (Mutant: the job ends without a last look at "again".)
LastRoundUnseen(stopped) ==
    /\ job = "round"
    /\ IF ForgottenLate
       THEN /\ job' = (IF stopped THEN "over:stopped" ELSE "over")
            /\ UNCHANGED <<calls, got>>
       ELSE job' = "none" /\ Answer(stopped)
    /\ UNCHANGED <<which, again>>

LastRound(stopped) ==
    /\ job = "round"
    /\ ~again \/ (StopEndsIt /\ stopped)
    /\ IF ForgottenLate
       THEN /\ job' = (IF stopped THEN "over:stopped" ELSE "over")
            /\ UNCHANGED <<calls, got>>
       ELSE job' = "none" /\ Answer(stopped)
    /\ UNCHANGED <<which, again>>

\* The store fails in a round: the job is over, "again" is left as it was, and
\* whoever joined fails with it.
RoundThrows ==
    /\ job = "round" /\ MayThrow
    /\ job' = "none"
    /\ Settles([c \in Callers |-> "failed"])
    /\ UNCHANGED <<which, again>>

\* .finally(() => running.delete(name)): a later turn.
Forgotten ==
    /\ job \in {"over", "over:stopped"}
    /\ job' = "none"
    /\ Answer(job = "over:stopped")
    /\ UNCHANGED <<which, again>>

RoundEnds == \E stopped \in BOOLEAN : RoundAgain(stopped) \/ LastRound(stopped)

Next ==
    \/ \E C \in SUBSET Callers : Join(C) \/ Start(C)
    \/ RoundEnds \/ RoundThrows \/ Forgotten

Spec == Init /\ [][Next]_vars

\* Every round ends: the answer of the service or the failure of the request,
\* unless it throws.
FairSpec == Spec /\ WF_vars(RoundEnds) /\ WF_vars(Forgotten)

(***************************************************************************)
(* Properties.                                                             *)
(***************************************************************************)

Outcomes == {"nothing", "fresh", "stale", "stopped", "failed"}

\* Every variable keeps its type.
TypeOK ==
    /\ which \in {"pull", "replay"}
    /\ job \in {"none", "round", "over", "over:stopped"}
    /\ again \in BOOLEAN
    /\ calls \in [Callers -> {"idle", "asked", "begun"}]
    /\ got \in [Callers -> Outcomes]

\* data-queue.js: "A call while one runs [...] makes it go round once more".
\* No call of replay() gets the summary of a round that had begun before it,
\* also after a round that threw with "again" set.
ReplaysAreFresh ==
    which = "replay" => \A c \in Callers : got[c] \in {"nothing", "fresh", "failed"}

\* db-pull.js:107, "changes may have landed after this pull read its last page:
\* go round once more", of a pull that was not stopped.  A call in the turn
\* between the last look at "again" and the .finally() does not get this.
PullsAreFresh == which = "pull" => \A c \in Callers : got[c] # "stale"

\* Once calls cease to join a running job, every caller is answered: no round
\* sends itself round again, no caller is forgotten by a job that ends, throws
\* or is stopped.
CallsAreAnswered ==
    <>[][again' => again]_vars =>
        \A c \in Callers : c \in Waiting ~> c \notin Waiting

\* Every caller is answered although others join for ever.  Neither function
\* keeps this: do { ... } while (again).
AnsweredThoughJoined == \A c \in Callers : c \in Waiting ~> c \notin Waiting
=============================================================================
