--------------------------- MODULE PauseContract ---------------------------
(***************************************************************************)
(* What a backup pause promises, whatever calls, timers and writers do:    *)
(* once it stands still nobody writes until it is released, and every hold *)
(* is released in the end (backup.rs:33-50).                               *)
(***************************************************************************)
EXTENDS Naturals

VARIABLES
    writing,   \* how many write tickets are out
    still      \* the files are held still

vars == <<writing, still>>

Init == writing = 0 /\ still = FALSE

TakeTicket == ~still /\ writing' = writing + 1 /\ UNCHANGED still

DropTicket == writing > 0 /\ writing' = writing - 1 /\ UNCHANGED still

\* Held only when the tickets that were out have come back.
Hold == writing = 0 /\ still' = TRUE /\ UNCHANGED writing

Release == still /\ still' = FALSE /\ UNCHANGED writing

Next == TakeTicket \/ DropTicket \/ Hold \/ Release

Spec == Init /\ [][Next]_vars

\* No hold lasts for ever.
FairSpec == Spec /\ WF_vars(Release)
=============================================================================
