---------------------------- MODULE EditContract ----------------------------
(***************************************************************************)
(* What a page promises of the edits made in it, whatever requests,        *)
(* reloads and other devices do: what it took on stays until it took       *)
(* effect or was dropped, an edit waits for those taken on before it, and  *)
(* none takes effect twice unless it may (OFFLINE_DESIGN.md:152-162).      *)
(***************************************************************************)
EXTENDS Naturals

CONSTANT Edits

VARIABLES
    made,        \* the edits made so far
    ahead,       \* for each edit those taken on before it was made
    stored,      \* the edits that survive the page
    kept,        \* the edits the page took on
    effects,     \* how often each edit took effect
    dropped,     \* given up
    failed,      \* refused, and left to the person
    repeatable   \* edits that may take effect more than once

vars == <<made, ahead, stored, kept, effects, dropped, failed, repeatable>>

Init ==
    /\ made = {} /\ ahead = [e \in Edits |-> {}]
    /\ stored = {} /\ kept = {}
    /\ effects = [e \in Edits |-> 0]
    /\ dropped = {} /\ failed = {} /\ repeatable = {}

Over(e) == effects[e] > 0 \/ e \in dropped \cup failed

Make(e) ==
    /\ e \notin made /\ made' = made \cup {e}
    /\ ahead' = [ahead EXCEPT ![e] = kept]
    /\ repeatable' \in {repeatable, repeatable \cup {e}}
    /\ UNCHANGED <<stored, kept, effects, dropped, failed>>

\* Stored, or stored again while a turn of the page is late.
Store(e) ==
    /\ e \in made /\ stored' = stored \cup {e}
    /\ UNCHANGED <<made, ahead, kept, effects, dropped, failed, repeatable>>

\* Nothing is taken on before it is stored.
Keep(E) ==
    /\ E \subseteq stored /\ kept' = kept \cup E
    /\ UNCHANGED <<made, ahead, stored, effects, dropped, failed, repeatable>>

TakeEffect(e) ==
    /\ e \in made /\ \A f \in ahead[e] : Over(f)
    /\ effects[e] = 0 \/ e \in repeatable
    /\ effects' = [effects EXCEPT ![e] = @ + 1]
    /\ UNCHANGED <<made, ahead, stored, kept, dropped, failed, repeatable>>

Clear(e) ==
    /\ effects[e] > 0 /\ stored' = stored \ {e}
    /\ UNCHANGED <<made, ahead, kept, effects, dropped, failed, repeatable>>

Drop(e) ==
    /\ e \in made /\ dropped' = dropped \cup {e} /\ stored' = stored \ {e}
    /\ UNCHANGED <<made, ahead, kept, effects, failed, repeatable>>

\* A refused edit is not lost.
Fail(e) ==
    /\ e \in made /\ failed' = failed \cup {e} /\ stored' = stored \cup {e}
    /\ UNCHANGED <<made, ahead, kept, effects, dropped, repeatable>>

\* The person saves it again on top of what is there now.
SaveAgain(e) ==
    /\ e \in made /\ repeatable' = repeatable \cup {e} /\ stored' = stored \cup {e}
    /\ UNCHANGED <<made, ahead, kept, effects, dropped, failed>>

Next ==
    \/ \E e \in Edits :
          \/ Make(e) \/ Store(e) \/ TakeEffect(e) \/ Clear(e)
          \/ Drop(e) \/ Fail(e) \/ SaveAgain(e)
    \/ \E E \in SUBSET stored : Keep(E)

Spec == Init /\ [][Next]_vars
=============================================================================
