---------------------------- MODULE Outbox_proofs ----------------------------
(***************************************************************************)
(* No message is lost, taken twice without a fault or slept on, for any    *)
(* number of messages, caps, changes of the addresses and faults.          *)
(***************************************************************************)
EXTENDS Outbox, TLAPS, FiniteSetTheorems

\* The types the argument needs.
Shape ==
    /\ emitted \in Nat /\ faults \in Nat /\ cap \in Nat \ {0}
    /\ hand \in Seq(Messages)
    /\ Stored \subseteq Messages /\ kept \subseteq Messages
    /\ times \in [Messages -> Nat]
    /\ step \in {"picked", "ask", "accepted"} => msg \in Messages

\* What is in the hand-off is in order, and newer than what is stored or
\* under way.
Queued ==
    /\ \A i \in 1 .. Len(hand) :
        /\ hand[i] <= emitted
        /\ \A m \in Stored : m < hand[i]
        /\ \A j \in 1 .. Len(hand) : j < i => hand[j] < hand[i]
    /\ \A m \in Stored : m <= emitted
    /\ step \in {"picked", "ask", "accepted"} =>
        msg <= emitted /\ \A i \in 1 .. Len(hand) : msg < hand[i]

\* A message that may still be offered, without what was just accepted.
ToCome(m) ==
    /\ \/ m > emitted
       \/ \E i \in 1 .. Len(hand) : hand[i] = m
       \/ m \in Stored
       \/ step \in {"picked", "ask"} /\ msg = m
    /\ ~(step = "accepted" /\ msg = m)

\* It was taken no more often than something went wrong.
Offered == \A m \in Messages : ToCome(m) => times[m] <= faults

AcceptedTook == step = "accepted" => times[msg] > 0

IInv ==
    /\ Shape /\ Queued /\ AcceptedTook /\ Offered
    /\ NothingLost /\ TakenTwiceOnlyByFault

LEMMA InitEstablishes == Init => IInv
<1> SUFFICES ASSUME Init PROVE IInv
  OBVIOUS
<1>1. Stored = {} /\ Len(hand) = 0
  BY DEF Init, Stored
<1>2. Shape
  BY <1>1, OutboxAssumption DEF Init, Shape
<1> QED
  BY <1>1, <1>2 DEF Init, IInv, Queued, AcceptedTook, Offered, NothingLost, TakenTwiceOnlyByFault

\* A step of the writer or of a change of the addresses that leaves what is
\* stored and what the loop works on alone.
LEMMA BystanderPreserves ==
  ASSUME IInv, UNCHANGED <<emitted, hand, kept, times, cap, step, msg>>,
         Stored' = Stored, faults' \in Nat, faults' >= faults
  PROVE  IInv'
<1> USE DEF IInv
<1>1. Shape' /\ Queued' /\ AcceptedTook' /\ NothingLost'
  BY DEF Shape, Queued, AcceptedTook, NothingLost
<1>2. \A m \in Messages : ToCome(m)' => ToCome(m)
  BY DEF ToCome
<1>3. Offered' /\ TakenTwiceOnlyByFault'
  BY <1>2 DEF Shape, Offered, TakenTwiceOnlyByFault
<1> QED
  BY <1>1, <1>3

\* A step of the loop on a message that nobody has taken.
LEMMA LoopMovePreserves ==
  ASSUME IInv, UNCHANGED <<emitted, hand, kept, times, cap>>,
         Stored' = Stored, faults' \in Nat, faults' >= faults,
         step # "accepted", step' # "accepted",
         step' \in {"picked", "ask"} =>
            \/ msg' \in Stored
            \/ step \in {"picked", "ask"} /\ msg' = msg
  PROVE  IInv'
<1> USE DEF IInv
<1>1. Shape' /\ Queued' /\ AcceptedTook' /\ NothingLost'
  BY DEF Shape, Queued, AcceptedTook, NothingLost
<1>2. \A m \in Messages : ToCome(m)' => ToCome(m)
  BY DEF ToCome
<1>3. Offered' /\ TakenTwiceOnlyByFault'
  BY <1>2 DEF Shape, Offered, TakenTwiceOnlyByFault
<1> QED
  BY <1>1, <1>3

LEMMA EmitPreserves == IInv /\ Emit => IInv'
<1> SUFFICES ASSUME IInv, Emit PROVE IInv'
  OBVIOUS
<1> USE DEF IInv, Emit, loop, ghosts
<1>1. emitted + 1 \in Messages
  BY OutboxAssumption DEF Messages, Shape
<1>2. Stored' = Stored
  BY DEF Stored
<1>3. \/ hand' = hand
      \/ /\ hand' = Append(hand, emitted + 1)
         /\ Len(hand') = Len(hand) + 1
         /\ \A i \in 1 .. Len(hand) : hand'[i] = hand[i]
         /\ hand'[Len(hand')] = emitted + 1
  BY <1>1 DEF Shape
<1>4. Shape' /\ AcceptedTook' /\ NothingLost' /\ TakenTwiceOnlyByFault'
  BY <1>1, <1>2, <1>3 DEF Shape, AcceptedTook, NothingLost, TakenTwiceOnlyByFault
<1>5. Queued'
  <2>0. \A i \in 1 .. Len(hand) : hand[i] \in Messages
    BY DEF Shape
  <2>1. CASE hand' = hand
    BY <1>2, <2>0, <2>1 DEF Shape, Queued, Messages
  <2>2. CASE hand' # hand
    <3>1. /\ Len(hand') = Len(hand) + 1 /\ hand'[Len(hand')] = emitted + 1
          /\ \A i \in 1 .. Len(hand) : hand'[i] = hand[i] /\ hand[i] <= emitted
      BY <1>3, <2>2 DEF Queued
    <3>2. \A i \in 1 .. Len(hand') : i \in 1 .. Len(hand) \/ i = Len(hand')
      BY <3>1 DEF Shape
    <3>3. \A i \in 1 .. Len(hand) : hand[i] \in Nat
      BY <2>0, OutboxAssumption DEF Messages
    <3>4. \A i \in 1 .. Len(hand') : hand'[i] <= emitted + 1 /\ \A m \in Stored : m < hand'[i]
      BY <3>1, <3>2, <3>3 DEF Shape, Queued, Messages
    <3>5. \A i, j \in 1 .. Len(hand') : j < i => hand'[j] < hand'[i]
      BY <3>1, <3>2, <3>3 DEF Shape, Queued
    <3>6. step \in {"picked", "ask", "accepted"} => \A i \in 1 .. Len(hand') : msg < hand'[i]
      BY <3>1, <3>2 DEF Shape, Queued, Messages
    <3> QED
      BY <1>2, <3>4, <3>5, <3>6 DEF Shape, Queued, Messages
  <2> QED
    BY <2>1, <2>2
<1>6. \A m \in Messages : ToCome(m)' => ToCome(m)
  BY <1>1, <1>2, <1>3 DEF ToCome, Shape, Messages
<1>7. Offered'
  BY <1>6 DEF Offered
<1> QED
  BY <1>4, <1>5, <1>7

\* What leaves the hand-off leaves the rest of it in order.
LEMMA TailOfHand ==
  ASSUME Shape, hand # <<>>, hand' = Tail(hand)
  PROVE  /\ First = hand[1] /\ First \in Messages
         /\ hand' \in Seq(Messages) /\ Len(hand') = Len(hand) - 1 /\ Len(hand) >= 1
         /\ \A i \in 1 .. Len(hand') : hand'[i] = hand[i + 1]
  BY DEF Shape, First

LEMMA ForgoPreserves == IInv /\ Forgo => IInv'
<1> SUFFICES ASSUME IInv, Forgo PROVE IInv'
  OBVIOUS
<1> USE DEF IInv, Forgo, Fault, loop, ghosts, bounds
<1>1. Stored' = Stored
  BY DEF Stored
<1>2. faults' \in Nat /\ faults' >= faults
  BY DEF Shape
<1>3. /\ hand' \in Seq(Messages) /\ Len(hand') = Len(hand) - 1 /\ Len(hand) >= 1
      /\ \A i \in 1 .. Len(hand') : hand'[i] = hand[i + 1]
  BY TailOfHand
<1>4. Shape' /\ AcceptedTook' /\ NothingLost' /\ TakenTwiceOnlyByFault'
  BY <1>1, <1>2, <1>3 DEF Shape, AcceptedTook, NothingLost, TakenTwiceOnlyByFault
<1>5. Queued'
  BY <1>1, <1>3 DEF Shape, Queued
<1>6. \A m \in Messages : ToCome(m)' => ToCome(m)
  BY <1>1, <1>3 DEF ToCome, Shape
<1>7. Offered'
  BY <1>2, <1>6 DEF Offered, Shape
<1> QED
  BY <1>4, <1>5, <1>7

\* The cap keeps the newest message, whatever it drops.
LEMMA CapKeepsTheNewest ==
  ASSUME Shape, NEW m \in Messages, \A k \in Stored : k < m
  PROVE  /\ m \in DOMAIN Capped(With(m, "now"))
         /\ DOMAIN Capped(With(m, "now")) \subseteq Stored \cup {m}
<1> DEFINE all == With(m, "now")
<1>1. DOMAIN all = Stored \cup {m}
  BY DEF With
<1>2. {l \in DOMAIN all : l > m} = {}
  BY <1>1 DEF Shape, Messages
<1>3. Cardinality({l \in DOMAIN all : l > m}) < cap
  BY <1>2, FS_EmptySet DEF Shape
<1>4. DOMAIN Capped(all) =
        {k \in DOMAIN all : Cardinality({l \in DOMAIN all : l > k}) < cap}
  BY DEF Capped, Restrict
<1> QED
  BY <1>1, <1>3, <1>4

LEMMA KeepPreserves == IInv /\ Keep => IInv'
<1> SUFFICES ASSUME IInv, Keep PROVE IInv'
  OBVIOUS
<1> USE DEF IInv, Keep, Fault, loop, bounds
<1>1. faults' \in Nat /\ faults' >= faults /\ emitted' = emitted /\ cap' = cap
  BY DEF Shape
<1>2. /\ First = hand[1] /\ First \in Messages
      /\ hand' \in Seq(Messages) /\ Len(hand') = Len(hand) - 1 /\ Len(hand) >= 1
      /\ \A i \in 1 .. Len(hand') : hand'[i] = hand[i + 1]
  BY TailOfHand
<1>3. (\A k \in Stored : k < First) /\ First <= emitted
  BY <1>2 DEF Queued, Shape
<1>4. First \in Stored' /\ Stored' \subseteq Stored \cup {First}
  BY <1>2, <1>3, CapKeepsTheNewest DEF Stored
<1>5. kept' = (kept \cup {First}) \ (Stored \ Stored')
  BY DEF Stored
<1>6. Shape' /\ AcceptedTook'
  BY <1>1, <1>2, <1>4, <1>5 DEF Shape, AcceptedTook
<1>7. NothingLost'
  BY <1>4, <1>5 DEF NothingLost
<1>8. Queued'
  <2>1. \A i \in 1 .. Len(hand') : i + 1 \in 1 .. Len(hand) /\ First < hand'[i]
    BY <1>2 DEF Queued, Shape
  <2> QED
    BY <1>1, <1>2, <1>3, <1>4, <2>1 DEF Queued, Shape, Messages
<1>9. \A m \in Messages : ToCome(m)' => ToCome(m)
  BY <1>1, <1>2, <1>4 DEF ToCome, Shape
<1>10. Offered' /\ TakenTwiceOnlyByFault'
  BY <1>1, <1>9 DEF Shape, Offered, TakenTwiceOnlyByFault
<1> QED
  BY <1>6, <1>7, <1>8, <1>10

\* A target takes the message, and says so or not.
LEMMA TakePreserves ==
  ASSUME IInv, step = "ask", Took, UNCHANGED <<emitted, hand, cap, msg>>,
         Stored' = Stored, faults' \in Nat,
         \/ step' = "accepted" /\ faults' = faults
         \/ step' = "ask" /\ faults' = faults + 1
  PROVE  IInv'
<1> USE DEF IInv, Took
<1>1. msg \in Messages /\ times' \in [Messages -> Nat] /\ times'[msg] = times[msg] + 1
  BY DEF Shape
<1>2. \A m \in Messages : m # msg => times'[m] = times[m]
  BY DEF Shape
<1>3. times[msg] <= faults
  BY <1>1 DEF Offered, ToCome
<1>4. Shape' /\ Queued' /\ AcceptedTook'
  BY <1>1 DEF Shape, Queued, AcceptedTook
<1>5. NothingLost'
  BY <1>1, <1>2 DEF NothingLost, Shape
<1>6. \A m \in Messages : m # msg /\ ToCome(m)' => ToCome(m)
  BY DEF ToCome
<1>7. Offered' /\ TakenTwiceOnlyByFault'
  BY <1>1, <1>2, <1>3, <1>6 DEF Shape, Offered, ToCome, TakenTwiceOnlyByFault
<1> QED
  BY <1>4, <1>5, <1>7

LEMMA DeletePreserves == IInv /\ Delete => IInv'
<1> SUFFICES ASSUME IInv, Delete PROVE IInv'
  OBVIOUS
<1> USE DEF IInv, Delete, DoneThen, Fault, AtRest, tasks, ghosts, bounds
<1>1. msg \in Messages /\ times[msg] > 0 /\ step = "accepted" /\ step' = "look"
  BY DEF Shape, AcceptedTook
<1>2. \/ Stored' = Stored \ {msg} /\ faults' = faults
      \/ Stored' = Stored /\ faults' = faults + 1
  BY DEF Stored, Restrict
<1>3. Shape' /\ Queued' /\ AcceptedTook'
  BY <1>1, <1>2 DEF Shape, Queued, AcceptedTook
<1>4. NothingLost'
  BY <1>1, <1>2 DEF NothingLost
<1>5. \A m \in Messages : m # msg /\ ToCome(m)' => ToCome(m)
  BY <1>1, <1>2 DEF ToCome
<1>6. \A m \in Messages : m = msg /\ ToCome(m)' => faults' = faults + 1
  BY <1>1, <1>2 DEF ToCome, Queued, Shape, Messages
<1>7. Offered' /\ TakenTwiceOnlyByFault'
  BY <1>1, <1>2, <1>5, <1>6 DEF Shape, Offered, TakenTwiceOnlyByFault
<1> QED
  BY <1>3, <1>4, <1>7

LEMMA RestartPreserves == IInv /\ Restart => IInv'
<1> SUFFICES ASSUME IInv, Restart PROVE IInv'
  OBVIOUS
<1> USE DEF IInv, Restart, Fault
<1>1. Stored' = Stored /\ Len(hand') = 0 /\ faults' = faults + 1
  BY DEF Stored
<1>2. Shape' /\ Queued' /\ AcceptedTook' /\ NothingLost'
  BY <1>1 DEF Shape, Queued, AcceptedTook, NothingLost
\* What had just been accepted may be offered again.
<1>3. Offered' /\ TakenTwiceOnlyByFault'
  BY <1>1 DEF Shape, Offered, TakenTwiceOnlyByFault
<1> QED
  BY <1>2, <1>3

\* The loop, one action at a time.
LEMMA LoopPreserves == IInv /\ (Taken \/ Loop) => IInv'
<1> SUFFICES ASSUME IInv, Taken \/ Loop PROVE IInv'
  OBVIOUS
<1> USE DEF AtRest, tasks, bounds, Goes, DoneThen, NobodyTook, Fault
<1>0. faults \in Nat
  BY DEF IInv, Shape
<1>1. CASE Taken
  <2>1. Stored' = Stored /\ Took /\ step = "ask" /\ step' = "accepted"
    BY <1>1 DEF Taken, Stored
  <2>2. UNCHANGED <<emitted, hand, cap, msg, faults>>
    BY <1>1 DEF Taken
  <2> QED
    BY <1>0, <2>1, <2>2, TakePreserves
<1>2. CASE Pick
  <2>1. msg' \in Stored /\ Stored' = Stored /\ step = "look" /\ step' = "picked"
    BY <1>2 DEF Pick, Due, Stored
  <2> QED
    BY <1>0, <1>2, <2>1, LoopMovePreserves DEF Pick, ghosts
<1>3. CASE Sleep
  BY <1>0, <1>3, LoopMovePreserves DEF Sleep, Stored
<1>4. CASE Offer
  BY <1>0, <1>4, LoopMovePreserves DEF Offer, Stored, ghosts
<1>5. CASE NotTaken
  <2>1. Stored' = Stored /\ step = "ask" /\ step' = step
    BY <1>5 DEF NotTaken, Stored
  <2>2. CASE UNCHANGED <<ghosts, bounds>>
    BY <1>0, <1>5, <2>1, <2>2, LoopMovePreserves DEF NotTaken, ghosts
  <2>3. CASE Took /\ Fault
    BY <1>0, <1>5, <2>1, <2>3, TakePreserves DEF NotTaken
  <2> QED
    BY <1>5, <2>2, <2>3 DEF NotTaken
<1>6. CASE Delete
  BY <1>6, DeletePreserves
<1>7. CASE Postpone
  <2>1. Stored' = Stored
    BY <1>7 DEF Postpone, Stored
  <2> QED
    BY <1>0, <1>7, <2>1, LoopMovePreserves DEF Postpone, ghosts
<1>8. CASE PostponeFails
  BY <1>0, <1>8, LoopMovePreserves DEF PostponeFails, Stored, ghosts
<1>9. CASE Woken \/ TimerFires
  BY <1>0, <1>9, LoopMovePreserves DEF Woken, TimerFires, Idle, Stored, ghosts
<1> QED
  BY <1>1, <1>2, <1>3, <1>4, <1>5, <1>6, <1>7, <1>8, <1>9 DEF Loop

\* Every step keeps the invariant.
LEMMA StepPreserves == IInv /\ [Next]_vars => IInv'
<1> SUFFICES ASSUME IInv, [Next]_vars PROVE IInv'
  OBVIOUS
<1> USE DEF loop, ghosts, bounds, tasks
<1>0. faults \in Nat
  BY DEF IInv, Shape
<1>1. CASE UNCHANGED vars
  BY <1>0, <1>1, BystanderPreserves DEF vars, Stored
<1>2. CASE Emit
  BY <1>2, EmitPreserves
<1>3. CASE Keep \/ Forgo
  BY <1>3, KeepPreserves, ForgoPreserves
<1>4. CASE WriterWakes \/ EditorWakes
  BY <1>0, <1>4, BystanderPreserves DEF WriterWakes, EditorWakes, Stored
<1>5. CASE Edit
  BY <1>0, <1>5, BystanderPreserves DEF Edit, Stored
<1>6. CASE DueNow
  <2>1. Stored' = Stored /\ faults' \in Nat /\ faults' >= faults
    BY <1>0, <1>6 DEF DueNow, Stored, Fault
  <2> QED
    BY <1>6, <2>1, BystanderPreserves DEF DueNow, Fault
<1>7. CASE Taken \/ Loop
  BY <1>7, LoopPreserves
<1>8. ASSUME NEW m \in Messages, Ripens(m) PROVE IInv'
  <2>1. Stored' = Stored
    BY <1>8 DEF Ripens, Stored
  <2> QED
    BY <1>0, <1>8, <2>1, BystanderPreserves DEF Ripens, AtRest
<1>9. CASE Restart
  BY <1>9, RestartPreserves
<1> QED
  BY <1>1, <1>2, <1>3, <1>4, <1>5, <1>6, <1>7, <1>8, <1>9 DEF Next, Writer, Editor

LEMMA Invariance == Spec => []IInv
  BY InitEstablishes, StepPreserves, PTL DEF Spec

\* What the outbox kept waits there until a target has taken it, through
\* restarts, changed addresses and failed writes, unless the cap dropped it.
THEOREM NothingIsLost == Spec => []NothingLost
<1>1. IInv => NothingLost
  BY DEF IInv
<1> QED
  BY <1>1, Invariance, PTL

\* Each time a message is taken again, a fault has come before.
THEOREM TakenAgainOnlyByFault == Spec => []TakenTwiceOnlyByFault
<1>1. IInv => TakenTwiceOnlyByFault
  BY DEF IInv
<1> QED
  BY <1>1, Invariance, PTL

(***************************************************************************)
(* The wake-up.                                                            *)
(***************************************************************************)

\* A message that is due since it was written or the addresses changed.
IsDueNow(m) == m \in Stored /\ rows[m] = "now" /\ Deliverable(m)

LEMMA DueAlone == NoMissedWake <=>
    (step = "sleep" /\ (\E m : IsDueNow(m)) =>
        permit \/ writer = "wakes" \/ editor # "ready" \/ quiet)
  BY DEF NoMissedWake, Due, IsDueNow

\* Nobody can be offered more than before while the addresses stay.
LEMMA DeliverableStays ==
  ASSUME NEW m, UNCHANGED targets PROVE Deliverable(m)' <=> Deliverable(m)
<1>1. TargetsFor(m)' = TargetsFor(m)
  BY DEF TargetsFor
<1> QED
  BY <1>1 DEF Deliverable

LEMMA WakeIsKept == NoMissedWake /\ [Next]_vars => NoMissedWake'
<1> SUFFICES ASSUME NoMissedWake, [Next]_vars, step' = "sleep",
                    NEW m, IsDueNow(m)'
             PROVE  permit' \/ writer' = "wakes" \/ editor' # "ready" \/ quiet'
  BY DueAlone DEF NoMissedWake, Due, IsDueNow
<1> USE DEF loop, ghosts, bounds, tasks, AtRest, Goes, DoneThen
\* What was due before this step kept its wake-up.
<1>0. step = "sleep" /\ IsDueNow(m) => permit \/ writer = "wakes" \/ editor # "ready" \/ quiet
  BY DueAlone
<1>1. CASE UNCHANGED <<rows, targets, step, permit, writer, editor, quiet>>
  BY <1>0, <1>1, DeliverableStays DEF IsDueNow, Stored
<1>2. CASE Emit \/ Forgo
  BY <1>1, <1>2 DEF Emit, Forgo
<1>3. CASE Keep
  BY <1>3 DEF Keep
<1>4. CASE WriterWakes \/ EditorWakes
  BY <1>4 DEF WriterWakes, EditorWakes
<1>5. CASE Edit
  BY <1>5 DEF Edit
<1>6. CASE DueNow
  BY <1>6 DEF DueNow
<1>7. CASE Sleep
  \* It falls asleep only when nothing is due.
  <2>1. IsDueNow(m)
    BY <1>7, DeliverableStays DEF Sleep, IsDueNow, Stored
  <2> QED
    BY <1>7, <2>1 DEF Sleep, Due, IsDueNow
<1>8. CASE Pick \/ Offer \/ NotTaken \/ Delete \/ Postpone \/ PostponeFails \/ Woken \/ TimerFires \/ Taken
  BY <1>8 DEF Pick, Offer, NotTaken, Delete, Postpone, PostponeFails, Woken, TimerFires, Taken,
              NobodyTook, OneMore
<1>9. ASSUME NEW k \in Messages, Ripens(k) PROVE permit' \/ writer' = "wakes" \/ editor' # "ready" \/ quiet'
  <2>1. IsDueNow(m)
    BY <1>9, DeliverableStays DEF Ripens, IsDueNow, Stored
  <2> QED
    BY <1>0, <1>9, <2>1 DEF Ripens
<1>10. CASE Restart
  BY <1>10 DEF Restart
<1> QED
  BY <1>1, <1>2, <1>3, <1>4, <1>5, <1>6, <1>7, <1>8, <1>9, <1>10 DEF Next, Writer, Editor, Loop, vars

\* The loop does not sleep on a message that is due since it was written or
\* since the addresses changed, unless a write that failed kept its wake-up back.
THEOREM NoWakeIsMissed == Spec => []NoMissedWake
<1>1. Init => NoMissedWake
  BY DEF Init, NoMissedWake
<1> QED
  BY <1>1, WakeIsKept, PTL DEF Spec

(***************************************************************************)
(* The cap.                                                                *)
(***************************************************************************)

LEMMA MessagesAreFinite == \A D \in SUBSET Messages : IsFiniteSet(D)
<1>1. IsFiniteSet(Messages)
  BY FS_Interval, OutboxAssumption DEF Messages
<1> QED
  BY <1>1, FS_Subset

\* How many messages are newer.
Newer(D, k) == Cardinality({l \in D : l > k})

LEMMA NewerFalls ==
  ASSUME NEW D \in SUBSET Messages, NEW k \in D, NEW l \in D, k < l
  PROVE  Newer(D, k) \in Nat /\ Newer(D, l) \in Nat /\ Newer(D, l) < Newer(D, k)
<1> DEFINE A == {m \in D : m > k}
           B == {m \in D : m > l}
<1>1. A \in SUBSET Messages /\ B \in SUBSET Messages
  OBVIOUS
<1>2. B \subseteq A /\ l \in A /\ l \notin B
  <2>1. \A m \in D : m \in Nat
    BY OutboxAssumption DEF Messages
  <2> QED
    BY <2>1
<1>3. IsFiniteSet(A) /\ IsFiniteSet(B)
  BY <1>1, MessagesAreFinite
<1>4. Cardinality(A) \in Nat /\ Cardinality(B) \in Nat
  BY <1>3, FS_CardinalityType
<1>5. Cardinality(B) <= Cardinality(A) /\ Cardinality(A) # Cardinality(B)
  BY <1>2, <1>3, FS_Subset
<1> QED
  BY <1>4, <1>5 DEF Newer

\* No two messages have as many newer ones, so no more are kept than there are
\* numbers below the cap.
LEMMA NewestFitTheCap ==
  ASSUME NEW D \in SUBSET Messages, NEW c \in Nat \ {0}
  PROVE  Cardinality({k \in D : Newer(D, k) < c}) <= c
<1> DEFINE K == {k \in D : Newer(D, k) < c}
           T == 0 .. c - 1
           f == [k \in K |-> Newer(D, k)]
<1>1. \A k \in D : Newer(D, k) \in Nat
  BY MessagesAreFinite, FS_CardinalityType DEF Newer
<1>2. f \in [K -> T]
  BY <1>1
<1>3. ASSUME NEW k \in K, NEW l \in K, f[k] = f[l] PROVE k = l
  <2>1. k \in Nat /\ l \in Nat
    BY OutboxAssumption DEF Messages
  <2>2. ~(k < l) /\ ~(l < k)
    BY <1>3, NewerFalls
  <2> QED
    BY <2>1, <2>2
<1>4. f \in Injection(K, T)
  BY <1>2, <1>3 DEF Injection, IsInjective
<1>5. IsFiniteSet(T) /\ Cardinality(T) = c
  BY FS_Interval
<1> QED
  BY <1>4, <1>5, FS_Injection

LEMMA CappedFits ==
  ASSUME Shape, NEW all, DOMAIN all \subseteq Messages
  PROVE  /\ Cardinality(DOMAIN Capped(all)) <= cap
         /\ DOMAIN Capped(all) \subseteq DOMAIN all
         /\ \A k \in DOMAIN Capped(all) : Capped(all)[k] = all[k]
<1>1. DOMAIN Capped(all) = {k \in DOMAIN all : Newer(DOMAIN all, k) < cap}
  BY DEF Capped, Restrict, Newer
<1>2. \A k \in DOMAIN Capped(all) : Capped(all)[k] = all[k]
  BY DEF Capped, Restrict
<1> QED
  BY <1>1, <1>2, NewestFitTheCap DEF Shape

\* What is left of the stored messages fits, too.
LEMMA FewerFit ==
  ASSUME NEW D \in SUBSET Messages, NEW c \in Nat, Cardinality(D) <= c, NEW E \in SUBSET D
  PROVE  Cardinality(E) <= c
<1>1. IsFiniteSet(D) /\ IsFiniteSet(E)
  BY MessagesAreFinite
<1> QED
  BY <1>1, FS_Subset, FS_CardinalityType

LEMMA TargetsAre == \A m \in Messages : TargetsFor(m) \in Seq(Editable \cup {"kit"})
<1> TAKE m \in Messages
<1> DEFINE first == IF m \in KitEvents /\ KitTarget THEN "kit" ELSE "primary"
           one == IF first = "kit" \/ first \in targets THEN <<first>> ELSE <<>>
           two == IF "fallback" = "kit" \/ "fallback" \in targets THEN <<"fallback">> ELSE <<>>
<1>1. TargetsFor(m) = one \o two
  BY DEF TargetsFor
<1>2. first \in Editable \cup {"kit"} /\ "fallback" \in Editable \cup {"kit"}
  BY DEF Editable
<1>3. one \in Seq(Editable \cup {"kit"}) /\ two \in Seq(Editable \cup {"kit"})
  <2> HIDE DEF first
  <2> DEFINE T == Editable \cup {"kit"}
  <2>1. <<>> \in Seq(T) /\ \A t \in T : <<t>> \in Seq(T)
    OBVIOUS
  <2> HIDE DEF T
  <2>2. one \in Seq(T) /\ two \in Seq(T)
    BY <1>2, <2>1 DEF T
  <2> QED
    BY <2>2 DEF T
<1> HIDE DEF one, two
<1> QED
  BY <1>1, <1>3

Times == {"now", "later", "ripe"}

\* What the steps do to what is stored.
LEMMA RowsStep ==
  ASSUME Shape, TypeOK, [Next]_vars
  PROVE  /\ Stored' \subseteq Messages /\ Cardinality(Stored') <= cap
         /\ \A m \in Stored' : rows'[m] \in Times
<1> USE DEF loop, ghosts, bounds, tasks, AtRest, Goes, DoneThen, Times
<1>1. CASE Keep
  <2> DEFINE all == With(First, "now")
  <2>1. First \in Messages
    BY <1>1, TailOfHand DEF Keep
  <2>2. DOMAIN all = Stored \cup {First} /\ \A m \in DOMAIN all : all[m] \in Times
    BY DEF With, TypeOK
  <2>3. DOMAIN all \subseteq Messages /\ rows' = Capped(all)
    BY <1>1, <2>1, <2>2 DEF Keep, Shape
  <2> HIDE DEF all
  <2> QED
    BY <2>2, <2>3, CappedFits DEF Stored
<1>2. CASE Delete
  <2>1. CASE rows' = Restrict(rows, Stored \ {msg})
    <3>1. Stored' = Stored \ {msg} /\ \A m \in Stored' : rows'[m] = rows[m]
      BY <2>1 DEF Stored, Restrict
    <3>2. Cardinality(Stored') <= cap
      BY <3>1, FewerFit DEF TypeOK, Shape
    <3> QED
      BY <3>1, <3>2 DEF TypeOK
  <2>2. CASE rows' = rows
    BY <2>2 DEF TypeOK, Stored
  <2> QED
    BY <1>2, <2>1, <2>2 DEF Delete
<1>3. CASE Stored' = Stored /\ \A m \in Stored : rows'[m] \in Times
  BY <1>3 DEF TypeOK
<1>4. CASE UNCHANGED rows
  BY <1>4 DEF TypeOK, Stored
<1>5. CASE DueNow \/ Postpone \/ \E m \in Messages : Ripens(m)
  BY <1>3, <1>4, <1>5 DEF DueNow, Postpone, Ripens, TypeOK, Stored
<1>6. CASE Emit \/ Forgo \/ WriterWakes \/ Edit \/ EditorWakes \/ Taken \/ Restart
  BY <1>4, <1>6 DEF Emit, Forgo, WriterWakes, Edit, EditorWakes, Taken, Restart
<1>7. CASE Pick \/ Sleep \/ Offer \/ NotTaken \/ PostponeFails \/ Woken \/ TimerFires
  BY <1>4, <1>7 DEF Pick, Sleep, Offer, NotTaken, PostponeFails, Woken, TimerFires
<1> QED
  BY <1>1, <1>2, <1>4, <1>5, <1>6, <1>7 DEF Next, Writer, Editor, Loop, vars

LEMMA HandStep ==
  ASSUME Shape, Shape', TypeOK, [Next]_vars
  PROVE  hand' \in Seq(Messages) /\ Len(hand') <= HandOff
<1> USE DEF loop, ghosts, bounds, tasks, AtRest
<1>1. hand' \in Seq(Messages)
  BY DEF Shape
<1>2. HandOff \in Nat /\ hand \in Seq(Messages) /\ Len(hand) \in Nat /\ Len(hand) <= HandOff
  BY OutboxAssumption DEF TypeOK
<1>3. CASE hand' = hand
  BY <1>1, <1>2, <1>3
<1>4. CASE Emit
  BY <1>1, <1>2, <1>4 DEF Emit
<1>5. CASE Keep \/ Forgo
  <2>1. Len(hand') = Len(hand) - 1
    BY <1>5, TailOfHand DEF Keep, Forgo
  <2> QED
    BY <1>1, <1>2, <2>1
<1>6. CASE Restart
  BY <1>1, <1>2, <1>6 DEF Restart
<1>7. CASE WriterWakes \/ Edit \/ DueNow \/ EditorWakes \/ Taken \/ \E m \in Messages : Ripens(m)
  BY <1>3, <1>7 DEF WriterWakes, Edit, DueNow, EditorWakes, Taken, Ripens
<1>8. CASE Loop
  BY <1>3, <1>8 DEF Loop, Pick, Sleep, Offer, NotTaken, Delete, Postpone, PostponeFails, Woken, TimerFires
<1> QED
  BY <1>3, <1>4, <1>5, <1>6, <1>7, <1>8 DEF Next, Writer, Editor, vars

LEMMA LocalsStep ==
  ASSUME Shape, TypeOK, [Next]_vars
  PROVE  /\ step' \in Steps /\ msg' \in Messages \cup {NoMessage}
         /\ left' \in Seq(Editable \cup {"kit"}) /\ failures' \in 0 .. 2
<1> USE DEF loop, ghosts, bounds, tasks, AtRest, Goes, DoneThen, Steps
<1>1. /\ step \in Steps /\ msg \in Messages \cup {NoMessage}
      /\ left \in Seq(Editable \cup {"kit"}) /\ failures \in 0 .. 2
      /\ <<>> \in Seq(Editable \cup {"kit"})
  BY DEF TypeOK
<1>2. CASE UNCHANGED loop
  BY <1>1, <1>2
<1>3. CASE Emit \/ Keep \/ Forgo \/ WriterWakes \/ Edit \/ DueNow \/ EditorWakes
  BY <1>2, <1>3 DEF Emit, Keep, Forgo, WriterWakes, Edit, DueNow, EditorWakes
<1>4. CASE \E m \in Messages : Ripens(m)
  BY <1>2, <1>4 DEF Ripens
<1>5. CASE Pick
  BY <1>1, <1>5 DEF Pick, Due, TypeOK
<1>6. CASE Offer
  <2>1. msg \in Messages
    BY <1>6 DEF Offer, Shape
  <2> QED
    BY <1>1, <1>6, <2>1, TargetsAre DEF Offer
<1>7. CASE NotTaken
  <2>1. Tail(left) \in Seq(Editable \cup {"kit"})
    <3> DEFINE T == Editable \cup {"kit"}
    <3>1. left \in Seq(T) /\ left # <<>>
      BY <1>1, <1>7 DEF NotTaken
    <3> HIDE DEF T
    <3>2. Tail(left) \in Seq(T)
      BY <3>1
    <3> QED
      BY <3>2 DEF T
  <2> QED
    BY <1>1, <1>7, <2>1 DEF NotTaken
<1>8. CASE Taken \/ Sleep \/ Woken \/ TimerFires \/ Restart
  <2>1. left' = left \/ left' = <<>>
    BY <1>8 DEF Taken, Sleep, Woken, TimerFires, Restart
  <2>2. step' \in Steps /\ msg' \in Messages \cup {NoMessage} /\ failures' \in 0 .. 2
    BY <1>1, <1>8 DEF Taken, Sleep, Woken, TimerFires, Restart
  <2> QED
    BY <1>1, <2>1, <2>2
<1>9. CASE Delete \/ Postpone \/ PostponeFails
  <2>1. left' = <<>> /\ msg' = NoMessage
    BY <1>9 DEF Delete, Postpone, PostponeFails
  <2>2. step' \in Steps /\ failures' \in 0 .. 2
    BY <1>1, <1>9 DEF Delete, Postpone, PostponeFails, OneMore
  <2> QED
    BY <1>1, <2>1, <2>2
<1> QED
  BY <1>2, <1>3, <1>4, <1>5, <1>6, <1>7, <1>8, <1>9 DEF Next, Writer, Editor, Loop, vars

LEMMA FlagsStep ==
  ASSUME TypeOK, [Next]_vars
  PROVE  /\ targets' \subseteq Editable
         /\ writer' \in {"ready", "wakes"} /\ editor' \in {"ready", "due", "wakes"}
         /\ permit' \in BOOLEAN /\ quiet' \in BOOLEAN
<1> USE DEF TypeOK, loop, ghosts, bounds, tasks, AtRest, Goes
<1>1. CASE UNCHANGED <<targets, writer, editor, permit, quiet>>
  BY <1>1
<1>2. CASE Emit \/ Keep \/ Forgo \/ WriterWakes
  BY <1>2 DEF Emit, Keep, Forgo, WriterWakes
<1>3. CASE Edit \/ DueNow \/ EditorWakes \/ Restart
  BY <1>3 DEF Edit, DueNow, EditorWakes, Restart
<1>4. CASE Pick \/ Sleep \/ Offer \/ Woken \/ TimerFires \/ Delete \/ Postpone \/ PostponeFails
  BY <1>4 DEF Pick, Sleep, Offer, Woken, TimerFires, Delete, Postpone, PostponeFails
<1>5. CASE NotTaken \/ Taken \/ \E m \in Messages : Ripens(m)
  BY <1>5 DEF NotTaken, Taken, Took, Ripens
<1> QED
  BY <1>1, <1>2, <1>3, <1>4, <1>5 DEF Next, Writer, Editor, Loop, vars

\* Every variable keeps its type, and the table is never over its cap when a
\* transaction is done: insert() drops what is over it in the same one
\* (storage/outbox.rs).
THEOREM TypeCorrect == Spec => []TypeOK
<1>1. Init => TypeOK
  <2> SUFFICES ASSUME Init PROVE TypeOK
    OBVIOUS
  <2>1. Stored = {} /\ Cardinality(Stored) = 0 /\ cap \in Nat /\ 0 <= HandOff
    BY OutboxAssumption, FS_EmptySet DEF Init, Stored
  <2>2. hand \in Seq(Messages) /\ Len(hand) <= HandOff
    BY OutboxAssumption DEF Init
  <2>3. left \in Seq(Editable \cup {"kit"})
    BY DEF Init
  <2>4. times \in [Messages -> Nat] /\ kept \subseteq Messages /\ targets \subseteq Editable
    BY DEF Init
  <2>5. /\ writer = "ready" /\ editor = "ready" /\ step \in Steps /\ msg = NoMessage
        /\ failures \in 0 .. 2 /\ permit = FALSE /\ quiet = FALSE
    BY DEF Init, Steps
  <2>6. Stored \subseteq Messages /\ Cardinality(Stored) <= cap /\ \A m \in Stored : rows[m] \in Times
    BY <2>1
  <2> QED
    BY <2>2, <2>3, <2>4, <2>5, <2>6 DEF TypeOK, Times
<1>2. IInv /\ IInv' /\ TypeOK /\ [Next]_vars => TypeOK'
  <2> SUFFICES ASSUME Shape, Shape', TypeOK, [Next]_vars PROVE TypeOK'
    BY DEF IInv
  <2>1. cap' = cap
    BY DEF Next, Emit, Writer, Keep, Forgo, WriterWakes, Edit, Editor, DueNow, EditorWakes,
           Taken, Loop, Pick, Sleep, Offer, NotTaken, Delete, Postpone, PostponeFails, Woken,
           TimerFires, Ripens, Restart, Fault, vars, bounds
  <2>2. kept' \subseteq Messages /\ times' \in [Messages -> Nat]
    BY DEF Shape
  <2> QED
    BY <2>1, <2>2, RowsStep, HandStep, LocalsStep, FlagsStep DEF TypeOK, Times
<1> QED
  BY <1>1, <1>2, Invariance, PTL DEF Spec
=============================================================================
