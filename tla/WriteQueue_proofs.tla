------------------------- MODULE WriteQueue_proofs -------------------------
(***************************************************************************)
(* Proofs about WriteQueue, for any number of edits, whichever of them are *)
(* creates, any policies and bounds.                                       *)
(***************************************************************************)
EXTENDS WriteQueue, TLAPS

(***************************************************************************)
(* The inductive invariant.                                                *)
(***************************************************************************)

Service == [rev : Nat, effects : [Edits -> Nat], late : SUBSET [edit : Edits, rev : Nat]]
Call == [at : {"unmade", "made", "sent", "answered", "added", "listed", "patched", "over"},
         rev : Nat, said : Outcome, saved : Entry \cup {NoEntry}]
Job == [at : {"idle", "next", "sent", "answered", "removed", "rebase", "rebased",
              "skip", "hold", "drop", "parked", "discarded"},
        edit : 0..LastEdit, entry : Entry \cup {NoEntry}, said : Outcome,
        behind : SUBSET [edit : Edits, entry : Entry], again : BOOLEAN]
People == [edit : 0..LastEdit, entry : Entry \cup {NoEntry}]
Past == [accepted : SUBSET Edits, dropped : SUBSET Edits, failed : SUBSET Edits,
         saved : SUBSET Edits, before : [Edits -> SUBSET Edits]]

\* What is written of an edit anywhere: stored, in memory, or in the locals
\* of a turn that comes back to it.
IsVersion(e, v) ==
    /\ v # NoEntry
    /\ \/ v \in {store[e], mem[e], calls[e].saved}
       \/ job.edit = e /\ v = job.entry
       \/ [edit |-> e, entry |-> v] \in job.behind
       \/ person.edit = e /\ v = person.entry

\* A request of the edit may still take effect.
Asked(e) ==
    \/ calls[e].at = "sent"
    \/ job.at = "sent" /\ job.edit = e
    \/ \E rev \in Nat : [edit |-> e, rev |-> rev] \in service.late

\* A revision the edit is, or may be, sent with.
IsRev(e, rev) ==
    \/ rev = calls[e].rev
    \/ \E v \in Entry : IsVersion(e, v) /\ v.rev = rev
    \/ [edit |-> e, rev |-> rev] \in service.late

WentThrough ==
    \/ job.at = "answered" /\ job.said.kind = "ok"
    \/ job.at \in {"removed", "rebase", "rebased"}

\* What the locals of a turn are.
Frames ==
    /\ past \in Past
    /\ job.at \in {"idle", "next"} => job.edit = 0 /\ job.entry = NoEntry
    /\ job.at \notin {"idle", "next"} => job.edit \in Edits /\ job.entry # NoEntry
    /\ job.at \notin {"rebase", "rebased"} => job.behind = {}
    /\ job.at = "removed" => job.said.kind = "ok"
    /\ WentThrough => service.effects[job.edit] > 0
    /\ job.at = "discarded" => job.edit \in past.dropped
    /\ \A e \in Edits : (calls[e].at = "patched") <=> (calls[e].saved # NoEntry)
    /\ person.edit \in Edits \/ person = Nobody
    /\ person.edit \in Edits /\ person.entry = NoEntry => person.edit \in past.dropped

\* An edit is not in the queue before it was added to it.
Born ==
    /\ \A e \in Edits :
        /\ calls[e].at \in {"unmade", "made", "sent", "answered"} =>
            e \notin past.accepted /\ \A v \in Entry : ~IsVersion(e, v)
        /\ calls[e].at = "added" =>
            /\ store[e] # NoEntry /\ mem[e] = NoEntry
            /\ job.edit # e /\ e \notin past.accepted
        /\ calls[e].at = "unmade" =>
            /\ service.effects[e] = 0 /\ calls[e].rev = NoRev
            /\ past.before[e] = {} /\ \A rev \in Nat : [edit |-> e, rev |-> rev] \notin service.late
        /\ past.before[e] \subseteq past.accepted
    /\ past.accepted \subseteq Edits

DoneWith(e) == service.effects[e] > 0 \/ e \in past.dropped \cup past.failed

\* What was accepted waits in memory, or is done with.
Waits == \A e \in past.accepted : DoneWith(e) \/ e \in Waiting(mem)

Failures == \A e \in Edits : \A v \in Entry : IsVersion(e, v) /\ v.state = "failed" => e \in past.failed

\* Ids follow the order in which the edits were accepted.
Ordered ==
    /\ \A e \in Edits : \A v \in Entry : IsVersion(e, v) => v.id <= lastId
    /\ \A f \in Edits : \A e \in past.before[f] :
         \A v, w \in Entry : IsVersion(e, v) /\ IsVersion(f, w) => v.id < w.id

\* What may take effect has nothing before it.
Turn ==
    \A f \in Edits : Asked(f) \/ service.effects[f] > 0 =>
        \A e \in past.before[f] : DoneWith(e)

\* No revision is ahead of the service's.
Seen ==
    /\ service.rev > 0 /\ copy <= service.rev /\ job.said.rev <= service.rev
    /\ \A e \in Edits :
        /\ calls[e].said.rev <= service.rev
        /\ \A rev \in Nat : IsRev(e, rev) => rev <= service.rev
    /\ WentThrough /\ job.edit \notin Creates => job.said.rev # NoRev

\* An edit that replaces the item and names its revision.
Versioned(e) == e \in Edits \ (Creates \cup past.saved) /\ calls[e].rev # NoRev

\* It took effect once, and no request of it can do so again.
Spent(e, rev) == service.effects[e] > 0 => rev < service.rev

Once ==
    /\ \A e \in Edits : e \in Creates => service.effects[e] <= 1
    /\ \A e \in Edits : Versioned(e) =>
        /\ service.effects[e] <= 1
        /\ \A rev \in Nat : IsRev(e, rev) => rev # NoRev /\ Spent(e, rev)

\* A revision that the edit under way had when it took effect was used up.
Rebases ==
    WentThrough /\ job.edit \notin Creates =>
        \A e \in Edits \ {job.edit} :
            Versioned(e) /\ IsRev(e, job.entry.rev) => Spent(e, job.said.rev)

IInv ==
    /\ TypeOK /\ Frames /\ Born /\ Waits /\ Failures /\ NothingLost
    /\ Ordered /\ Turn /\ Seen /\ Once /\ Rebases

(***************************************************************************)
(* Types.                                                                  *)
(***************************************************************************)

\* An edit's own number is not the one of nobody's.
LEMMA EditsAre == \A e \in Edits : e \in Nat /\ e > 0 /\ e \in 0..LastEdit
    BY QueueAssumption DEF Edits

LEMMA EntryFields ==
    \A v \in Entry : /\ v.id \in Nat /\ v.rev \in Nat /\ v.state \in {"queued", "held", "failed"}
                     /\ v # NoEntry
    BY QueueAssumption DEF Entry

LEMMA NoAnswerIs == NoAnswer \in Outcome /\ NoAnswer.kind = "unreachable" /\ NoAnswer.rev = 0
    BY DEF NoAnswer, Outcome, NoRev

\* One call goes on.
LEMMA CallAt ==
    ASSUME calls \in [Edits -> Call], NEW e \in Edits, NEW c \in Call,
           calls' = [calls EXCEPT ![e] = c]
    PROVE  /\ calls' \in [Edits -> Call] /\ calls'[e] = c
           /\ \A f \in Edits : f # e => calls'[f] = calls[f]
    OBVIOUS

LEMMA GoesTo ==
    ASSUME calls \in [Edits -> Call], NEW e \in Edits,
           NEW place \in {"sent", "added", "listed", "patched", "over"}, Goes(e, place)
    PROVE  /\ calls' \in [Edits -> Call] /\ calls'[e].at = place
           /\ calls'[e].rev = calls[e].rev /\ calls'[e].said = calls[e].said
           /\ calls'[e].saved = calls[e].saved
           /\ \A f \in Edits : f # e => calls'[f] = calls[f]
<1> DEFINE c == [calls[e] EXCEPT !.at = place]
<1>1. /\ c \in Call /\ c.at = place /\ c.rev = calls[e].rev /\ c.said = calls[e].said
      /\ c.saved = calls[e].saved
    BY DEF Call
<1>2. calls' = [calls EXCEPT ![e] = c]
    BY DEF Goes
<1> HIDE DEF c
<1> QED
    BY <1>1, <1>2

(***************************************************************************)
(* How a step keeps the order.                                             *)
(***************************************************************************)

\* Whatever is written of an edit carries an id that was written of it.
LEMMA OrderedStep ==
    ASSUME Ordered, lastId' = lastId, past'.before = past.before,
           \A e \in Edits : past.before[e] \subseteq Edits,
           \A e \in Edits, v \in Entry : IsVersion(e, v)' =>
               \E w \in Entry : IsVersion(e, w) /\ w.id = v.id
    PROVE  Ordered'
<1>1. ASSUME NEW e \in Edits, NEW v \in Entry, IsVersion(e, v)'
      PROVE  v.id <= lastId'
    BY <1>1 DEF Ordered
<1>2. ASSUME NEW f \in Edits, NEW e \in past.before[f], NEW v \in Entry, NEW w \in Entry,
             IsVersion(e, v)', IsVersion(f, w)'
      PROVE  v.id < w.id
  <2>1. PICK x \in Entry : IsVersion(e, x) /\ x.id = v.id
    BY <1>2
  <2>2. PICK y \in Entry : IsVersion(f, y) /\ y.id = w.id
    BY <1>2
  <2> QED
    BY <1>2, <2>1, <2>2 DEF Ordered
<1> QED
    BY <1>1, <1>2 DEF Ordered

\* A request that is new is one of an edit with nothing before it.
LEMMA TurnStep ==
    ASSUME Turn, past'.before = past.before,
           past.dropped \subseteq past'.dropped, past.failed \subseteq past'.failed,
           \A e \in Edits : past.before[e] \subseteq Edits,
           \A e \in Edits : service.effects[e] > 0 => service'.effects[e] > 0,
           \A f \in Edits : Asked(f)' \/ service'.effects[f] > 0 =>
               \/ Asked(f) \/ service.effects[f] > 0
               \/ \A e \in past.before[f] : DoneWith(e)
    PROVE  Turn'
<1>1. \A e \in Edits : DoneWith(e) => DoneWith(e)'
    BY DEF DoneWith
<1> QED
    BY <1>1 DEF Turn

(***************************************************************************)
(* How a step keeps the revisions.                                         *)
(***************************************************************************)

\* A revision an edit may have after a step that takes no effect.
FreshRev(e, rev) ==
    /\ rev <= service.rev
    /\ Versioned(e)' =>
        /\ rev # NoRev /\ Spent(e, rev)
        /\ WentThrough' => Spent(e, job'.said.rev)

LEMMA RevStep ==
    ASSUME TypeOK, TypeOK', Frames, Seen, Once, Rebases,
           service'.rev >= service.rev, service'.effects = service.effects,
           past.saved \subseteq past'.saved,
           copy' <= service.rev, job'.said.rev <= service.rev,
           \A e \in Edits : calls'[e].said.rev <= service.rev,
           \A e \in Edits : calls'[e].rev = calls[e].rev \/ service.effects[e] = 0,
           \A e \in Edits, rev \in Nat : IsRev(e, rev)' =>
               \/ IsRev(e, rev) /\ calls'[e].rev = calls[e].rev
               \/ FreshRev(e, rev),
           WentThrough' => WentThrough /\ job'.edit = job.edit /\ job'.entry = job.entry
                           /\ job'.said = job.said
    PROVE  Seen' /\ Once' /\ Rebases'
<1>0. /\ service.rev \in Nat /\ service'.rev \in Nat /\ job.said.rev \in Nat /\ copy' \in Nat
      /\ job'.said.rev \in Nat
      /\ \A e \in Edits : service.effects[e] \in Nat /\ calls'[e].said.rev \in Nat
    BY DEF TypeOK, Outcome
<1>1. \A e \in Edits : Versioned(e)' /\ calls'[e].rev = calls[e].rev => Versioned(e)
    BY DEF Versioned
<1>2. \A e \in Edits, rev \in Nat : Spent(e, rev) => Spent(e, rev)'
    BY <1>0 DEF Spent
<1>3. Seen'
    BY <1>0 DEF Seen, FreshRev
<1>4. Once'
  <2>1. ASSUME NEW e \in Edits, Versioned(e)'
        PROVE  /\ service'.effects[e] <= 1
               /\ \A rev \in Nat : IsRev(e, rev)' => rev # NoRev /\ Spent(e, rev)'
    BY <1>0, <1>1, <1>2, <2>1 DEF Once, FreshRev
  <2> QED
    BY <2>1 DEF Once
<1>5. Rebases'
  <2> SUFFICES ASSUME WentThrough', job'.edit \notin Creates, NEW e \in Edits \ {job'.edit},
                      Versioned(e)', IsRev(e, job.entry.rev)'
               PROVE  Spent(e, job.said.rev)
    BY <1>0, <1>2 DEF Rebases
  <2>1. job.entry.rev \in Nat
    BY EntryFields DEF Frames, WentThrough, TypeOK
  <2> QED
    BY <1>1, <2>1 DEF Rebases, FreshRev
<1> QED
    BY <1>3, <1>4, <1>5

(***************************************************************************)
(* A request that reaches the service.                                     *)
(***************************************************************************)

LEMMA EffectFields ==
    ASSUME TypeOK, NEW e \in Edits, NEW rev \in Nat
    PROVE  /\ Effect(e, rev) \in Service
           /\ Effect(e, rev).late = service.late
           /\ \A f \in Edits \ {e} : Effect(e, rev).effects[f] = service.effects[f]
           /\ \/ Effect(e, rev) = service
              \/ /\ Effect(e, rev).effects[e] = service.effects[e] + 1
                 /\ Effect(e, rev) # service
                 /\ e \in Creates => /\ service.effects[e] = 0
                                     /\ Effect(e, rev).rev = service.rev
                 /\ e \notin Creates => /\ rev \in {NoRev, service.rev}
                                        /\ Effect(e, rev).rev = service.rev + 1
<1> DEFINE n == service.effects[e] + 1
           eff == [service.effects EXCEPT ![e] = n]
           r == IF e \in Creates THEN service.rev ELSE service.rev + 1
           s == [service EXCEPT !.effects = eff, !.rev = r]
<1>1. /\ service \in Service /\ service.rev \in Nat /\ service.effects \in [Edits -> Nat]
      /\ service.effects[e] \in Nat
    BY DEF TypeOK, Service
<1>2. /\ eff \in [Edits -> Nat] /\ eff[e] = n /\ n # service.effects[e] /\ r \in Nat
      /\ \A f \in Edits \ {e} : eff[f] = service.effects[f]
    BY <1>1
<1>3. Effect(e, rev) = IF TakesEffect(e, rev) THEN s ELSE service
    BY DEF Effect
<1>4. s \in Service /\ s.late = service.late /\ s.effects = eff /\ s.rev = r
  <2> HIDE DEF eff, r
  <2> QED
    BY <1>1, <1>2 DEF Service
<1>5. s # service
    BY <1>1, <1>2, <1>4
<1>6. CASE TakesEffect(e, rev)
  <2> HIDE DEF s
  <2>1. Effect(e, rev) = s
    BY <1>3, <1>6
  <2> HIDE DEF eff
  <2> QED
    BY <1>1, <1>2, <1>4, <1>5, <1>6, <2>1 DEF TakesEffect
<1>7. CASE ~TakesEffect(e, rev)
    BY <1>1, <1>3, <1>7
<1> QED
    BY <1>6, <1>7

\* The service after a request of an edit, or after none.
Served(e, rev) ==
    /\ service'.rev = Effect(e, rev).rev
    /\ service'.effects = Effect(e, rev).effects

\* Only the revision the service has takes effect, and is used up by that.
LEMMA EffectStep ==
    ASSUME TypeOK, Frames, Seen, Once, past'.saved = past.saved,
           NEW e \in Edits, NEW rev \in Nat, IsRev(e, rev), Served(e, rev),
           \A f \in Edits : calls'[f].rev = calls[f].rev,
           \A f \in Edits, r \in Nat : IsRev(f, r)' => IsRev(f, r)
    PROVE  /\ Once'
           /\ service'.rev \in Nat /\ service'.rev >= service.rev
           /\ \A f \in Edits : service'.effects[f] >= service.effects[f]
           /\ \A f \in Edits, r \in Nat : Versioned(f) /\ r <= service.rev =>
                (Spent(f, r) => Spent(f, r)')
<1>0. /\ service.rev \in Nat /\ service'.rev \in Nat
      /\ \A f \in Edits : service.effects[f] \in Nat
      /\ \A f \in Edits \ {e} : service'.effects[f] = service.effects[f]
      /\ \/ service'.rev = service.rev /\ service'.effects[e] = service.effects[e]
         \/ /\ service'.effects[e] = service.effects[e] + 1
            /\ e \in Creates => service.effects[e] = 0 /\ service'.rev = service.rev
            /\ e \notin Creates => rev \in {NoRev, service.rev} /\ service'.rev = service.rev + 1
  <2> DEFINE s == Effect(e, rev)
  <2>1. /\ s \in Service
        /\ \A f \in Edits \ {e} : s.effects[f] = service.effects[f]
        /\ \/ s = service
           \/ /\ s.effects[e] = service.effects[e] + 1
              /\ e \in Creates => service.effects[e] = 0 /\ s.rev = service.rev
              /\ e \notin Creates => rev \in {NoRev, service.rev} /\ s.rev = service.rev + 1
    BY EffectFields
  <2>2. service'.rev = s.rev /\ service'.effects = s.effects /\ service \in Service
    BY DEF Served, TypeOK, Service
  <2> HIDE DEF s
  <2> QED
    BY <2>1, <2>2 DEF Service
<1>1. \A f \in Edits : Versioned(f)' <=> Versioned(f)
    BY DEF Versioned
<1>2. /\ service'.rev >= service.rev
      /\ \A f \in Edits : service'.effects[f] >= service.effects[f]
    BY <1>0
<1>3. ASSUME Versioned(e), e \notin Creates, service'.effects[e] # service.effects[e]
      PROVE  service.effects[e] = 0 /\ service'.effects[e] = 1 /\ service'.rev = service.rev + 1
  <2>1. rev # NoRev /\ Spent(e, rev)
    BY <1>3 DEF Once
  <2> QED
    BY <1>0, <1>3, <2>1 DEF Spent
<1>4. ASSUME NEW f \in Edits, NEW r \in Nat, Versioned(f), r <= service.rev, Spent(f, r)
      PROVE  Spent(f, r)'
  <2>1. f \notin Creates
    BY <1>4 DEF Versioned
  <2> QED
    BY <1>0, <1>3, <1>4, <2>1 DEF Spent
<1>5. Once'
  <2>1. ASSUME NEW f \in Edits, f \in Creates PROVE service'.effects[f] <= 1
    BY <1>0, <2>1 DEF Once
  <2>2. ASSUME NEW f \in Edits, Versioned(f)
        PROVE  /\ service'.effects[f] <= 1
               /\ \A r \in Nat : IsRev(f, r)' => r # NoRev /\ Spent(f, r)'
    <3>1. service'.effects[f] <= 1
      BY <1>0, <1>3, <2>2 DEF Once, Versioned
    <3>2. ASSUME NEW r \in Nat, IsRev(f, r)' PROVE r # NoRev /\ Spent(f, r)'
      <4>1. IsRev(f, r) /\ r <= service.rev
        BY <3>2 DEF Seen
      <4> QED
        BY <1>4, <2>2, <4>1 DEF Once
    <3> QED
      BY <3>1, <3>2
  <2> QED
    BY <1>1, <2>1, <2>2 DEF Once
<1> QED
    BY <1>0, <1>2, <1>4, <1>5

(***************************************************************************)
(* A step that takes no effect and writes nothing new.                     *)
(***************************************************************************)

Early == {"unmade", "made", "sent", "answered"}

\* What a request of the edit may leave on its way.
Underway(e, rev) ==
    \/ [edit |-> e, rev |-> rev] \in service.late
    \/ calls[e].at = "sent" /\ rev = calls[e].rev
    \/ job.at = "sent" /\ job.edit = e /\ rev = job.entry.rev

LEMMA UnderwayIs ==
    ASSUME TypeOK, Frames, NEW e \in Edits, NEW rev \in Nat, Underway(e, rev)
    PROVE  IsRev(e, rev) /\ Asked(e)
<1>1. CASE [edit |-> e, rev |-> rev] \in service.late
    BY <1>1 DEF IsRev, Asked
<1>2. CASE calls[e].at = "sent" /\ rev = calls[e].rev
    BY <1>2 DEF IsRev, Asked
<1>3. CASE job.at = "sent" /\ job.edit = e /\ rev = job.entry.rev
    BY <1>3 DEF IsRev, IsVersion, Asked, Frames, TypeOK
<1> QED
    BY <1>1, <1>2, <1>3 DEF Underway

LEMMA PlainStep ==
    ASSUME IInv, TypeOK', Frames',
           service'.rev >= service.rev, service'.effects = service.effects,
           \A e \in Edits, rev \in Nat : [edit |-> e, rev |-> rev] \in service'.late => Underway(e, rev),
           \A e \in Edits : calls'[e].rev = calls[e].rev /\ calls'[e].said.rev <= service.rev,
           \A e \in Edits :
               /\ calls'[e].at \in Early => calls[e].at \in Early
               /\ calls'[e].at = "unmade" => calls[e].at = "unmade"
               /\ calls'[e].at = "added" =>
                   /\ calls[e].at = "added"
                   /\ store'[e] # NoEntry /\ mem'[e] = NoEntry /\ job'.edit # e,
           \A e \in Edits, v \in Entry : IsVersion(e, v)' => IsVersion(e, v),
           \A e \in Edits : Asked(e)' => Asked(e) \/ \A f \in past.before[e] : DoneWith(f),
           past' = [past EXCEPT !.dropped = past'.dropped], past.dropped \subseteq past'.dropped,
           lastId' = lastId, copy' <= service.rev, job'.said.rev <= service.rev,
           WentThrough' => WentThrough /\ job'.edit = job.edit /\ job'.entry = job.entry
                           /\ job'.said = job.said,
           \A e \in Edits : mem[e] # NoEntry => mem'[e] # NoEntry \/ DoneWith(e)',
           \A e \in Edits : store[e] # NoEntry =>
               store'[e] # NoEntry \/ service.effects[e] > 0 \/ e \in past'.dropped
    PROVE  IInv'
<1> USE DEF IInv
<1>0. /\ past \in Past /\ past' \in Past
      /\ past'.accepted = past.accepted /\ past'.before = past.before
      /\ past'.failed = past.failed /\ past'.saved = past.saved
      /\ \A e \in Edits : past.before[e] \subseteq Edits
    BY DEF Frames, Past
<1>1. \A e \in Edits : DoneWith(e) => DoneWith(e)'
    BY <1>0 DEF DoneWith
<1>2. Born'
  <2>1. ASSUME NEW e \in Edits, calls'[e].at \in Early
        PROVE  e \notin past'.accepted /\ \A v \in Entry : ~IsVersion(e, v)'
    BY <1>0, <2>1 DEF Born, Early
  <2>2. ASSUME NEW e \in Edits, calls'[e].at = "added"
        PROVE  /\ store'[e] # NoEntry /\ mem'[e] = NoEntry
               /\ job'.edit # e /\ e \notin past'.accepted
    BY <1>0, <2>2 DEF Born
  <2>3. ASSUME NEW e \in Edits, calls'[e].at = "unmade"
        PROVE  /\ service'.effects[e] = 0 /\ calls'[e].rev = NoRev /\ past'.before[e] = {}
               /\ \A rev \in Nat : [edit |-> e, rev |-> rev] \notin service'.late
    <3>1. /\ service.effects[e] = 0 /\ calls[e].rev = NoRev /\ past.before[e] = {}
          /\ \A rev \in Nat : [edit |-> e, rev |-> rev] \notin service.late
          /\ calls[e].at = "unmade" /\ \A v \in Entry : ~IsVersion(e, v)
      BY <2>3 DEF Born
    <3>2. ~(job.at = "sent" /\ job.edit = e)
      BY <3>1 DEF IsVersion, Frames, TypeOK
    <3> QED
      BY <1>0, <3>1, <3>2 DEF Underway
  <2> QED
    BY <1>0, <2>1, <2>2, <2>3 DEF Born, Early
<1>3. Failures'
    BY <1>0 DEF Failures
<1>4. NothingLost'
    BY <1>0 DEF NothingLost, Born
<1>5. Waits'
  <2> SUFFICES ASSUME NEW e \in past.accepted, ~DoneWith(e)' PROVE e \in Waiting(mem')
    BY <1>0 DEF Waits
  <2>1. e \in Edits /\ e \in Waiting(mem)
    BY <1>1 DEF Born, Waits
  <2>2. PICK v \in Entry : v = mem'[e]
    BY <2>1 DEF Waiting, TypeOK, Queue
  <2>3. IsVersion(e, v)' /\ v # NoEntry
    BY <2>2, EntryFields DEF IsVersion
  <2>4. v.state # "failed"
    BY <1>0, <1>3, <2>1, <2>3 DEF Failures, DoneWith
  <2> QED
    BY <2>1, <2>2, <2>4 DEF Waiting
<1>6. Ordered'
    BY <1>0, OrderedStep
<1>7. Turn'
  <2>1. \A e \in Edits : Asked(e)' \/ service'.effects[e] > 0 =>
          \/ Asked(e) \/ service.effects[e] > 0
          \/ \A f \in past.before[e] : DoneWith(f)
    OBVIOUS
  <2> QED
    BY <1>0, <2>1, TurnStep
<1>8. Seen' /\ Once' /\ Rebases'
  <2>1. ASSUME NEW e \in Edits, NEW rev \in Nat, IsRev(e, rev)' PROVE IsRev(e, rev)
    <3>1. CASE rev = calls'[e].rev
      BY <3>1 DEF IsRev
    <3>2. CASE \E v \in Entry : IsVersion(e, v)' /\ v.rev = rev
      BY <3>2 DEF IsRev
    <3>3. CASE [edit |-> e, rev |-> rev] \in service'.late
      BY <3>3, UnderwayIs
    <3> QED
      BY <2>1, <3>1, <3>2, <3>3 DEF IsRev
  <2> QED
    BY <1>0, <2>1, RevStep
<1> QED
    BY <1>2, <1>3, <1>4, <1>5, <1>6, <1>7, <1>8

(***************************************************************************)
(* Steps of the replay that leave the queue alone.                         *)
(***************************************************************************)

LEMMA IdleIs ==
    /\ Idle \in Job /\ Idle.at = "idle" /\ Idle.edit = 0 /\ Idle.entry = NoEntry
    /\ Idle.said = NoAnswer /\ Idle.behind = {} /\ Idle.again = FALSE
    BY NoAnswerIs, QueueAssumption DEF Idle, Job

\* A round is over, or goes on with the next edit.
LEMMA RoundIs ==
    ASSUME job \in Job, NextEntry \/ EndRound
    PROVE  /\ job' \in Job /\ job'.at \in {"idle", "next"} /\ job'.edit = 0
           /\ job'.entry = NoEntry /\ job'.said = NoAnswer /\ job'.behind = {}
    BY IdleIs DEF NextEntry, EndRound, Job

LEMMA CalledIs ==
    ASSUME job \in Job, Called, job.at = "idle" => job.edit = 0 /\ job.entry = NoEntry
    PROVE  /\ job' \in Job
           /\ \/ /\ job.at = "idle" /\ job'.at = "next" /\ job'.edit = 0
                 /\ job'.entry = NoEntry /\ job'.said = NoAnswer /\ job'.behind = {}
              \/ /\ job.at # "idle" /\ job'.at = job.at /\ job'.edit = job.edit
                 /\ job'.entry = job.entry /\ job'.said = job.said /\ job'.behind = job.behind
    BY IdleIs DEF Called, Job

LEMMA MovesIs ==
    ASSUME job \in Job, NEW place \in {"removed", "rebased", "skip", "hold", "drop", "discarded"},
           Moves(place)
    PROVE  /\ job' \in Job /\ job'.at = place /\ job'.edit = job.edit
           /\ job'.entry = job.entry /\ job'.said = job.said /\ job'.behind = job.behind
    BY DEF Moves, Job

LEMMA JobStep ==
    ASSUME IInv, TypeOK', Frames', UNCHANGED <<store, lastId, mem, calls, person, past>>,
           service'.rev = service.rev, service'.effects = service.effects,
           \A e \in Edits, rev \in Nat : [edit |-> e, rev |-> rev] \in service'.late => Underway(e, rev),
           copy' <= service.rev, job'.said.rev <= service.rev,
           job'.behind \subseteq job.behind,
           job'.edit \in Edits =>
               \/ job'.edit = job.edit /\ job'.entry = job.entry
               \/ job'.entry = mem[job'.edit] /\ job'.entry # NoEntry,
           job'.at = "sent" =>
               \/ job.at = "sent" /\ job'.edit = job.edit
               \/ \A f \in past.before[job'.edit] : DoneWith(f),
           WentThrough' => WentThrough /\ job'.edit = job.edit /\ job'.entry = job.entry
                           /\ job'.said = job.said
    PROVE  IInv'
<1>0. /\ past \in Past /\ past' = [past EXCEPT !.dropped = past'.dropped]
      /\ past.dropped \subseteq past'.dropped
    BY DEF IInv, Frames, Past
<1>1. ASSUME NEW e \in Edits, NEW v \in Entry, IsVersion(e, v)' PROVE IsVersion(e, v)
    BY <1>1 DEF IsVersion
<1>2. ASSUME NEW e \in Edits PROVE Asked(e)' => Asked(e) \/ \A f \in past.before[e] : DoneWith(f)
    BY UnderwayIs DEF Asked, IInv
<1>3. ASSUME NEW e \in Edits, calls[e].at = "added"
      PROVE  store'[e] # NoEntry /\ mem'[e] = NoEntry /\ job'.edit # e
    BY <1>3 DEF IInv, Born
<1>5. /\ service.rev \in Nat
      /\ \A e \in Edits : calls'[e].rev = calls[e].rev /\ calls'[e].said.rev <= service.rev
    BY DEF IInv, Seen, TypeOK
<1> QED
    BY <1>0, <1>1, <1>2, <1>3, <1>5, PlainStep

LEMMA Idlers ==
    ASSUME IInv, Replay \/ TimerFires \/ NothingToSend \/ Stop
    PROVE  IInv'
<1> USE DEF disk
<1>1. UNCHANGED <<service, faults, store, lastId, txs, copy, mem, calls, person, past>>
    BY DEF Replay, TimerFires, NothingToSend, Stop
<1>2. job \in Job /\ (job.at = "idle" => job.edit = 0 /\ job.entry = NoEntry)
    BY DEF IInv, TypeOK, Job, Frames
<1>3. timer' \in BOOLEAN
    BY DEF Replay, TimerFires, NothingToSend, Stop, Changed, IInv, TypeOK
<1>4. job' \in Job
    BY <1>2, RoundIs, CalledIs DEF Replay, TimerFires, NothingToSend, Stop
<1>5. \/ /\ job'.at \in {"idle", "next"} /\ job'.edit = 0
         /\ job'.entry = NoEntry /\ job'.said = NoAnswer /\ job'.behind = {}
      \/ /\ job'.at = job.at /\ job'.edit = job.edit
         /\ job'.entry = job.entry /\ job'.said = job.said /\ job'.behind = job.behind
    BY <1>2, RoundIs, CalledIs DEF Replay, TimerFires, NothingToSend, Stop
<1>6. TypeOK'
    BY <1>1, <1>3, <1>4 DEF IInv, TypeOK, Job
<1>7. Frames'
    BY <1>1, <1>5 DEF IInv, Frames, WentThrough
<1>8. \A e \in Edits, rev \in Nat : [edit |-> e, rev |-> rev] \in service'.late => Underway(e, rev)
    BY <1>1 DEF Underway
<1>9. copy' <= service.rev /\ job'.said.rev <= service.rev
    BY <1>1, <1>5, NoAnswerIs DEF IInv, Seen, TypeOK
<1>10. WentThrough' => WentThrough /\ job'.edit = job.edit /\ job'.entry = job.entry
                           /\ job'.said = job.said
    BY <1>5 DEF WentThrough
<1> QED
    BY <1>1, <1>5, <1>6, <1>7, <1>8, <1>9, <1>10, JobStep, EditsAre

\* The first edit that waits has nothing before it.
LEMMA HeadsTurn ==
    ASSUME IInv, NEW e \in Edits, IsHead(e), NEW f \in past.before[e]
    PROVE  DoneWith(f)
<1>1. f \in past.accepted /\ f \in Edits
    BY DEF IInv, Born
<1>2. SUFFICES ASSUME f \in Waiting(mem) PROVE FALSE
    BY <1>1 DEF IInv, Waits
<1>3. mem[e] \in Entry /\ mem[f] \in Entry /\ mem[e] # NoEntry /\ mem[f] # NoEntry
    BY <1>1, <1>2 DEF IsHead, Waiting, IInv, TypeOK, Queue
<1>4. IsVersion(e, mem[e]) /\ IsVersion(f, mem[f])
    BY <1>3 DEF IsVersion
<1>5. mem[f].id < mem[e].id
    BY <1>3, <1>4 DEF IInv, Ordered
<1>6. mem[e].id <= mem[f].id
    BY <1>2 DEF IsHead
<1> QED
    BY <1>3, <1>5, <1>6, EntryFields

LEMMA SendHeadStep == ASSUME IInv, NEW e \in Edits, SendHead(e) PROVE IInv'
<1> USE DEF disk
<1>1. UNCHANGED <<service, faults, store, lastId, txs, copy, mem, calls, timer, person, past>>
    BY DEF SendHead
<1>2. mem[e] \in Entry /\ mem[e] # NoEntry /\ e \in 0..LastEdit
    BY EditsAre DEF SendHead, IsHead, Waiting, IInv, TypeOK, Queue
<1>3. job \in Job /\ job.at = "next" /\ job.behind = {}
    BY DEF IInv, TypeOK, Job, Frames, SendHead
<1>4. /\ job' \in Job /\ job'.at = "sent" /\ job'.edit = e /\ job'.entry = mem[e]
      /\ job'.said = job.said /\ job'.behind = job.behind
    BY <1>2, <1>3 DEF SendHead, Job
<1>5. TypeOK'
    BY <1>1, <1>4 DEF IInv, TypeOK, Job
<1>6. Frames'
    BY <1>1, <1>2, <1>3, <1>4 DEF IInv, Frames, WentThrough
<1>7. \A f \in Edits, rev \in Nat : [edit |-> f, rev |-> rev] \in service'.late => Underway(f, rev)
    BY <1>1 DEF Underway
<1>8. copy' <= service.rev /\ job'.said.rev <= service.rev
    BY <1>1, <1>4 DEF IInv, Seen
<1>9. \A f \in past.before[e] : DoneWith(f)
    BY HeadsTurn DEF SendHead
<1> QED
    BY <1>1, <1>2, <1>4, <1>5, <1>6, <1>7, <1>8, <1>9, JobStep DEF WentThrough

\* What is given up may still be on its way.
LEMMA GivenUpIs ==
    ASSUME TypeOK, NEW e \in Edits, NEW rev \in Nat, GivenUp(e, rev)
    PROVE  /\ service' \in Service /\ service'.rev = service.rev
           /\ service'.effects = service.effects
           /\ service'.late = service.late \cup {[edit |-> e, rev |-> rev]}
           /\ faults' \in [lost : Nat, events : Nat]
<1> DEFINE late == service.late \cup {[edit |-> e, rev |-> rev]}
<1>1. service \in Service /\ late \in SUBSET [edit : Edits, rev : Nat]
    BY DEF TypeOK, Service
<1>2. service' = [service EXCEPT !.late = late]
    BY DEF GivenUp
<1>3. faults' \in [lost : Nat, events : Nat]
  <2> DEFINE n == faults.lost + 1
  <2>1. faults \in [lost : Nat, events : Nat] /\ n \in Nat
    BY DEF TypeOK
  <2>2. faults' = [faults EXCEPT !.lost = n]
    BY DEF GivenUp
  <2> HIDE DEF n
  <2> QED
    BY <2>1, <2>2
<1> HIDE DEF late
<1>4. /\ service' \in Service /\ service'.rev = service.rev
      /\ service'.effects = service.effects /\ service'.late = late
    BY <1>1, <1>2 DEF Service
<1> QED
    BY <1>3, <1>4 DEF late

LEMMA LoseHeadStep == IInv /\ LoseHead => IInv'
<1> SUFFICES ASSUME IInv, LoseHead PROVE IInv'
    OBVIOUS
<1> USE DEF disk
<1>1. UNCHANGED <<store, lastId, txs, copy, mem, calls, timer, person, past>>
    BY DEF LoseHead
<1>2. /\ job \in Job /\ job.at = "sent" /\ job.edit \in Edits /\ job.behind = {}
      /\ job.entry \in Entry /\ job.entry # NoEntry
    BY DEF IInv, TypeOK, Job, Frames, LoseHead
<1>3. /\ job' \in Job /\ job'.at = "answered" /\ job'.edit = job.edit /\ job'.entry = job.entry
      /\ job'.said = NoAnswer /\ job'.behind = job.behind
    BY <1>2, NoAnswerIs DEF LoseHead, Job
<1>4. /\ service' \in Service /\ service'.rev = service.rev
      /\ service'.effects = service.effects
      /\ service'.late = service.late \cup {[edit |-> job.edit, rev |-> job.entry.rev]}
      /\ faults' \in [lost : Nat, events : Nat]
    BY <1>2, GivenUpIs, EntryFields DEF IInv, LoseHead
<1>5. TypeOK'
    BY <1>1, <1>3, <1>4 DEF IInv, TypeOK, Job, Service
<1>6. Frames' /\ ~WentThrough'
    BY <1>1, <1>2, <1>3, <1>4, NoAnswerIs DEF IInv, Frames, WentThrough
<1>7. \A f \in Edits, rev \in Nat : [edit |-> f, rev |-> rev] \in service'.late => Underway(f, rev)
    BY <1>2, <1>4 DEF Underway
<1>8. copy' <= service.rev /\ job'.said.rev <= service.rev
    BY <1>1, <1>3, NoAnswerIs DEF IInv, Seen, TypeOK
<1> QED
    BY <1>1, <1>2, <1>3, <1>4, <1>5, <1>6, <1>7, <1>8, JobStep

\* The copy is of a revision the service had.
LEMMA CopyStep == IInv /\ (Adopt \/ Refuse) => IInv'
<1> SUFFICES ASSUME IInv, Adopt \/ Refuse PROVE IInv'
    OBVIOUS
<1> USE DEF disk
<1>1. UNCHANGED <<service, faults, store, lastId, txs, mem, calls, person, past>>
    BY DEF Adopt, Refuse
<1>2. /\ job \in Job /\ job.said.rev \in Nat /\ service.rev \in Nat /\ copy \in Nat
      /\ job.said.rev <= service.rev /\ service.rev > 0 /\ copy <= service.rev
    BY DEF IInv, TypeOK, Job, Outcome, Seen
<1>3. timer' \in BOOLEAN
    BY DEF Adopt, Refuse, Changed, IInv, TypeOK
<1>4. job' \in Job
      /\ \/ /\ job'.at \in {"idle", "next"} /\ job'.edit = 0
            /\ job'.entry = NoEntry /\ job'.said = NoAnswer /\ job'.behind = {}
         \/ /\ job.at = "answered" /\ job'.at \in {"skip", "hold", "drop"} /\ job'.edit = job.edit
            /\ job'.entry = job.entry /\ job'.said = job.said /\ job'.behind = job.behind
  <2>1. CASE Adopt
    BY <1>2, <2>1, RoundIs DEF Adopt
  <2>2. CASE Refuse
    <3>1. PICK answer \in Policies : Moves(answer)
      BY <2>2 DEF Refuse
    <3>2. answer \in {"skip", "hold", "drop"} /\ job.at = "answered"
      BY <2>2, QueueAssumption DEF Refuse
    <3> QED
      BY <1>2, <3>1, <3>2, MovesIs
  <2> QED
    BY <2>1, <2>2
<1>5. copy' \in Nat /\ copy' <= service.rev
    BY <1>2 DEF Adopt, Refuse, NoRev
<1>6. TypeOK'
    BY <1>1, <1>3, <1>4, <1>5 DEF IInv, TypeOK, Job
<1>7. Frames' /\ ~WentThrough'
    BY <1>1, <1>4 DEF IInv, Frames, WentThrough
<1>8. \A f \in Edits, rev \in Nat : [edit |-> f, rev |-> rev] \in service'.late => Underway(f, rev)
    BY <1>1 DEF Underway
<1>9. job'.said.rev <= service.rev
    BY <1>2, <1>4, NoAnswerIs
<1> QED
    BY <1>1, <1>4, <1>5, <1>6, <1>7, <1>8, <1>9, JobStep, EditsAre

(***************************************************************************)
(* Calls that have not come to the queue, and what others do.              *)
(***************************************************************************)

LEMMA CallsAre == TypeOK => calls \in [Edits -> Call]
    BY DEF TypeOK, Call

LEMMA CallStep ==
    ASSUME IInv, TypeOK', UNCHANGED <<store, lastId, mem, job, person, past>>,
           service'.rev = service.rev, service'.effects = service.effects,
           \A f \in Edits, rev \in Nat : [edit |-> f, rev |-> rev] \in service'.late => Underway(f, rev),
           copy' <= service.rev,
           NEW e \in Edits, \A f \in Edits : f # e => calls'[f] = calls[f],
           calls[e].at \in Early, calls'[e].at \in {"made", "sent", "answered", "over"},
           calls[e].at # "unmade",
           calls'[e].rev = calls[e].rev, calls'[e].saved = calls[e].saved,
           calls'[e].said.rev <= service.rev,
           calls'[e].at = "sent" => \A f \in past.before[e] : DoneWith(f)
    PROVE  IInv'
<1>0. /\ past \in Past /\ past' = [past EXCEPT !.dropped = past'.dropped]
      /\ past.dropped \subseteq past'.dropped
    BY DEF IInv, Frames, Past
<1>1. Frames'
  <2>1. \A f \in Edits : (calls'[f].at = "patched") <=> (calls'[f].saved # NoEntry)
    BY DEF IInv, Frames, Early
  <2> QED
    BY <2>1 DEF IInv, Frames, WentThrough
<1>2. ASSUME NEW f \in Edits, NEW v \in Entry, IsVersion(f, v)' PROVE IsVersion(f, v)
    BY <1>2 DEF IsVersion
<1>3. ASSUME NEW f \in Edits PROVE Asked(f)' => Asked(f) \/ \A g \in past.before[f] : DoneWith(g)
    BY UnderwayIs DEF Asked, IInv
<1>4. \A f \in Edits :
          /\ calls'[f].rev = calls[f].rev /\ calls'[f].said.rev <= service.rev
          /\ calls'[f].at \in Early => calls[f].at \in Early
          /\ calls'[f].at = "unmade" => calls[f].at = "unmade"
          /\ calls'[f].at = "added" =>
              /\ calls[f].at = "added"
              /\ store'[f] # NoEntry /\ mem'[f] = NoEntry /\ job'.edit # f
    BY DEF IInv, Seen, Born
<1>5. job'.said.rev <= service.rev /\ service.rev \in Nat
    BY DEF IInv, Seen, TypeOK
<1> QED
    BY <1>0, <1>1, <1>2, <1>3, <1>4, <1>5, PlainStep DEF WentThrough

LEMMA SendStep == ASSUME IInv, NEW e \in Edits, Send(e) PROVE IInv'
<1> USE DEF disk
<1>1. UNCHANGED <<service, faults, store, lastId, txs, copy, mem, job, timer, person, past>>
    BY DEF Send
<1>2. /\ calls' \in [Edits -> Call] /\ calls'[e].at = "sent"
      /\ calls'[e].rev = calls[e].rev /\ calls'[e].said = calls[e].said
      /\ calls'[e].saved = calls[e].saved
      /\ \A f \in Edits : f # e => calls'[f] = calls[f]
    BY GoesTo, CallsAre DEF Send, IInv
<1>3. TypeOK'
    BY <1>1, <1>2 DEF IInv, TypeOK, Call
<1>4. \A f \in past.before[e] : DoneWith(f)
    BY DEF Send, IInv, Born, Waits
<1>5. \A f \in Edits, rev \in Nat : [edit |-> f, rev |-> rev] \in service'.late => Underway(f, rev)
    BY <1>1 DEF Underway
<1>6. copy' <= service.rev /\ calls'[e].said.rev <= service.rev /\ calls[e].at = "made"
    BY <1>1, <1>2 DEF IInv, Seen, Send, At
<1> QED
    BY <1>1, <1>2, <1>3, <1>4, <1>5, <1>6, CallStep DEF Early

LEMMA LoseCallStep == ASSUME IInv, NEW e \in Edits, LoseCall(e) PROVE IInv'
<1> USE DEF disk
<1>1. /\ UNCHANGED <<store, lastId, txs, copy, mem, job, timer, person, past>>
      /\ calls[e].at = "sent" /\ calls \in [Edits -> Call] /\ calls[e].rev \in Nat
    BY CallsAre DEF LoseCall, At, IInv, Call
<1> DEFINE c == [calls[e] EXCEPT !.at = "answered", !.said = NoAnswer]
<1>2. /\ c \in Call /\ c.at = "answered" /\ c.rev = calls[e].rev /\ c.said = NoAnswer
      /\ c.saved = calls[e].saved
    BY <1>1, NoAnswerIs DEF Call
<1>3. calls' = [calls EXCEPT ![e] = c]
    BY DEF LoseCall
<1> HIDE DEF c
<1>4. /\ calls' \in [Edits -> Call] /\ calls'[e] = c
      /\ \A f \in Edits : f # e => calls'[f] = calls[f]
    BY <1>1, <1>2, <1>3, CallAt
<1>5. /\ service' \in Service /\ service'.rev = service.rev
      /\ service'.effects = service.effects
      /\ service'.late = service.late \cup {[edit |-> e, rev |-> calls[e].rev]}
      /\ faults' \in [lost : Nat, events : Nat]
    BY <1>1, GivenUpIs DEF IInv, LoseCall
<1>6. TypeOK'
    BY <1>1, <1>4, <1>5 DEF IInv, TypeOK, Call, Service
<1>7. \A f \in Edits, rev \in Nat : [edit |-> f, rev |-> rev] \in service'.late => Underway(f, rev)
    BY <1>1, <1>5 DEF Underway
<1>8. copy' <= service.rev /\ calls'[e].said.rev <= service.rev
    BY <1>1, <1>2, <1>4, NoAnswerIs DEF IInv, Seen, TypeOK
<1> QED
    BY <1>1, <1>2, <1>4, <1>5, <1>6, <1>7, <1>8, CallStep DEF Early

LEMMA FinishStep == ASSUME IInv, NEW e \in Edits, Finish(e) PROVE IInv'
<1> USE DEF disk
<1>1. /\ UNCHANGED <<service, faults, store, lastId, txs, mem, job, timer, person, past>>
      /\ calls[e].at = "answered" /\ calls \in [Edits -> Call] /\ calls[e].said \in Outcome
    BY CallsAre DEF Finish, At, IInv, Call
<1> DEFINE c == [calls[e] EXCEPT !.at = "over", !.said = NoAnswer]
<1>2. /\ c \in Call /\ c.at = "over" /\ c.rev = calls[e].rev /\ c.said = NoAnswer
      /\ c.saved = calls[e].saved
    BY <1>1, NoAnswerIs DEF Call
<1>3. calls' = [calls EXCEPT ![e] = c]
    BY DEF Finish
<1> HIDE DEF c
<1>4. /\ calls' \in [Edits -> Call] /\ calls'[e] = c
      /\ \A f \in Edits : f # e => calls'[f] = calls[f]
    BY <1>1, <1>2, <1>3, CallAt
<1>5. copy' \in Nat /\ copy' <= service.rev
    BY <1>1 DEF Finish, IInv, Seen, TypeOK, Outcome
<1>6. TypeOK'
    BY <1>1, <1>4, <1>5 DEF IInv, TypeOK, Call
<1>7. \A f \in Edits, rev \in Nat : [edit |-> f, rev |-> rev] \in service'.late => Underway(f, rev)
    BY <1>1 DEF Underway
<1>8. calls'[e].said.rev <= service.rev
    BY <1>1, <1>2, <1>4, NoAnswerIs DEF IInv, Seen, TypeOK
<1> QED
    BY <1>1, <1>2, <1>4, <1>5, <1>6, <1>7, <1>8, CallStep DEF Early

LEMMA OtherWritesStep == ASSUME IInv, OtherWrites PROVE IInv'
<1> USE DEF disk, page
<1> DEFINE n == faults.events + 1
           m == service.rev + 1
<1>1. /\ UNCHANGED <<store, lastId, txs, copy, mem, calls, job, timer, person, past>>
      /\ faults \in [lost : Nat, events : Nat] /\ service \in Service /\ n \in Nat /\ m \in Nat
      /\ m >= service.rev /\ service.rev \in Nat
    BY DEF OtherWrites, IInv, TypeOK, Service
<1>2. faults' = [faults EXCEPT !.events = n] /\ service' = [service EXCEPT !.rev = m]
    BY DEF OtherWrites, Event
<1> HIDE DEF n, m
<1>3. /\ faults' \in [lost : Nat, events : Nat] /\ service' \in Service /\ service'.rev = m
      /\ service'.effects = service.effects /\ service'.late = service.late
    BY <1>1, <1>2 DEF Service
<1>4. TypeOK'
    BY <1>1, <1>3 DEF IInv, TypeOK, Service
<1>5. Frames' /\ (WentThrough' => WentThrough)
    BY <1>1, <1>3 DEF IInv, Frames, WentThrough
<1>6. \A f \in Edits, rev \in Nat : [edit |-> f, rev |-> rev] \in service'.late => Underway(f, rev)
    BY <1>3 DEF Underway
<1>7. /\ copy' <= service.rev /\ job'.said.rev <= service.rev
      /\ \A f \in Edits : calls'[f].rev = calls[f].rev /\ calls'[f].said.rev <= service.rev
    BY <1>1 DEF IInv, Seen
<1>8. \A f \in Edits, v \in Entry : IsVersion(f, v)' => IsVersion(f, v)
    BY <1>1 DEF IsVersion
<1>9. \A f \in Edits : Asked(f)' => Asked(f)
    BY <1>1, <1>3 DEF Asked
<1>10. past' = [past EXCEPT !.dropped = past'.dropped]
    BY <1>1 DEF IInv, Frames, Past
<1>11. \A f \in Edits : calls'[f].at = "added" =>
          calls[f].at = "added" /\ store'[f] # NoEntry /\ mem'[f] = NoEntry /\ job'.edit # f
    BY <1>1 DEF IInv, Born
<1> QED
    BY <1>1, <1>3, <1>4, <1>5, <1>6, <1>7, <1>8, <1>9, <1>10, <1>11, PlainStep

LEMMA ReadStep == ASSUME IInv, Read PROVE IInv'
<1> USE DEF disk, page
<1>1. /\ UNCHANGED <<service, faults, store, lastId, txs, mem, calls, job, timer, person, past>>
      /\ copy' = service.rev /\ service.rev \in Nat
    BY DEF Read, IInv, TypeOK
<1>4. TypeOK'
    BY <1>1 DEF IInv, TypeOK
<1>5. Frames' /\ (WentThrough' => WentThrough)
    BY <1>1 DEF IInv, Frames, WentThrough
<1>6. \A f \in Edits, rev \in Nat : [edit |-> f, rev |-> rev] \in service'.late => Underway(f, rev)
    BY <1>1 DEF Underway
<1>7. /\ copy' <= service.rev /\ job'.said.rev <= service.rev
      /\ \A f \in Edits : calls'[f].rev = calls[f].rev /\ calls'[f].said.rev <= service.rev
    BY <1>1 DEF IInv, Seen
<1>8. \A f \in Edits, v \in Entry : IsVersion(f, v)' => IsVersion(f, v)
    BY <1>1 DEF IsVersion
<1>9. \A f \in Edits : Asked(f)' => Asked(f)
    BY <1>1 DEF Asked
<1>10. past' = [past EXCEPT !.dropped = past'.dropped]
    BY <1>1 DEF IInv, Frames, Past
<1>11. \A f \in Edits : calls'[f].at = "added" =>
          calls[f].at = "added" /\ store'[f] # NoEntry /\ mem'[f] = NoEntry /\ job'.edit # f
    BY <1>1 DEF IInv, Born
<1> QED
    BY <1>1, <1>4, <1>5, <1>6, <1>7, <1>8, <1>9, <1>10, <1>11, PlainStep

(***************************************************************************)
(* Writes to the queue, and the turns when they are done.                  *)
(***************************************************************************)

LEMMA PutsIs ==
    ASSUME TypeOK, NEW who \in Edits \cup {Replayer, Person}, NEW e \in Edits,
           NEW new \in Entry \cup {NoEntry}, Puts(who, e, new)
    PROVE  /\ store' \in Queue /\ store'[e] = new
           /\ \A f \in Edits : f # e => store'[f] = store[f]
           /\ txs' \in Seq(Edits \cup {Replayer, Person})
    BY DEF TypeOK, Puts, Queue

LEMMA SettledIs ==
    ASSUME TypeOK, NEW who, Settled(who)
    PROVE  txs' \in Seq(Edits \cup {Replayer, Person}) /\ UNCHANGED <<store, lastId>>
    BY DEF TypeOK, Settled

LEMMA MappedIs ==
    ASSUME mem \in Queue, NEW e \in Edits, NEW new \in Entry \cup {NoEntry},
           mem' = Mapped(e, new)
    PROVE  /\ mem' \in Queue
           /\ mem'[e] = IF mem[e] = NoEntry THEN NoEntry ELSE new
           /\ \A f \in Edits : f # e => mem'[f] = mem[f]
    BY DEF Mapped, Queue

\* A step that writes what was written before, or removes what is done with.
LEMMA QueueStep ==
    ASSUME IInv, TypeOK', Frames', UNCHANGED <<service, lastId, copy>>,
           \A e \in Edits :
               /\ calls'[e].rev = calls[e].rev /\ calls'[e].said = calls[e].said
               /\ \/ calls'[e].at = calls[e].at
                  \/ /\ calls[e].at \in {"listed", "patched"}
                     /\ calls'[e].at \in {"patched", "over"}
               /\ calls[e].at = "added" =>
                   store'[e] # NoEntry /\ mem'[e] = NoEntry /\ job'.edit # e,
           \A e \in Edits, v \in Entry : IsVersion(e, v)' => IsVersion(e, v),
           past' = [past EXCEPT !.dropped = past'.dropped], past.dropped \subseteq past'.dropped,
           job'.at = "sent" => job.at = "sent" /\ job'.edit = job.edit,
           job'.said = job.said \/ job'.said = NoAnswer,
           WentThrough' => WentThrough /\ job'.edit = job.edit /\ job'.entry = job.entry
                           /\ job'.said = job.said,
           \A e \in Edits : mem[e] # NoEntry =>
               mem'[e] # NoEntry \/ service.effects[e] > 0 \/ e \in past'.dropped,
           \A e \in Edits : store[e] # NoEntry =>
               store'[e] # NoEntry \/ service.effects[e] > 0 \/ e \in past'.dropped
    PROVE  IInv'
<1>1. /\ service.rev \in Nat /\ copy' <= service.rev /\ job'.said.rev <= service.rev
      /\ \A e \in Edits : calls'[e].said.rev <= service.rev
    BY NoAnswerIs DEF IInv, Seen, TypeOK
<1>2. \A f \in Edits, rev \in Nat : [edit |-> f, rev |-> rev] \in service'.late => Underway(f, rev)
    BY DEF Underway
<1>3. \A e \in Edits : Asked(e)' => Asked(e)
    BY DEF Asked
<1>4. \A e \in Edits : mem[e] # NoEntry => mem'[e] # NoEntry \/ DoneWith(e)'
    BY DEF DoneWith
<1>5. \A e \in Edits :
          /\ calls'[e].at \in Early => calls[e].at \in Early
          /\ calls'[e].at = "unmade" => calls[e].at = "unmade"
          /\ calls'[e].at = "added" =>
              /\ calls[e].at = "added"
              /\ store'[e] # NoEntry /\ mem'[e] = NoEntry /\ job'.edit # e
    BY DEF Early
<1> QED
    BY <1>1, <1>2, <1>3, <1>4, <1>5, PlainStep

LEMMA PatchStep == ASSUME IInv, NEW e \in Edits, Patch(e) PROVE IInv'
<1> USE DEF disk
<1>1. /\ UNCHANGED <<service, faults, lastId, copy, mem, timer, person, past>>
      /\ calls[e].at = "listed" /\ calls \in [Edits -> Call] /\ mem \in Queue
      /\ past' = [past EXCEPT !.dropped = past'.dropped] /\ past.dropped \subseteq past'.dropped
      /\ calls[e].saved = NoEntry
    BY CallsAre DEF Patch, At, IInv, TypeOK, Frames, Past
<1>2. CASE mem[e] # NoEntry /\ Puts(e, e, mem[e])
           /\ calls' = [calls EXCEPT ![e].at = "patched", ![e].saved = mem[e]] /\ UNCHANGED job
  <2> DEFINE c == [calls[e] EXCEPT !.at = "patched", !.saved = mem[e]]
  <2>1. mem[e] \in Entry \cup {NoEntry}
    BY <1>1 DEF Queue
  <2>2. /\ c \in Call /\ c.at = "patched" /\ c.rev = calls[e].rev /\ c.said = calls[e].said
        /\ c.saved = mem[e]
    BY <1>1, <2>1 DEF Call
  <2>3. calls' = [calls EXCEPT ![e] = c]
    BY <1>2
  <2> HIDE DEF c
  <2>4. /\ calls' \in [Edits -> Call] /\ calls'[e] = c
        /\ \A f \in Edits : f # e => calls'[f] = calls[f]
    BY <1>1, <2>2, <2>3, CallAt
  <2>5. /\ store' \in Queue /\ store'[e] = mem[e]
        /\ \A f \in Edits : f # e => store'[f] = store[f]
        /\ txs' \in Seq(Edits \cup {Replayer, Person})
    BY <1>2, <2>1, PutsIs DEF IInv
  <2>6. TypeOK'
    BY <1>1, <1>2, <2>4, <2>5 DEF IInv, TypeOK, Call
  <2>7. Frames' /\ (WentThrough' => WentThrough)
    BY <1>1, <1>2, <2>2, <2>4 DEF IInv, Frames, WentThrough
  <2>8. ASSUME NEW f \in Edits, NEW v \in Entry, IsVersion(f, v)' PROVE IsVersion(f, v)
    BY <1>1, <1>2, <2>2, <2>4, <2>5, <2>8 DEF IsVersion
  <2>9. \A f \in Edits :
          /\ calls'[f].rev = calls[f].rev /\ calls'[f].said = calls[f].said
          /\ \/ calls'[f].at = calls[f].at
             \/ calls[f].at \in {"listed", "patched"} /\ calls'[f].at \in {"patched", "over"}
          /\ calls[f].at = "added" => store'[f] # NoEntry /\ mem'[f] = NoEntry /\ job'.edit # f
    BY <1>1, <1>2, <2>2, <2>4, <2>5 DEF IInv, Born
  <2> QED
    BY <1>1, <1>2, <2>5, <2>6, <2>7, <2>8, <2>9, QueueStep
<1>3. CASE Goes(e, "over") /\ Called /\ UNCHANGED <<store, txs>>
  <2>1. /\ calls' \in [Edits -> Call] /\ calls'[e].at = "over"
        /\ calls'[e].rev = calls[e].rev /\ calls'[e].said = calls[e].said
        /\ calls'[e].saved = calls[e].saved
        /\ \A f \in Edits : f # e => calls'[f] = calls[f]
    BY <1>1, <1>3, GoesTo
  <2>2. job \in Job /\ (job.at = "idle" => job.edit = 0 /\ job.entry = NoEntry)
    BY DEF IInv, TypeOK, Job, Frames
  <2>3. /\ job' \in Job
        /\ \/ /\ job.at = "idle" /\ job'.at = "next" /\ job'.edit = 0
              /\ job'.entry = NoEntry /\ job'.said = NoAnswer /\ job'.behind = {}
           \/ /\ job.at # "idle" /\ job'.at = job.at /\ job'.edit = job.edit
              /\ job'.entry = job.entry /\ job'.said = job.said /\ job'.behind = job.behind
    BY <1>3, <2>2, CalledIs
  <2>6. TypeOK'
    BY <1>1, <1>3, <2>1, <2>3 DEF IInv, TypeOK, Call, Job
  <2>7. Frames' /\ (WentThrough' => WentThrough /\ job'.edit = job.edit /\ job'.entry = job.entry
                                    /\ job'.said = job.said)
    BY <1>1, <2>1, <2>3 DEF IInv, Frames, WentThrough
  <2>8. ASSUME NEW f \in Edits, NEW v \in Entry, IsVersion(f, v)' PROVE IsVersion(f, v)
    BY <1>1, <1>3, <2>1, <2>3, <2>8, EditsAre DEF IsVersion
  <2>9. \A f \in Edits :
          /\ calls'[f].rev = calls[f].rev /\ calls'[f].said = calls[f].said
          /\ \/ calls'[f].at = calls[f].at
             \/ calls[f].at \in {"listed", "patched"} /\ calls'[f].at \in {"patched", "over"}
          /\ calls[f].at = "added" => store'[f] # NoEntry /\ mem'[f] = NoEntry /\ job'.edit # f
    BY <1>1, <1>3, <2>1, <2>3, EditsAre DEF IInv, Born
  <2> QED
    BY <1>1, <1>3, <2>3, <2>6, <2>7, <2>8, <2>9, QueueStep
<1> QED
  BY <1>2, <1>3 DEF Patch

LEMMA PatchedStep == ASSUME IInv, NEW e \in Edits, Patched(e) PROVE IInv'
<1> USE DEF disk
<1>1. /\ UNCHANGED <<service, faults, store, lastId, copy, timer, person, past>>
      /\ txs' \in Seq(Edits \cup {Replayer, Person})
      /\ calls[e].at = "patched" /\ calls \in [Edits -> Call] /\ mem \in Queue
      /\ past' = [past EXCEPT !.dropped = past'.dropped] /\ past.dropped \subseteq past'.dropped
      /\ calls[e].saved \in Entry /\ calls[e].saved # NoEntry
    BY CallsAre, SettledIs DEF Patched, At, IInv, TypeOK, Frames, Past
<1> DEFINE c == [calls[e] EXCEPT !.at = "over", !.saved = NoEntry]
<1>2. /\ c \in Call /\ c.at = "over" /\ c.rev = calls[e].rev /\ c.said = calls[e].said
      /\ c.saved = NoEntry
  <2>1. calls[e] \in Call
    BY <1>1
  <2> QED
    BY <2>1 DEF Call
<1>3. calls' = [calls EXCEPT ![e] = c]
    BY DEF Patched
<1> HIDE DEF c
<1>4. /\ calls' \in [Edits -> Call] /\ calls'[e] = c
      /\ \A f \in Edits : f # e => calls'[f] = calls[f]
    BY <1>1, <1>2, <1>3, CallAt
<1>5. /\ mem' \in Queue
      /\ mem'[e] = IF mem[e] = NoEntry THEN NoEntry ELSE calls[e].saved
      /\ \A f \in Edits : f # e => mem'[f] = mem[f]
    BY <1>1, MappedIs DEF Patched
<1>6. job \in Job /\ (job.at = "idle" => job.edit = 0 /\ job.entry = NoEntry)
    BY DEF IInv, TypeOK, Job, Frames
<1>7. /\ job' \in Job
      /\ \/ /\ job.at = "idle" /\ job'.at = "next" /\ job'.edit = 0
            /\ job'.entry = NoEntry /\ job'.said = NoAnswer /\ job'.behind = {}
         \/ /\ job.at # "idle" /\ job'.at = job.at /\ job'.edit = job.edit
            /\ job'.entry = job.entry /\ job'.said = job.said /\ job'.behind = job.behind
    BY <1>6, CalledIs DEF Patched
<1>8. TypeOK'
    BY <1>1, <1>4, <1>5, <1>7 DEF IInv, TypeOK, Call, Job
<1>9. Frames' /\ (WentThrough' => WentThrough /\ job'.edit = job.edit /\ job'.entry = job.entry
                                  /\ job'.said = job.said)
    BY <1>1, <1>2, <1>4, <1>7 DEF IInv, Frames, WentThrough
<1>10. ASSUME NEW f \in Edits, NEW v \in Entry, IsVersion(f, v)' PROVE IsVersion(f, v)
    BY <1>1, <1>2, <1>4, <1>5, <1>7, <1>10, EditsAre DEF IsVersion
<1>11. \A f \in Edits :
        /\ calls'[f].rev = calls[f].rev /\ calls'[f].said = calls[f].said
        /\ \/ calls'[f].at = calls[f].at
           \/ calls[f].at \in {"listed", "patched"} /\ calls'[f].at \in {"patched", "over"}
        /\ calls[f].at = "added" => store'[f] # NoEntry /\ mem'[f] = NoEntry /\ job'.edit # f
    BY <1>1, <1>2, <1>4, <1>5, <1>7, EditsAre DEF IInv, Born
<1> QED
    BY <1>1, <1>5, <1>7, <1>8, <1>9, <1>10, <1>11, QueueStep

\* A write of the replay: what it writes was written of the edit, or the edit
\* is done with.
LEMMA ReplayPuts ==
    ASSUME IInv, NEW e \in Edits, NEW new \in Entry \cup {NoEntry}, Puts(Replayer, e, new),
           NEW place \in {"removed", "rebased", "discarded"}, Moves(place),
           UNCHANGED <<service, faults, lastId, copy, mem, calls, timer, person>>,
           place # "rebased" => job.at # "rebase" /\ job.behind = {},
           place # "discarded" => WentThrough,
           place = "rebased" => job.at = "rebase",
           place = "removed" => job.said.kind = "ok",
           job.at \notin {"idle", "next"},
           past' = [past EXCEPT !.dropped = past'.dropped], past.dropped \subseteq past'.dropped,
           past'.dropped \subseteq Edits, place = "discarded" => job.edit \in past'.dropped,
           IF new = NoEntry THEN e = job.edit /\ (service.effects[e] > 0 \/ e \in past'.dropped)
                            ELSE IsVersion(e, new)
    PROVE  IInv'
<1>1. /\ store' \in Queue /\ store'[e] = new
      /\ \A f \in Edits : f # e => store'[f] = store[f]
      /\ txs' \in Seq(Edits \cup {Replayer, Person})
    BY PutsIs DEF IInv
<1>2. job \in Job
    BY DEF IInv, TypeOK, Job
<1>3. /\ job' \in Job /\ job'.at = place /\ job'.edit = job.edit
      /\ job'.entry = job.entry /\ job'.said = job.said /\ job'.behind = job.behind
    BY <1>2, MovesIs
<1>4. TypeOK'
    BY <1>1, <1>3 DEF IInv, TypeOK, Job
<1>5. WentThrough' => WentThrough
    BY <1>3 DEF WentThrough
<1>6. Frames'
  <2>1. past' \in Past
    BY DEF IInv, Frames, Past
  <2>2. past.dropped \subseteq past'.dropped
    OBVIOUS
  <2> QED
    BY <1>3, <1>5, <2>1, <2>2 DEF IInv, Frames
<1>7. ASSUME NEW f \in Edits, NEW v \in Entry, IsVersion(f, v)' PROVE IsVersion(f, v)
  <2>1. CASE v = store'[f] /\ f = e
    BY <1>1, <1>7, <2>1 DEF IsVersion
  <2>2. CASE ~(v = store'[f] /\ f = e)
    BY <1>1, <1>3, <1>7, <2>2 DEF IsVersion
  <2> QED
    BY <2>1, <2>2
<1>8. \A f \in Edits : calls[f].at = "added" =>
        store'[f] # NoEntry /\ mem'[f] = NoEntry /\ job'.edit # f
    BY <1>1, <1>3 DEF IInv, Born
<1> QED
    BY <1>1, <1>3, <1>4, <1>5, <1>6, <1>7, <1>8, QueueStep

LEMMA RemoveStep == IInv /\ Remove => IInv'
<1> SUFFICES ASSUME IInv, Remove PROVE IInv'
    OBVIOUS
<1>1. /\ UNCHANGED <<service, faults, lastId, copy, mem, calls, timer, person, past>>
      /\ job.at = "answered" /\ job.said.kind = "ok" /\ WentThrough /\ job.edit \in Edits
      /\ service.effects[job.edit] > 0 /\ job.behind = {}
    BY DEF Remove, WentThrough, IInv, Frames
<1>2. /\ past' = [past EXCEPT !.dropped = past'.dropped] /\ past.dropped \subseteq past'.dropped
      /\ past'.dropped \subseteq Edits
    BY <1>1 DEF IInv, Frames, Past
<1>3. Puts(Replayer, job.edit, NoEntry) /\ Moves("removed")
    BY DEF Remove
<1> QED
    BY <1>1, <1>2, <1>3, ReplayPuts

LEMMA PutRebasedStep == ASSUME IInv, NEW b \in job.behind, PutRebased(b) PROVE IInv'
<1>1. /\ UNCHANGED <<service, faults, lastId, copy, mem, calls, timer, person, past>>
      /\ job.at = "rebase" /\ WentThrough
    BY DEF PutRebased, WentThrough
<1>2. /\ past' = [past EXCEPT !.dropped = past'.dropped] /\ past.dropped \subseteq past'.dropped
      /\ past'.dropped \subseteq Edits
    BY <1>1 DEF IInv, Frames, Past
<1>3. b \in [edit : Edits, entry : Entry] /\ b.entry # NoEntry
    BY EntryFields DEF IInv, TypeOK
<1>4. b = [edit |-> b.edit, entry |-> b.entry]
    BY <1>3
<1>5. IsVersion(b.edit, b.entry)
    BY <1>3, <1>4 DEF IsVersion
<1>6. Puts(Replayer, b.edit, b.entry) /\ Moves("rebased")
    BY DEF PutRebased
<1> QED
    BY <1>1, <1>2, <1>3, <1>5, <1>6, ReplayPuts

LEMMA DiscardStep == IInv /\ Discard => IInv'
<1> SUFFICES ASSUME IInv, Discard PROVE IInv'
    OBVIOUS
<1>1. /\ UNCHANGED <<service, faults, lastId, copy, mem, calls, timer, person>>
      /\ job.at = "drop" /\ job.edit \in Edits /\ job.behind = {}
    BY DEF Discard, IInv, Frames
<1> DEFINE d == past.dropped \cup {job.edit}
<1>2. past \in Past /\ past' = [past EXCEPT !.dropped = d]
    BY DEF IInv, Frames, Discard
<1>3. past'.dropped = d /\ past.dropped \subseteq d /\ d \subseteq Edits /\ job.edit \in d
    BY <1>1, <1>2 DEF Past
<1>4. past' = [past EXCEPT !.dropped = past'.dropped]
    BY <1>2, <1>3
<1>5. Puts(Replayer, job.edit, NoEntry) /\ Moves("discarded")
    BY DEF Discard
<1> HIDE DEF d
<1> QED
    BY <1>1, <1>3, <1>4, <1>5, ReplayPuts

\* The turn after a write of the replay or the person: memory follows.
LEMMA SettledStep ==
    ASSUME IInv, NEW who, Settled(who), NEW e \in Edits,
           UNCHANGED <<service, faults, copy, calls, past>>,
           mem' \in Queue, timer' \in BOOLEAN, person' \in People, Frames',
           \A f \in Edits : f # e => mem'[f] = mem[f],
           mem[e] # NoEntry => \/ mem'[e] # NoEntry /\ IsVersion(e, mem'[e])
                               \/ mem'[e] = NoEntry /\ e \in past.dropped,
           mem[e] = NoEntry => mem'[e] = NoEntry,
           job' \in Job, job'.at = "sent" => job.at = "sent" /\ job'.edit = job.edit,
           job'.said = job.said \/ job'.said = NoAnswer,
           \/ job'.edit = 0 /\ job'.behind = {}
           \/ /\ job'.edit = job.edit /\ job'.entry = job.entry
              /\ job'.behind \subseteq job.behind,
           person' = person \/ person' = Nobody,
           WentThrough' => WentThrough /\ job'.edit = job.edit /\ job'.entry = job.entry
                           /\ job'.said = job.said
    PROVE  IInv'
<1>1. txs' \in Seq(Edits \cup {Replayer, Person}) /\ UNCHANGED <<store, lastId>>
    BY SettledIs DEF IInv
<1>2. TypeOK'
    BY <1>1 DEF IInv, TypeOK, Job, People
<1>3. past' = [past EXCEPT !.dropped = past'.dropped] /\ past.dropped \subseteq past'.dropped
    BY DEF IInv, Frames, Past
<1>4. ASSUME NEW f \in Edits, NEW v \in Entry, IsVersion(f, v)' PROVE IsVersion(f, v)
  <2>1. CASE v = mem'[f]
    BY <1>4, <2>1 DEF IsVersion
  <2>2. CASE v # mem'[f]
    BY <1>1, <1>4, <2>2, EditsAre DEF IsVersion, Nobody
  <2> QED
    BY <2>1, <2>2
<1>5. \A f \in Edits : calls[f].at = "added" =>
        store'[f] # NoEntry /\ mem'[f] = NoEntry /\ job'.edit # f
    BY <1>1, EditsAre DEF IInv, Born
<1> QED
    BY <1>1, <1>2, <1>3, <1>4, <1>5, QueueStep

LEMMA MapRebasedStep == ASSUME IInv, NEW b \in job.behind, MapRebased(b) PROVE IInv'
<1>1. /\ UNCHANGED <<service, faults, copy, calls, timer, person, past>>
      /\ job.at = "rebased" /\ WentThrough /\ Settled(Replayer)
    BY DEF MapRebased, WentThrough
<1>2. /\ b \in [edit : Edits, entry : Entry] /\ b.entry # NoEntry
      /\ job \in Job /\ timer \in BOOLEAN /\ person \in People /\ mem \in Queue
    BY EntryFields DEF IInv, TypeOK, Job, People
<1>3. b = [edit |-> b.edit, entry |-> b.entry]
    BY <1>2
<1>4. IsVersion(b.edit, b.entry)
    BY <1>2, <1>3 DEF IsVersion
<1>5. /\ mem' \in Queue
      /\ mem'[b.edit] = IF mem[b.edit] = NoEntry THEN NoEntry ELSE b.entry
      /\ \A f \in Edits : f # b.edit => mem'[f] = mem[f]
    BY <1>2, MappedIs DEF MapRebased
<1> DEFINE rest == job.behind \ {b}
<1>6. rest \subseteq job.behind /\ rest \in SUBSET [edit : Edits, entry : Entry]
    BY <1>2 DEF Job
<1>7. job' = [job EXCEPT !.at = "rebase", !.behind = rest]
    BY DEF MapRebased
<1> HIDE DEF rest
<1>8. /\ job' \in Job /\ job'.at = "rebase" /\ job'.behind = rest /\ job'.edit = job.edit
      /\ job'.entry = job.entry /\ job'.said = job.said
    BY <1>2, <1>6, <1>7 DEF Job
<1>9. Frames'
    BY <1>1, <1>8 DEF IInv, Frames, WentThrough
<1>10. b.edit \in Edits
    BY <1>2
<1> QED
    BY <1>1, <1>2, <1>4, <1>5, <1>6, <1>8, <1>9, <1>10, SettledStep

LEMMA ParkedStep == IInv /\ Parked => IInv'
<1> SUFFICES ASSUME IInv, Parked PROVE IInv'
    OBVIOUS
<1>1. /\ UNCHANGED <<service, faults, copy, calls, person, past>>
      /\ job.at = "parked" /\ job.edit \in Edits /\ Settled(Replayer)
    BY DEF Parked, IInv, Frames
<1>2. /\ job \in Job /\ job.entry \in Entry /\ job.entry # NoEntry
      /\ person \in People /\ mem \in Queue
    BY <1>1 DEF IInv, TypeOK, Frames, Job, People
<1>3. IsVersion(job.edit, job.entry)
    BY <1>2 DEF IsVersion
<1>4. /\ mem' \in Queue
      /\ mem'[job.edit] = IF mem[job.edit] = NoEntry THEN NoEntry ELSE job.entry
      /\ \A f \in Edits : f # job.edit => mem'[f] = mem[f]
    BY <1>1, <1>2, MappedIs DEF Parked
<1>5. timer' \in BOOLEAN
    BY DEF Parked, Changed
<1>6. /\ job' \in Job /\ job'.at \in {"idle", "next"} /\ job'.edit = 0
      /\ job'.entry = NoEntry /\ job'.said = NoAnswer /\ job'.behind = {}
    BY <1>2, RoundIs DEF Parked
<1>7. Frames' /\ ~WentThrough'
    BY <1>1, <1>6 DEF IInv, Frames, WentThrough
<1> QED
    BY <1>1, <1>2, <1>3, <1>4, <1>5, <1>6, <1>7, SettledStep

LEMMA DiscardedStep == IInv /\ Discarded => IInv'
<1> SUFFICES ASSUME IInv, Discarded PROVE IInv'
    OBVIOUS
<1>1. /\ UNCHANGED <<service, faults, copy, calls, person, past>>
      /\ job.at = "discarded" /\ job.edit \in Edits /\ Settled(Replayer)
      /\ job.edit \in past.dropped
    BY DEF Discarded, IInv, Frames
<1>2. /\ job \in Job /\ person \in People /\ mem \in Queue
    BY <1>1 DEF IInv, TypeOK, Job, People
<1>4. /\ mem' \in Queue /\ mem'[job.edit] = NoEntry
      /\ \A f \in Edits : f # job.edit => mem'[f] = mem[f]
    BY <1>1, <1>2 DEF Discarded, Queue
<1>5. timer' \in BOOLEAN
    BY DEF Discarded, Changed
<1>6. /\ job' \in Job /\ job'.at \in {"idle", "next"} /\ job'.edit = 0
      /\ job'.entry = NoEntry /\ job'.said = NoAnswer /\ job'.behind = {}
    BY <1>2, RoundIs DEF Discarded
<1>7. Frames' /\ ~WentThrough'
    BY <1>1, <1>6 DEF IInv, Frames, WentThrough
<1> QED
    BY <1>1, <1>2, <1>4, <1>5, <1>6, <1>7, SettledStep

LEMMA DoneStep == IInv /\ Done => IInv'
<1> SUFFICES ASSUME IInv, Done PROVE IInv'
    OBVIOUS
<1>1. /\ UNCHANGED <<service, faults, copy, calls, past>>
      /\ person.edit \in Edits /\ person' = Nobody /\ Settled(Person)
    BY DEF Done, IInv, Frames
<1>2. /\ job \in Job /\ person \in People /\ mem \in Queue
      /\ (job.at = "idle" => job.edit = 0 /\ job.entry = NoEntry)
    BY <1>1 DEF IInv, TypeOK, Job, People, Frames
<1>3. person.entry \in Entry \cup {NoEntry} /\ (person.entry = NoEntry => person.edit \in past.dropped)
    BY <1>1, <1>2 DEF IInv, Frames, People
<1>4. /\ mem' \in Queue
      /\ mem'[person.edit] = IF mem[person.edit] = NoEntry THEN NoEntry ELSE person.entry
      /\ \A f \in Edits : f # person.edit => mem'[f] = mem[f]
    BY <1>1, <1>2, <1>3, MappedIs DEF Done
<1>5. timer' \in BOOLEAN /\ person' \in People
    BY <1>1, EntryFields, QueueAssumption DEF Done, Changed, People, Nobody
<1>6. /\ job' \in Job
      /\ \/ /\ job.at = "idle" /\ job'.at = "next" /\ job'.edit = 0
            /\ job'.entry = NoEntry /\ job'.said = NoAnswer /\ job'.behind = {}
         \/ /\ job.at # "idle" /\ job'.at = job.at /\ job'.edit = job.edit
            /\ job'.entry = job.entry /\ job'.said = job.said /\ job'.behind = job.behind
    BY <1>2, CalledIs DEF Done
<1>7. Frames' /\ (WentThrough' => WentThrough /\ job'.edit = job.edit /\ job'.entry = job.entry
                                  /\ job'.said = job.said)
    BY <1>1, <1>6, EditsAre DEF IInv, Frames, WentThrough, Nobody
<1>8. mem[person.edit] # NoEntry =>
          \/ mem'[person.edit] # NoEntry /\ IsVersion(person.edit, mem'[person.edit])
          \/ mem'[person.edit] = NoEntry /\ person.edit \in past.dropped
    BY <1>1, <1>3, <1>4 DEF IsVersion
<1> QED
    BY <1>1, <1>2, <1>4, <1>5, <1>6, <1>7, <1>8, SettledStep

LEMMA DropStep == ASSUME IInv, NEW e \in Edits, Drop(e) PROVE IInv'
<1>1. /\ UNCHANGED <<service, faults, lastId, copy, mem, calls, job, timer>>
      /\ mem[e] # NoEntry
    BY DEF Drop
<1> DEFINE d == past.dropped \cup {e}
<1>2. past \in Past /\ past' = [past EXCEPT !.dropped = d]
    BY DEF IInv, Frames, Drop
<1>3. past'.dropped = d /\ past.dropped \subseteq d /\ d \subseteq Edits /\ e \in d /\ past' \in Past
    BY <1>1, <1>2 DEF Past
<1>4. past' = [past EXCEPT !.dropped = past'.dropped]
    BY <1>2, <1>3
<1> HIDE DEF d
<1>5. /\ store' \in Queue /\ store'[e] = NoEntry
      /\ \A f \in Edits : f # e => store'[f] = store[f]
      /\ txs' \in Seq(Edits \cup {Replayer, Person})
    BY PutsIs DEF IInv, Drop
<1>6. person'.edit = e /\ person'.entry = NoEntry /\ person' \in People
    BY EditsAre DEF Drop, Nobody, People
<1>7. TypeOK'
    BY <1>1, <1>5, <1>6 DEF IInv, TypeOK, People
<1>8. Frames' /\ (WentThrough' => WentThrough)
    BY <1>1, <1>3, <1>6 DEF IInv, Frames, WentThrough
<1>9. ASSUME NEW f \in Edits, NEW v \in Entry, IsVersion(f, v)' PROVE IsVersion(f, v)
    BY <1>1, <1>5, <1>6, <1>9 DEF IsVersion
<1>10. \A f \in Edits : calls[f].at = "added" =>
        store'[f] # NoEntry /\ mem'[f] = NoEntry /\ job'.edit # f
    BY <1>1, <1>5 DEF IInv, Born
<1> QED
    BY <1>1, <1>3, <1>4, <1>5, <1>7, <1>8, <1>9, <1>10, QueueStep

(***************************************************************************)
(* Requests that arrive.                                                   *)
(***************************************************************************)

\* A step in which the service is asked with what was under way.
LEMMA ServedStep ==
    ASSUME IInv, TypeOK', Frames', Rebases', UNCHANGED <<store, lastId, copy, mem, person, past>>,
           NEW e \in Edits, NEW rev \in Nat, Underway(e, rev), Served(e, rev),
           service'.late \subseteq service.late,
           \A f \in Edits :
               /\ calls'[f].rev = calls[f].rev /\ calls'[f].saved = calls[f].saved
               /\ \/ calls'[f].at = calls[f].at
                  \/ calls[f].at = "sent" /\ calls'[f].at = "answered"
               /\ calls'[f].said.rev <= service'.rev,
           UNCHANGED <<job.edit, job.entry, job.behind>>,
           job'.at = job.at \/ job'.at = "answered",
           job'.said.rev <= service'.rev,
           WentThrough' /\ job'.edit \notin Creates => job'.said.rev # NoRev
    PROVE  IInv'
<1> USE DEF IInv
<1>0. /\ \A f \in Edits : past.before[f] \subseteq Edits
      /\ service.rev \in Nat
      /\ \A f \in Edits : service.effects[f] \in Nat /\ service'.effects[f] \in Nat
    BY DEF Frames, Past, TypeOK
<1>1. ASSUME NEW f \in Edits, NEW v \in Entry, IsVersion(f, v)' PROVE IsVersion(f, v)
    BY <1>1 DEF IsVersion
<1>2. ASSUME NEW f \in Edits, NEW r \in Nat, IsRev(f, r)' PROVE IsRev(f, r)
    BY <1>1, <1>2 DEF IsRev
<1>3. IsRev(e, rev) /\ Asked(e)
    BY UnderwayIs
<1>4. /\ Once'
      /\ service'.rev \in Nat /\ service'.rev >= service.rev
      /\ \A f \in Edits : service'.effects[f] >= service.effects[f]
    BY <1>2, <1>3, EffectStep
<1>5. \A f \in Edits : f # e => service'.effects[f] = service.effects[f]
    BY EffectFields DEF Served
<1>6. Born'
  <2>1. calls[e].at # "unmade"
    <3>1. SUFFICES ASSUME calls[e].at = "unmade" PROVE FALSE
      OBVIOUS
    <3>2. /\ [edit |-> e, rev |-> rev] \notin service.late
          /\ \A v \in Entry : ~IsVersion(e, v)
      BY <3>1 DEF Born
    <3>3. ~(job.at = "sent" /\ job.edit = e)
      BY <3>2 DEF IsVersion, Frames, TypeOK
    <3> QED
      BY <3>1, <3>2, <3>3 DEF Underway
  <2> QED
    BY <1>1, <1>5, <2>1 DEF Born
<1>7. \A f \in Edits : DoneWith(f) => DoneWith(f)'
    BY <1>0, <1>4 DEF DoneWith
<1>8. Waits' /\ NothingLost' /\ Failures'
  <2>1. past.accepted \subseteq Edits
    BY DEF Born
  <2>2. \A f \in Edits : service.effects[f] > 0 => service'.effects[f] > 0
    BY <1>0, <1>4
  <2> QED
    BY <1>1, <1>7, <2>1, <2>2 DEF Waits, NothingLost, Failures
<1>9. Ordered'
    BY <1>0, <1>1, OrderedStep
<1>10. Turn'
  <2>1. \A f \in Edits : service.effects[f] > 0 => service'.effects[f] > 0
    BY <1>0, <1>4
  <2>2. ASSUME NEW f \in Edits, Asked(f)' \/ service'.effects[f] > 0
        PROVE  Asked(f) \/ service.effects[f] > 0
    <3>1. CASE f = e
      BY <1>3, <3>1
    <3>2. CASE f # e
      BY <1>5, <2>2, <3>2 DEF Asked
    <3> QED
      BY <3>1, <3>2
  <2> QED
    BY <1>0, <2>1, <2>2, TurnStep
<1>11. Seen'
  <2>1. copy' \in Nat /\ copy' <= service'.rev /\ service'.rev > 0
    BY <1>0, <1>4 DEF Seen, TypeOK
  <2>2. ASSUME NEW f \in Edits, NEW r \in Nat, IsRev(f, r)' PROVE r <= service'.rev
    <3>1. r <= service.rev
      BY <1>2, <2>2 DEF Seen
    <3> QED
      BY <1>0, <1>4, <3>1
  <2> QED
    BY <2>1, <2>2 DEF Seen
<1> QED
    BY <1>4, <1>6, <1>8, <1>9, <1>10, <1>11

\* While the replay goes on with an edit that went through, the others keep
\* clear of the revision it got.
LEMMA RebasesStay ==
    ASSUME IInv, past'.saved = past.saved, NEW e \in Edits, NEW rev \in Nat, Underway(e, rev),
           Served(e, rev),
           \A f \in Edits : calls'[f].rev = calls[f].rev,
           \A f \in Edits, r \in Nat : IsRev(f, r)' => IsRev(f, r),
           WentThrough' => WentThrough /\ job'.edit = job.edit /\ job'.entry = job.entry
                           /\ job'.said = job.said
    PROVE  Rebases'
<1> SUFFICES ASSUME WentThrough', job'.edit \notin Creates, NEW f \in Edits \ {job'.edit},
                    Versioned(f)', IsRev(f, job.entry.rev)'
             PROVE  Spent(f, job.said.rev)'
    BY DEF Rebases
<1>1. job.entry.rev \in Nat /\ job.said.rev \in Nat /\ job.said.rev <= service.rev
    BY EntryFields DEF IInv, Frames, WentThrough, TypeOK, Outcome, Seen
<1>2. Versioned(f) /\ IsRev(f, job.entry.rev)
    BY <1>1 DEF Versioned
<1>3. Spent(f, job.said.rev)
    BY <1>2 DEF IInv, Rebases
<1>4. IsRev(e, rev)
    BY UnderwayIs DEF IInv
<1>5. \A r \in Nat : r <= service.rev => (Spent(f, r) => Spent(f, r)')
    BY <1>2, <1>4, EffectStep DEF IInv
<1> QED
    BY <1>1, <1>3, <1>5

LEMMA LateArrivesStep == ASSUME IInv, NEW r \in service.late, LateArrives(r) PROVE IInv'
<1> USE DEF disk, page
<1>1. /\ UNCHANGED <<faults, store, lastId, txs, copy, mem, calls, job, timer, person, past>>
      /\ service \in Service /\ service.rev \in Nat
    BY DEF LateArrives, IInv, TypeOK, Service
<1>2. r \in [edit : Edits, rev : Nat]
    BY <1>1 DEF Service
<1>3. r.edit \in Edits /\ r.rev \in Nat /\ r = [edit |-> r.edit, rev |-> r.rev]
    BY <1>2
<1> DEFINE s == Effect(r.edit, r.rev)
           rest == s.late \ {r}
<1>4. s \in Service /\ s.late = service.late
    BY <1>3, EffectFields DEF IInv
<1>5. service' = [s EXCEPT !.late = rest]
    BY DEF LateArrives
<1>6. /\ service' \in Service /\ service'.rev = s.rev /\ service'.effects = s.effects
      /\ service'.late = rest /\ rest \subseteq service.late
  <2> HIDE DEF s
  <2> QED
    BY <1>4, <1>5 DEF Service
<1>7. Served(r.edit, r.rev)
    BY <1>6 DEF Served
<1> HIDE DEF s, rest
<1>8. Underway(r.edit, r.rev) /\ IsRev(r.edit, r.rev)
    BY <1>3, UnderwayIs DEF Underway, IInv
<1>9. TypeOK'
    BY <1>1, <1>6 DEF IInv, TypeOK, Service
<1>10. \A f \in Edits, v \in Entry : IsVersion(f, v)' => IsVersion(f, v)
    BY <1>1 DEF IsVersion
<1>11. \A f \in Edits, rev \in Nat : IsRev(f, rev)' => IsRev(f, rev)
    BY <1>1, <1>6, <1>10 DEF IsRev
<1>12. /\ service'.rev \in Nat /\ service'.rev >= service.rev
       /\ \A f \in Edits : service'.effects[f] >= service.effects[f]
  <2>1. \A f \in Edits : calls'[f].rev = calls[f].rev
    BY <1>1
  <2>2. past'.saved = past.saved
    BY <1>1
  <2> QED
    BY <1>3, <1>7, <1>8, <1>11, <2>1, <2>2, EffectStep DEF IInv
<1>13. Frames'
  <2>1. \A f \in Edits : service.effects[f] \in Nat /\ service'.effects[f] \in Nat
    BY <1>1, <1>6 DEF Service
  <2>2. WentThrough' => WentThrough /\ service'.effects[job.edit] > 0
    BY <1>1, <1>12, <2>1 DEF IInv, Frames, WentThrough
  <2> QED
    BY <1>1, <2>2 DEF IInv, Frames
<1>14. WentThrough' => WentThrough /\ job'.edit = job.edit /\ job'.entry = job.entry
                       /\ job'.said = job.said
    BY <1>1 DEF WentThrough
<1>15. Rebases'
    BY <1>1, <1>3, <1>7, <1>8, <1>11, <1>14, RebasesStay
<1>16. /\ job'.said.rev <= service'.rev /\ \A f \in Edits : calls'[f].said.rev <= service'.rev
       /\ (WentThrough' /\ job'.edit \notin Creates => job'.said.rev # NoRev)
  <2>1. job.said.rev \in Nat /\ \A f \in Edits : calls[f].said.rev \in Nat
    BY DEF IInv, TypeOK, Outcome
  <2>2. job.said.rev <= service.rev /\ \A f \in Edits : calls[f].said.rev <= service.rev
    BY DEF IInv, Seen
  <2>3. WentThrough' /\ job'.edit \notin Creates => job'.said.rev # NoRev
    BY <1>1, <1>14 DEF IInv, Seen
  <2> QED
    BY <1>1, <1>12, <2>1, <2>2, <2>3
<1> QED
    BY <1>1, <1>3, <1>6, <1>7, <1>8, <1>9, <1>13, <1>15, <1>16, ServedStep

\* What the service answers: the edit took effect when it says so, and its
\* revision is then the newest.
LEMMA AnswersIs ==
    ASSUME TypeOK, Seen, NEW e \in Edits, NEW rev \in Nat, NEW said, Answers(e, rev, said)
    PROVE  /\ said \in Outcome /\ said.kind # "unreachable" /\ said # NoAnswer
           /\ service' \in Service /\ service'.late = service.late
           /\ said.rev <= service'.rev
           /\ \/ Served(e, rev)
              \/ service' = service /\ said.kind = "rejected"
           /\ said.kind = "ok" =>
               /\ Served(e, rev)
               /\ e \in Creates => service'.effects[e] > 0
               /\ e \notin Creates =>
                   /\ rev \in {NoRev, service.rev} /\ said.rev = service.rev + 1
                   /\ service'.effects[e] > 0
<1> DEFINE s == Effect(e, rev)
<1>1. /\ service \in Service /\ service.rev \in Nat /\ \A f \in Edits : service.effects[f] \in Nat
      /\ service.rev > 0
    BY DEF TypeOK, Service, Seen
<1>2. /\ s \in Service /\ s.late = service.late
      /\ \/ s = service
         \/ /\ s.effects[e] = service.effects[e] + 1 /\ s # service
            /\ e \in Creates => service.effects[e] = 0 /\ s.rev = service.rev
            /\ e \notin Creates => rev \in {NoRev, service.rev} /\ s.rev = service.rev + 1
    BY EffectFields
<1>3. s = service /\ e \in Creates => service.effects[e] > 0
  <2>1. e \in Creates /\ service.effects[e] = 0 => s # service
    <3>1. SUFFICES ASSUME e \in Creates, service.effects[e] = 0, s = service PROVE FALSE
      OBVIOUS
    <3> DEFINE n == service.effects[e] + 1
               eff == [service.effects EXCEPT ![e] = n]
               r == service.rev
    <3>2. s = [service EXCEPT !.effects = eff, !.rev = r]
      BY <3>1 DEF Effect, TakesEffect
    <3>3. eff[e] = n /\ n # service.effects[e]
      BY <1>1 DEF Service
    <3> HIDE DEF eff, r, s
    <3>4. s.effects = eff
      BY <1>1, <3>2 DEF Service
    <3> HIDE DEF n
    <3> QED
      BY <3>1, <3>3, <3>4
  <2> QED
    BY <1>1, <2>1
<1>4. \/ /\ service' = s
         /\ said = [kind |-> IF e \in Creates \/ service' # service THEN "ok" ELSE "conflict",
                    rev  |-> IF e \in Creates THEN NoRev ELSE service'.rev]
      \/ service' = service /\ said = [kind |-> "rejected", rev |-> NoRev]
    BY DEF Answers
<1> HIDE DEF s
<1>5. CASE service' = service /\ said = [kind |-> "rejected", rev |-> NoRev]
    BY <1>1, <1>5 DEF Outcome, NoRev, NoAnswer
<1>6. CASE service' = s /\ e \in Creates /\ said = [kind |-> "ok", rev |-> NoRev]
  <2>1. Served(e, rev)
    BY <1>6 DEF Served, s
  <2>2. service'.effects[e] > 0 /\ service'.rev \in Nat
    BY <1>1, <1>2, <1>3, <1>6 DEF Service
  <2> QED
    BY <1>2, <1>6, <2>1, <2>2 DEF Outcome, NoRev, NoAnswer
<1>7. CASE service' = s /\ e \notin Creates /\ s # service /\ said = [kind |-> "ok", rev |-> s.rev]
  <2>1. Served(e, rev)
    BY <1>7 DEF Served, s
  <2>2. service'.effects[e] > 0 /\ service'.rev \in Nat /\ service'.rev = service.rev + 1
    BY <1>1, <1>2, <1>7 DEF Service
  <2> QED
    BY <1>1, <1>2, <1>7, <2>1, <2>2 DEF Outcome, NoRev, NoAnswer
<1>8. CASE /\ service' = s /\ e \notin Creates /\ s = service
           /\ said = [kind |-> "conflict", rev |-> s.rev]
  <2>1. Served(e, rev)
    BY <1>8 DEF Served, s
  <2> QED
    BY <1>1, <1>2, <1>8, <2>1 DEF Outcome, NoRev, NoAnswer
<1> QED
    BY <1>4, <1>5, <1>6, <1>7, <1>8

LEMMA AnswerCallStep == ASSUME IInv, NEW e \in Edits, AnswerCall(e) PROVE IInv'
<1> USE DEF disk
<1>1. PICK kind \in {"ok", "conflict", "rejected"}, rev \in NoRev..(service.rev + 1) :
        /\ At(e, "sent") /\ Answers(e, calls[e].rev, [kind |-> kind, rev |-> rev])
        /\ calls' = [calls EXCEPT ![e].at = "answered", ![e].said = [kind |-> kind, rev |-> rev]]
    BY DEF AnswerCall
<1> DEFINE said == [kind |-> kind, rev |-> rev]
           c == [calls[e] EXCEPT !.at = "answered", !.said = said]
<1>2. /\ UNCHANGED <<faults, store, lastId, txs, copy, mem, job, timer, person, past>>
      /\ calls[e].at = "sent" /\ calls \in [Edits -> Call] /\ calls[e].rev \in Nat
      /\ calls[e] \in Call
    BY <1>1, CallsAre DEF AnswerCall, At, IInv, Call
<1>3. /\ said \in Outcome /\ service' \in Service /\ service'.late = service.late
      /\ said.rev <= service'.rev
      /\ Served(e, calls[e].rev) \/ service' = service
    BY <1>1, <1>2, AnswersIs DEF IInv
<1> HIDE DEF said
<1>4. /\ c \in Call /\ c.at = "answered" /\ c.rev = calls[e].rev /\ c.said = said
      /\ c.saved = calls[e].saved
    BY <1>2, <1>3 DEF Call
<1>5. calls' = [calls EXCEPT ![e] = c]
    BY <1>1 DEF said
<1> HIDE DEF c
<1>6. /\ calls' \in [Edits -> Call] /\ calls'[e] = c
      /\ \A f \in Edits : f # e => calls'[f] = calls[f]
    BY <1>2, <1>4, <1>5, CallAt
<1>7. TypeOK'
    BY <1>2, <1>3, <1>6 DEF IInv, TypeOK, Call, Service
<1>8. Underway(e, calls[e].rev)
    BY <1>2 DEF Underway
<1>9. CASE service' = service
  <2>1. \A f \in Edits, r \in Nat : [edit |-> f, rev |-> r] \in service'.late => Underway(f, r)
    BY <1>9 DEF Underway
  <2>2. copy' <= service.rev /\ calls'[e].said.rev <= service.rev
    BY <1>2, <1>3, <1>4, <1>6, <1>9 DEF IInv, Seen
  <2> QED
    BY <1>2, <1>4, <1>6, <1>7, <1>9, <2>1, <2>2, CallStep DEF Early
<1>10. CASE Served(e, calls[e].rev)
  <2>1. \A f \in Edits, v \in Entry : IsVersion(f, v)' => IsVersion(f, v)
    BY <1>2, <1>4, <1>6 DEF IsVersion
  <2>2. \A f \in Edits : /\ calls'[f].rev = calls[f].rev /\ calls'[f].saved = calls[f].saved
                         /\ \/ calls'[f].at = calls[f].at
                            \/ calls[f].at = "sent" /\ calls'[f].at = "answered"
    BY <1>2, <1>4, <1>6
  <2>3. \A f \in Edits, r \in Nat : IsRev(f, r)' => IsRev(f, r)
    BY <1>3, <2>1, <2>2 DEF IsRev
  <2>4. IsRev(e, calls[e].rev)
    BY DEF IsRev
  <2>5. /\ service'.rev \in Nat /\ service'.rev >= service.rev
        /\ \A f \in Edits : service'.effects[f] >= service.effects[f]
    <3>1. past'.saved = past.saved
      BY <1>2
    <3> QED
      BY <1>2, <1>10, <2>2, <2>3, <2>4, <3>1, EffectStep DEF IInv
  <2>6. Frames'
    <3>1. \A f \in Edits : service.effects[f] \in Nat /\ service'.effects[f] \in Nat
      BY <1>3 DEF Service, IInv, TypeOK
    <3>2. WentThrough' => WentThrough /\ service'.effects[job.edit] > 0
      BY <1>2, <2>5, <3>1 DEF IInv, Frames, WentThrough
    <3>3. \A f \in Edits : (calls'[f].at = "patched") <=> (calls'[f].saved # NoEntry)
      BY <1>2, <1>4, <1>6 DEF IInv, Frames
    <3> QED
      BY <1>2, <3>2, <3>3 DEF IInv, Frames
  <2>7. WentThrough' => WentThrough /\ job'.edit = job.edit /\ job'.entry = job.entry
                        /\ job'.said = job.said
    BY <1>2 DEF WentThrough
  <2>8. Rebases'
    BY <1>2, <1>8, <1>10, <2>2, <2>3, <2>7, RebasesStay
  <2>9. /\ job'.said.rev <= service'.rev /\ \A f \in Edits : calls'[f].said.rev <= service'.rev
        /\ (WentThrough' /\ job'.edit \notin Creates => job'.said.rev # NoRev)
    <3>1. /\ job.said.rev \in Nat /\ service.rev \in Nat
          /\ \A f \in Edits : calls[f].said.rev \in Nat
      BY DEF IInv, TypeOK, Outcome
    <3>2. job.said.rev <= service.rev /\ \A f \in Edits : calls[f].said.rev <= service.rev
      BY DEF IInv, Seen
    <3>3. WentThrough' /\ job'.edit \notin Creates => job'.said.rev # NoRev
      BY <1>2, <2>7 DEF IInv, Seen
    <3>4. \A f \in Edits : f # e => calls'[f].said.rev <= service'.rev
      BY <1>6, <2>5, <3>1, <3>2
    <3> QED
      BY <1>2, <1>3, <1>4, <1>6, <2>5, <3>1, <3>2, <3>3, <3>4
  <2> QED
    BY <1>2, <1>3, <1>7, <1>8, <1>10, <2>2, <2>6, <2>8, <2>9, ServedStep
<1> QED
    BY <1>3, <1>9, <1>10

LEMMA AnswerHeadStep == IInv /\ AnswerHead => IInv'
<1> SUFFICES ASSUME IInv, AnswerHead PROVE IInv'
    OBVIOUS
<1> USE DEF disk
<1>1. PICK kind \in {"ok", "conflict", "rejected"}, rev \in NoRev..(service.rev + 1) :
        /\ job.at = "sent" /\ Answers(job.edit, job.entry.rev, [kind |-> kind, rev |-> rev])
        /\ job' = [job EXCEPT !.at = "answered", !.said = [kind |-> kind, rev |-> rev]]
    BY DEF AnswerHead
<1> DEFINE said == [kind |-> kind, rev |-> rev]
           e == job.edit
<1>2. /\ UNCHANGED <<faults, store, lastId, txs, copy, mem, calls, timer, person, past>>
      /\ job \in Job /\ e \in Edits /\ job.entry \in Entry /\ job.entry # NoEntry
      /\ job.entry.rev \in Nat /\ job.behind = {}
    BY <1>1, EntryFields DEF AnswerHead, IInv, TypeOK, Job, Frames
<1>0. PICK r \in Nat : r = job.entry.rev
    BY <1>2
<1>3. /\ said \in Outcome /\ service' \in Service /\ service'.late = service.late
      /\ said.rev <= service'.rev
      /\ \/ Served(e, r)
         \/ service' = service /\ said.kind = "rejected"
      /\ said.kind = "ok" =>
          /\ Served(e, r) /\ service'.effects[e] > 0
          /\ e \notin Creates => r \in {NoRev, service.rev} /\ said.rev = service.rev + 1
    BY <1>1, <1>2, <1>0, AnswersIs DEF IInv
<1>4. job' = [job EXCEPT !.at = "answered", !.said = said]
    BY <1>1
<1> HIDE DEF said
<1>5. /\ job' \in Job /\ job'.at = "answered" /\ job'.said = said /\ job'.edit = e
      /\ job'.entry = job.entry /\ job'.behind = job.behind
    BY <1>2, <1>3, <1>4 DEF Job
<1>6. TypeOK'
    BY <1>2, <1>3, <1>5 DEF IInv, TypeOK, Job, Service
<1>7. Frames'
    BY <1>1, <1>2, <1>3, <1>5 DEF IInv, Frames, WentThrough
<1>8. Underway(e, r)
    BY <1>1, <1>2, <1>0 DEF Underway
<1>9. CASE service' = service /\ said.kind = "rejected"
  <2>1. \A f \in Edits, q \in Nat : [edit |-> f, rev |-> q] \in service'.late => Underway(f, q)
    BY <1>9 DEF Underway
  <2>2. copy' <= service.rev /\ job'.said.rev <= service.rev
    BY <1>2, <1>3, <1>5, <1>9 DEF IInv, Seen
  <2>3. ~WentThrough'
    BY <1>5, <1>9 DEF WentThrough
  <2> QED
    BY <1>2, <1>5, <1>6, <1>7, <1>9, <2>1, <2>2, <2>3, JobStep
<1>10. CASE Served(e, r)
  <2>1. \A f \in Edits, v \in Entry : IsVersion(f, v)' => IsVersion(f, v)
    BY <1>2, <1>5 DEF IsVersion
  <2>2. \A f \in Edits : /\ calls'[f].rev = calls[f].rev /\ calls'[f].saved = calls[f].saved
                         /\ calls'[f].at = calls[f].at
    BY <1>2
  <2>3. \A f \in Edits, q \in Nat : IsRev(f, q)' => IsRev(f, q)
    BY <1>3, <2>1, <2>2 DEF IsRev
  <2>4. IsRev(e, r)
    BY <1>2, <1>8, UnderwayIs DEF IInv
  <2>5. service'.rev \in Nat /\ service'.rev >= service.rev
    <3>1. past'.saved = past.saved
      BY <1>2
    <3> QED
      BY <1>2, <1>10, <2>2, <2>3, <2>4, <3>1, EffectStep DEF IInv
  <2>6. Rebases'
    <3> SUFFICES ASSUME said.kind = "ok", e \notin Creates, NEW f \in Edits \ {e},
                        Versioned(f)', IsRev(f, r)'
                 PROVE  Spent(f, said.rev)'
      BY <1>5, <1>0 DEF Rebases, WentThrough
    <3>1. Versioned(f) /\ IsRev(f, r)
      BY <1>2, <2>3 DEF Versioned
    <3>2. r # NoRev /\ Spent(f, r)
      BY <1>2, <3>1 DEF IInv, Once
    <3>3. r = service.rev /\ service.effects[f] \in Nat /\ service.rev \in Nat
      BY <1>3, <3>2 DEF IInv, TypeOK
    <3>4. service.effects[f] = 0
      BY <3>2, <3>3 DEF Spent
    <3>5. service'.effects[f] = service.effects[f]
      BY <1>2, <1>10, EffectFields DEF Served, IInv
    <3> QED
      BY <3>4, <3>5 DEF Spent
  <2>7. /\ job'.said.rev <= service'.rev /\ \A f \in Edits : calls'[f].said.rev <= service'.rev
        /\ (WentThrough' /\ job'.edit \notin Creates => job'.said.rev # NoRev)
    <3>1. service.rev \in Nat /\ \A f \in Edits : calls[f].said.rev \in Nat
      BY DEF IInv, TypeOK, Outcome
    <3>2. \A f \in Edits : calls[f].said.rev <= service.rev
      BY DEF IInv, Seen
    <3>3. WentThrough' /\ job'.edit \notin Creates => job'.said.rev # NoRev
      BY <1>3, <1>5, <3>1 DEF WentThrough, NoRev
    <3> QED
      BY <1>2, <1>3, <1>5, <2>5, <3>1, <3>2, <3>3
  <2>8. \A f \in Edits : calls'[f].said.rev <= service'.rev
    BY <2>7
  <2> QED
    BY <1>2, <1>3, <1>5, <1>6, <1>7, <1>8, <1>10, <2>2, <2>6, <2>7, <2>8, ServedStep
<1> QED
    BY <1>3, <1>9, <1>10

(***************************************************************************)
(* Steps that write of an edit what was not written of it before.          *)
(***************************************************************************)

LEMMA WriteStep ==
    ASSUME IInv, TypeOK', Frames', UNCHANGED <<service, lastId, copy>>,
           past'.before = past.before, past'.dropped = past.dropped,
           past.failed \subseteq past'.failed, past.saved \subseteq past'.saved,
           past.accepted \subseteq past'.accepted,
           \A e \in past'.accepted \ past.accepted :
               mem'[e] # NoEntry /\ store'[e] # NoEntry /\ calls'[e].at = "listed",
           \A e \in Edits :
               /\ calls'[e].rev = calls[e].rev /\ calls'[e].said = calls[e].said
               /\ calls'[e].at = calls[e].at \/ calls'[e].at = "listed"
               /\ calls'[e].at = "added" =>
                   store'[e] # NoEntry /\ mem'[e] = NoEntry /\ job'.edit # e,
           \A e \in Edits, v \in Entry : IsVersion(e, v)' =>
               /\ v.state = "failed" => e \in past'.failed
               /\ \E w \in Entry : /\ IsVersion(e, w) /\ w.id = v.id
                                   /\ w.rev = v.rev \/ FreshRev(e, v.rev),
           job'.at = "sent" => job.at = "sent" /\ job'.edit = job.edit,
           job'.said = job.said,
           WentThrough' => WentThrough /\ job'.edit = job.edit /\ job'.entry = job.entry,
           \A e \in Edits : mem[e] # NoEntry => mem'[e] # NoEntry \/ service.effects[e] > 0,
           \A e \in Edits : store[e] # NoEntry => store'[e] # NoEntry
    PROVE  IInv'
<1> USE DEF IInv
<1>0. /\ past \in Past /\ past' \in Past /\ past'.accepted \subseteq Edits
      /\ \A e \in Edits : past.before[e] \subseteq Edits
    BY DEF Frames, Past
<1>1. \A e \in Edits : DoneWith(e) => DoneWith(e)'
    BY DEF DoneWith
<1>2. Born'
  <2>1. ASSUME NEW e \in Edits, calls'[e].at \in Early
        PROVE  e \notin past'.accepted /\ \A v \in Entry : ~IsVersion(e, v)'
    BY <2>1 DEF Born, Early
  <2>2. ASSUME NEW e \in Edits, calls'[e].at = "added"
        PROVE  /\ store'[e] # NoEntry /\ mem'[e] = NoEntry
               /\ job'.edit # e /\ e \notin past'.accepted
    BY <2>2 DEF Born
  <2>3. ASSUME NEW e \in Edits, calls'[e].at = "unmade"
        PROVE  /\ service'.effects[e] = 0 /\ calls'[e].rev = NoRev /\ past'.before[e] = {}
               /\ \A rev \in Nat : [edit |-> e, rev |-> rev] \notin service'.late
    BY <2>3 DEF Born
  <2>4. \A e \in Edits : past'.before[e] \subseteq past'.accepted
    BY DEF Born
  <2> QED
    BY <1>0, <2>1, <2>2, <2>3, <2>4 DEF Born, Early
<1>3. Failures'
    BY DEF Failures
<1>4. NothingLost'
    BY <1>0 DEF NothingLost
<1>5. Waits'
  <2> SUFFICES ASSUME NEW e \in past'.accepted, ~DoneWith(e)' PROVE e \in Waiting(mem')
    BY DEF Waits
  <2>1. e \in Edits
    BY <1>0
  <2>2. mem'[e] # NoEntry
    BY <1>1, <2>1 DEF Waits, Waiting, DoneWith
  <2>3. PICK v \in Entry : v = mem'[e]
    BY <2>1, <2>2 DEF TypeOK, Queue
  <2>4. IsVersion(e, v)' /\ v # NoEntry
    BY <2>3, EntryFields DEF IsVersion
  <2>5. v.state # "failed"
    BY <2>1, <2>4 DEF DoneWith
  <2> QED
    BY <2>1, <2>3, <2>4, <2>5 DEF Waiting
<1>6. Ordered'
  <2>1. \A e \in Edits, v \in Entry : IsVersion(e, v)' =>
          \E w \in Entry : IsVersion(e, w) /\ w.id = v.id
    OBVIOUS
  <2> QED
    BY <1>0, <2>1, OrderedStep
<1>7. Turn'
  <2>1. \A e \in Edits : Asked(e)' => Asked(e)
    BY DEF Asked
  <2>2. \A e \in Edits : service.effects[e] > 0 => service'.effects[e] > 0
    OBVIOUS
  <2> QED
    BY <1>0, <2>1, <2>2, TurnStep
<1>8. Seen' /\ Once' /\ Rebases'
  <2>1. ASSUME NEW e \in Edits, NEW rev \in Nat, IsRev(e, rev)'
        PROVE  IsRev(e, rev) \/ FreshRev(e, rev)
    <3>1. CASE rev = calls'[e].rev
      BY <3>1 DEF IsRev
    <3>2. CASE \E v \in Entry : IsVersion(e, v)' /\ v.rev = rev
      BY <3>2 DEF IsRev
    <3>3. CASE [edit |-> e, rev |-> rev] \in service'.late
      BY <3>3 DEF IsRev
    <3> QED
      BY <2>1, <3>1, <3>2, <3>3 DEF IsRev
  <2>2. /\ service.rev \in Nat /\ copy' <= service.rev /\ job'.said.rev <= service.rev
        /\ \A e \in Edits : calls'[e].said.rev <= service.rev
    BY DEF Seen, TypeOK
  <2> QED
    BY <2>1, <2>2, RevStep
<1> QED
    BY <1>2, <1>3, <1>4, <1>5, <1>6, <1>7, <1>8

LEMMA AddedStep == ASSUME IInv, NEW e \in Edits, Added(e) PROVE IInv'
<1>1. /\ UNCHANGED <<service, faults, copy, job, person>>
      /\ calls[e].at = "added" /\ Settled(e) /\ calls \in [Edits -> Call]
    BY CallsAre DEF Added, At, IInv
<1>2. txs' \in Seq(Edits \cup {Replayer, Person}) /\ UNCHANGED <<store, lastId>>
    BY <1>1, SettledIs DEF IInv
<1>3. /\ calls' \in [Edits -> Call] /\ calls'[e].at = "listed"
      /\ calls'[e].rev = calls[e].rev /\ calls'[e].said = calls[e].said
      /\ calls'[e].saved = calls[e].saved
      /\ \A f \in Edits : f # e => calls'[f] = calls[f]
    BY <1>1, GoesTo DEF Added
<1>4. /\ mem' \in Queue /\ mem'[e] = store[e] /\ timer' \in BOOLEAN
      /\ \A f \in Edits : f # e => mem'[f] = mem[f]
    BY DEF Added, Changed, IInv, TypeOK, Queue
<1>5. store[e] # NoEntry /\ mem[e] = NoEntry /\ job.edit # e
    BY <1>1 DEF IInv, Born
<1> DEFINE a == past.accepted \cup {e}
<1>6. past \in Past /\ past' = [past EXCEPT !.accepted = a]
    BY DEF IInv, Frames, Added
<1>7. /\ past' \in Past /\ past'.accepted = a
      /\ past'.before = past.before /\ past'.dropped = past.dropped
      /\ past'.failed = past.failed /\ past'.saved = past.saved
      /\ \A f \in a : f \in past.accepted \/ f = e
    BY <1>6 DEF Past
<1>8. past.accepted \subseteq a
    OBVIOUS
<1> HIDE DEF a
<1>9. TypeOK'
    BY <1>1, <1>2, <1>3, <1>4 DEF IInv, TypeOK, Call
<1>10. Frames' /\ (WentThrough' => WentThrough)
    BY <1>1, <1>3, <1>7 DEF IInv, Frames, WentThrough
<1>11. ASSUME NEW f \in Edits, NEW v \in Entry, IsVersion(f, v)' PROVE IsVersion(f, v)
    BY <1>1, <1>2, <1>3, <1>4, <1>11 DEF IsVersion
<1>12. \A f \in Edits, v \in Entry : IsVersion(f, v)' =>
         /\ v.state = "failed" => f \in past'.failed
         /\ \E w \in Entry : /\ IsVersion(f, w) /\ w.id = v.id
                             /\ w.rev = v.rev \/ FreshRev(f, v.rev)
    BY <1>7, <1>11 DEF IInv, Failures
<1>13. \A f \in Edits : calls'[f].at = "added" =>
         store'[f] # NoEntry /\ mem'[f] = NoEntry /\ job'.edit # f
    BY <1>1, <1>2, <1>3, <1>4 DEF IInv, Born
<1> QED
    BY <1>1, <1>2, <1>3, <1>4, <1>5, <1>7, <1>8, <1>9, <1>10, <1>12, <1>13, WriteStep

LEMMA RemovedStep == IInv /\ Removed => IInv'
<1> SUFFICES ASSUME IInv, Removed PROVE IInv'
    OBVIOUS
<1>1. /\ UNCHANGED <<service, faults, copy, calls, timer, person, past>>
      /\ job.at = "removed" /\ Settled(Replayer) /\ job \in Job /\ job.edit \in Edits
      /\ job.entry \in Entry /\ job.entry # NoEntry /\ WentThrough
      /\ service.effects[job.edit] > 0 /\ mem \in Queue
      /\ job.said.rev \in Nat /\ job.said.rev <= service.rev /\ past \in Past
    BY DEF Removed, IInv, Frames, WentThrough, TypeOK, Job, Outcome, Seen
<1>2. txs' \in Seq(Edits \cup {Replayer, Person}) /\ UNCHANGED <<store, lastId>>
    BY <1>1, SettledIs DEF IInv
<1>3. /\ mem' \in Queue /\ mem'[job.edit] = NoEntry
      /\ \A f \in Edits : f # job.edit => mem'[f] = mem[f]
    BY <1>1 DEF Removed, Queue
<1> DEFINE old == job.entry.rev
           new == job.said.rev
           behind == IF job.edit \in Creates THEN {} ELSE Rebased(mem', old, new)
<1>4. \A b \in behind : \E f \in Edits \ Creates :
        /\ b = [edit |-> f, entry |-> [mem[f] EXCEPT !.rev = new]]
        /\ old \notin {NoRev, new} /\ mem[f] # NoEntry /\ mem[f] \in Entry /\ mem[f].rev = old
        /\ f # job.edit /\ job.edit \notin Creates
    BY <1>3 DEF Rebased, Queue
<1>5. ASSUME NEW f \in Edits, NEW v \in Entry, [edit |-> f, entry |-> v] \in behind
      PROVE  /\ mem[f] \in Entry /\ IsVersion(f, mem[f]) /\ v.id = mem[f].id
             /\ v.state = mem[f].state /\ v.rev = new /\ mem[f].rev = old
             /\ f \in Edits \ {job.edit} /\ job.edit \notin Creates
  <2>1. PICK g \in Edits \ Creates :
          /\ [edit |-> f, entry |-> v] = [edit |-> g, entry |-> [mem[g] EXCEPT !.rev = new]]
          /\ mem[g] # NoEntry /\ mem[g] \in Entry /\ mem[g].rev = old
          /\ g # job.edit /\ job.edit \notin Creates
    BY <1>4, <1>5
  <2>2. f = g /\ v = [mem[g] EXCEPT !.rev = new]
    BY <2>1
  <2>3. v.id = mem[g].id /\ v.state = mem[g].state /\ v.rev = new
    BY <2>1, <2>2 DEF Entry
  <2> QED
    BY <2>1, <2>2, <2>3 DEF IsVersion
<1>6. behind \in SUBSET [edit : Edits, entry : Entry]
  <2> SUFFICES ASSUME NEW b \in behind PROVE b \in [edit : Edits, entry : Entry]
    OBVIOUS
  <2>1. PICK f \in Edits \ Creates :
          b = [edit |-> f, entry |-> [mem[f] EXCEPT !.rev = new]] /\ mem[f] \in Entry
    BY <1>4
  <2>2. [mem[f] EXCEPT !.rev = new] \in Entry
    BY <1>1, <2>1 DEF Entry
  <2> QED
    BY <2>1, <2>2
<1>7. job' = [job EXCEPT !.at = "rebase", !.behind = behind]
    BY DEF Removed
<1> HIDE DEF behind
<1>8. /\ job' \in Job /\ job'.at = "rebase" /\ job'.behind = behind /\ job'.edit = job.edit
      /\ job'.entry = job.entry /\ job'.said = job.said
    BY <1>1, <1>6, <1>7 DEF Job
<1>9. TypeOK'
    BY <1>1, <1>2, <1>3, <1>8 DEF IInv, TypeOK, Job
<1>10. Frames'
    BY <1>1, <1>8 DEF IInv, Frames, WentThrough
<1>11. ASSUME NEW f \in Edits, NEW v \in Entry, IsVersion(f, v)'
       PROVE  /\ v.state = "failed" => f \in past'.failed
              /\ \E w \in Entry : /\ IsVersion(f, w) /\ w.id = v.id
                                  /\ w.rev = v.rev \/ FreshRev(f, v.rev)
  <2>1. CASE [edit |-> f, entry |-> v] \in behind
    <3>1. /\ mem[f] \in Entry /\ IsVersion(f, mem[f]) /\ v.id = mem[f].id
          /\ v.state = mem[f].state /\ v.rev = new /\ mem[f].rev = old
          /\ f \in Edits \ {job.edit} /\ job.edit \notin Creates
      BY <1>5, <2>1
    <3>2. IsRev(f, old)
      BY <3>1 DEF IsRev
    <3>3. new # NoRev /\ (Versioned(f) => Spent(f, new))
      BY <1>1, <3>1, <3>2 DEF IInv, Seen, Rebases
    <3>4. FreshRev(f, v.rev)
      BY <1>1, <1>8, <3>1, <3>3 DEF FreshRev, Versioned
    <3> QED
      BY <1>1, <3>1, <3>4 DEF IInv, Failures
  <2>2. CASE [edit |-> f, entry |-> v] \notin behind
    <3>1. IsVersion(f, v)
      BY <1>1, <1>2, <1>3, <1>8, <1>11, <2>2 DEF IsVersion
    <3> QED
      BY <1>1, <3>1 DEF IInv, Failures
  <2> QED
    BY <2>1, <2>2
<1>12. \A f \in Edits : calls'[f].at = "added" =>
         store'[f] # NoEntry /\ mem'[f] = NoEntry /\ job'.edit # f
    BY <1>1, <1>2, <1>3, <1>8 DEF IInv, Born
<1> QED
    BY <1>1, <1>2, <1>3, <1>8, <1>9, <1>10, <1>11, <1>12, WriteStep

LEMMA ParkStep == IInv /\ Park => IInv'
<1> SUFFICES ASSUME IInv, Park PROVE IInv'
    OBVIOUS
<1> DEFINE skipped == job.at = "skip"
           state == IF skipped THEN "failed" ELSE "held"
           parked == [job.entry EXCEPT !.state = state]
           failed == IF skipped THEN past.failed \cup {job.edit} ELSE past.failed
<1>1. /\ UNCHANGED <<service, faults, lastId, copy, mem, calls, timer, person>>
      /\ job.at \in {"skip", "hold"} /\ job \in Job /\ job.edit \in Edits /\ job.behind = {}
      /\ job.entry \in Entry /\ job.entry # NoEntry /\ past \in Past
    BY DEF Park, IInv, Frames, TypeOK, Job
<1>2. /\ parked \in Entry /\ parked.id = job.entry.id /\ parked.rev = job.entry.rev
      /\ parked.state = state
    BY <1>1 DEF Entry
<1>3. /\ Puts(Replayer, job.edit, parked)
      /\ job' = [job EXCEPT !.at = "parked", !.entry = parked]
      /\ past' = IF skipped THEN [past EXCEPT !.failed = past.failed \cup {job.edit}] ELSE past
    BY DEF Park
<1>4. /\ past' \in Past /\ past'.failed = failed /\ past'.accepted = past.accepted
      /\ past'.before = past.before /\ past'.dropped = past.dropped /\ past'.saved = past.saved
    BY <1>1, <1>3 DEF Past
<1>5. past.failed \subseteq failed /\ (state = "failed" => job.edit \in failed)
    OBVIOUS
<1> HIDE DEF parked, failed, state
<1>6. /\ store' \in Queue /\ store'[job.edit] = parked
      /\ \A f \in Edits : f # job.edit => store'[f] = store[f]
      /\ txs' \in Seq(Edits \cup {Replayer, Person})
    BY <1>1, <1>2, <1>3, PutsIs DEF IInv
<1>7. /\ job' \in Job /\ job'.at = "parked" /\ job'.entry = parked /\ job'.edit = job.edit
      /\ job'.said = job.said /\ job'.behind = job.behind
    BY <1>1, <1>2, <1>3 DEF Job
<1>8. parked # NoEntry
    BY <1>2, EntryFields
<1>9. TypeOK'
    BY <1>1, <1>6, <1>7 DEF IInv, TypeOK, Job
<1>10. Frames' /\ ~WentThrough'
    BY <1>1, <1>4, <1>7, <1>8 DEF IInv, Frames, WentThrough
<1>11. ASSUME NEW f \in Edits, NEW v \in Entry, IsVersion(f, v)'
       PROVE  /\ v.state = "failed" => f \in past'.failed
              /\ \E w \in Entry : /\ IsVersion(f, w) /\ w.id = v.id
                                  /\ w.rev = v.rev \/ FreshRev(f, v.rev)
  <2>1. CASE f = job.edit /\ v = parked
    BY <1>1, <1>2, <1>4, <1>5, <2>1 DEF IsVersion
  <2>2. CASE ~(f = job.edit /\ v = parked)
    <3>1. IsVersion(f, v)
      BY <1>1, <1>6, <1>7, <1>11, <2>2 DEF IsVersion
    <3> QED
      BY <1>4, <1>5, <3>1 DEF IInv, Failures
  <2> QED
    BY <2>1, <2>2
<1>12. \A f \in Edits : calls'[f].at = "added" =>
         store'[f] # NoEntry /\ mem'[f] = NoEntry /\ job'.edit # f
    BY <1>1, <1>6, <1>7, <1>8 DEF IInv, Born
<1> QED
    BY <1>1, <1>4, <1>5, <1>6, <1>7, <1>8, <1>9, <1>10, <1>11, <1>12, WriteStep

LEMMA SaveStep == ASSUME IInv, NEW e \in Edits, Save(e) PROVE IInv'
<1> DEFINE n == faults.events + 1
           a == past.saved \cup {e}
<1>1. /\ UNCHANGED <<service, lastId, copy, mem, calls, job, timer>>
      /\ mem[e] # NoEntry /\ mem[e] \in Entry /\ past \in Past /\ n \in Nat
      /\ faults \in [lost : Nat, events : Nat] /\ copy \in Nat /\ service.rev \in Nat
      /\ copy <= service.rev
    BY DEF Save, IInv, TypeOK, Queue, Frames, Seen
<1>2. PICK rev \in IF copy # NoRev THEN {copy} ELSE NoRev..service.rev :
        /\ Puts(Person, e, [mem[e] EXCEPT !.state = "queued", !.rev = rev])
        /\ person' = [edit |-> e, entry |-> [mem[e] EXCEPT !.state = "queued", !.rev = rev]]
    BY DEF Save
<1>3. rev \in Nat /\ rev <= service.rev
    BY <1>1, <1>2 DEF NoRev
<1> DEFINE saved == [mem[e] EXCEPT !.state = "queued", !.rev = rev]
<1>4. saved \in Entry /\ saved.id = mem[e].id /\ saved.rev = rev /\ saved.state = "queued"
    BY <1>1, <1>3 DEF Entry
<1>5. faults' = [faults EXCEPT !.events = n] /\ past' = [past EXCEPT !.saved = a]
    BY DEF Save, Event
<1>6. /\ past' \in Past /\ past'.saved = a /\ past'.accepted = past.accepted
      /\ past'.before = past.before /\ past'.dropped = past.dropped /\ past'.failed = past.failed
    BY <1>1, <1>5 DEF Past
<1> HIDE DEF saved, n
<1>7. past.saved \subseteq a /\ e \in a
    OBVIOUS
<1> HIDE DEF a
<1>8. faults' \in [lost : Nat, events : Nat]
    BY <1>1, <1>5
<1>9. /\ store' \in Queue /\ store'[e] = saved
      /\ \A f \in Edits : f # e => store'[f] = store[f]
      /\ txs' \in Seq(Edits \cup {Replayer, Person})
    BY <1>2, <1>4, PutsIs DEF IInv, saved
<1>10. /\ person' = [edit |-> e, entry |-> saved] /\ person' \in People /\ saved # NoEntry
       /\ person'.edit = e /\ person'.entry = saved
    BY <1>2, <1>4, EditsAre, EntryFields DEF People, saved
<1>11. TypeOK'
    BY <1>1, <1>8, <1>9, <1>10 DEF IInv, TypeOK, People
<1>12. Frames' /\ (WentThrough' => WentThrough)
    BY <1>1, <1>6, <1>10 DEF IInv, Frames, WentThrough
<1>13. ASSUME NEW f \in Edits, NEW v \in Entry, IsVersion(f, v)'
       PROVE  /\ v.state = "failed" => f \in past'.failed
              /\ \E w \in Entry : /\ IsVersion(f, w) /\ w.id = v.id
                                  /\ w.rev = v.rev \/ FreshRev(f, v.rev)
  <2>1. CASE f = e /\ v = saved
    <3>1. FreshRev(e, rev)
      BY <1>3, <1>6, <1>7 DEF FreshRev, Versioned
    <3> QED
      BY <1>1, <1>4, <2>1, <3>1 DEF IsVersion
  <2>2. CASE ~(f = e /\ v = saved)
    <3>1. IsVersion(f, v)
      BY <1>1, <1>9, <1>10, <1>13, <2>2 DEF IsVersion
    <3> QED
      BY <1>6, <3>1 DEF IInv, Failures
  <2> QED
    BY <2>1, <2>2
<1>14. \A f \in Edits : calls'[f].at = "added" =>
         store'[f] # NoEntry /\ mem'[f] = NoEntry /\ job'.edit # f
    BY <1>1, <1>9, <1>10 DEF IInv, Born
<1> QED
    BY <1>1, <1>6, <1>7, <1>9, <1>10, <1>11, <1>12, <1>13, <1>14, WriteStep

LEMMA MakeStep == ASSUME IInv, NEW e \in Edits, Make(e) PROVE IInv'
<1> USE DEF disk
<1> DEFINE rev == IF e \in Creates THEN NoRev ELSE copy
           c == [calls[e] EXCEPT !.at = "made", !.rev = rev]
           before == [past.before EXCEPT ![e] = past.accepted]
<1>1. /\ UNCHANGED <<service, faults, store, lastId, txs, copy, mem, job, timer, person>>
      /\ calls[e].at = "unmade" /\ calls \in [Edits -> Call] /\ calls[e] \in Call
      /\ past \in Past /\ copy \in Nat /\ copy <= service.rev /\ service.rev > 0
      /\ service.rev \in Nat
    BY CallsAre DEF Make, At, IInv, Frames, TypeOK, Seen
<1>2. rev \in Nat /\ rev <= service.rev
    BY <1>1 DEF NoRev
<1>3. calls' = [calls EXCEPT ![e] = c] /\ past' = [past EXCEPT !.before = before]
    BY <1>1 DEF Make
<1> HIDE DEF rev
<1>4. /\ c \in Call /\ c.at = "made" /\ c.rev = rev /\ c.said = calls[e].said
      /\ c.saved = calls[e].saved
    BY <1>1, <1>2 DEF Call
<1>5. /\ before \in [Edits -> SUBSET Edits] /\ before[e] = past.accepted
      /\ \A f \in Edits : f # e => before[f] = past.before[f]
    BY <1>1 DEF Past
<1> HIDE DEF c, before
<1>6. /\ calls' \in [Edits -> Call] /\ calls'[e] = c
      /\ \A f \in Edits : f # e => calls'[f] = calls[f]
    BY <1>1, <1>3, <1>4, CallAt
<1>7. /\ past' \in Past /\ past'.before = before /\ past'.accepted = past.accepted
      /\ past'.dropped = past.dropped /\ past'.failed = past.failed /\ past'.saved = past.saved
    BY <1>1, <1>3, <1>5 DEF Past
<1>8. /\ e \notin past.accepted /\ \A v \in Entry : ~IsVersion(e, v)
      /\ service.effects[e] = 0 /\ \A r \in Nat : [edit |-> e, rev |-> r] \notin service.late
    BY <1>1 DEF IInv, Born
<1>9. \A f \in Edits, v \in Entry : IsVersion(f, v)' => IsVersion(f, v)
    BY <1>1, <1>4, <1>6 DEF IsVersion
<1>10. TypeOK'
    BY <1>1, <1>6 DEF IInv, TypeOK, Call
<1>11. Frames' /\ (WentThrough' => WentThrough)
    BY <1>1, <1>4, <1>6, <1>7 DEF IInv, Frames, WentThrough
<1>12. Born'
  <2>1. ASSUME NEW f \in Edits, f # e
        PROVE  /\ calls'[f] = calls[f] /\ past'.before[f] = past.before[f]
               /\ \A v \in Entry : IsVersion(f, v)' => IsVersion(f, v)
    BY <1>5, <1>6, <1>7, <1>9, <2>1
  <2>2. past'.before[e] \subseteq past'.accepted /\ calls'[e].at = "made"
    BY <1>4, <1>5, <1>6, <1>7
  <2> QED
    BY <1>1, <1>7, <1>8, <1>9, <2>1, <2>2 DEF IInv, Born
<1>13. \A f \in Edits : DoneWith(f)' <=> DoneWith(f)
    BY <1>1, <1>7 DEF DoneWith
<1>14. past.accepted \subseteq Edits /\ \A f \in Edits : past'.before[f] \subseteq Edits
    BY <1>1, <1>7 DEF Past
<1>15. Waits' /\ Failures' /\ NothingLost'
    BY <1>1, <1>7, <1>9, <1>13, <1>14 DEF IInv, Waits, Failures, NothingLost
<1>16. Ordered'
  <2>1. ASSUME NEW f \in Edits, NEW g \in past'.before[f], NEW v \in Entry, NEW w \in Entry,
               IsVersion(g, v)', IsVersion(f, w)'
        PROVE  v.id < w.id
    <3>1. g \in Edits /\ IsVersion(g, v) /\ IsVersion(f, w) /\ f # e
      BY <1>8, <1>9, <1>14, <2>1
    <3>2. g \in past.before[f]
      BY <1>5, <1>7, <3>1
    <3> QED
      BY <3>1, <3>2 DEF IInv, Ordered
  <2>2. \A f \in Edits, v \in Entry : IsVersion(f, v)' => v.id <= lastId'
    BY <1>1, <1>9 DEF IInv, Ordered
  <2> QED
    BY <2>1, <2>2 DEF Ordered
<1>17. Turn'
  <2>1. ~(job.at = "sent" /\ job.edit = e)
    BY <1>8 DEF IsVersion, IInv, Frames, TypeOK
  <2>2. ~Asked(e)'
    BY <1>1, <1>4, <1>6, <1>8, <2>1 DEF Asked
  <2>3. ASSUME NEW f \in Edits, f # e, Asked(f)' \/ service'.effects[f] > 0
        PROVE  \A g \in past'.before[f] : DoneWith(g)'
    <3>1. Asked(f) \/ service.effects[f] > 0
      BY <1>1, <1>6, <2>3 DEF Asked
    <3> QED
      BY <1>5, <1>7, <1>13, <1>14, <2>3, <3>1 DEF IInv, Turn
  <2>4. ~(service'.effects[e] > 0)
    BY <1>1, <1>8
  <2> QED
    BY <2>2, <2>3, <2>4 DEF Turn
<1>18. Seen' /\ Once' /\ Rebases'
  <2>1. ASSUME NEW f \in Edits, NEW r \in Nat, IsRev(f, r)'
        PROVE  \/ IsRev(f, r) /\ calls'[f].rev = calls[f].rev
               \/ FreshRev(f, r)
    <3>1. CASE f = e
      <4>1. r = rev /\ calls'[e].rev = rev
        BY <1>1, <1>4, <1>6, <1>8, <1>9, <2>1, <3>1 DEF IsRev
      <4> QED
        BY <1>2, <1>8, <3>1, <4>1 DEF FreshRev, Versioned, Spent
    <3>2. CASE f # e
      BY <1>1, <1>6, <1>9, <2>1, <3>2 DEF IsRev
    <3> QED
      BY <3>1, <3>2
  <2>2. /\ copy' <= service.rev /\ job'.said.rev <= service.rev
        /\ \A f \in Edits : calls'[f].said.rev <= service.rev
    BY <1>1, <1>4, <1>6 DEF IInv, Seen
  <2>3. \A f \in Edits : calls'[f].rev = calls[f].rev \/ service.effects[f] = 0
    BY <1>6, <1>8
  <2>4. past.saved \subseteq past'.saved
    BY <1>7
  <2> QED
    BY <1>1, <1>10, <1>11, <2>1, <2>2, <2>3, <2>4, RevStep DEF IInv
<1> QED
    BY <1>10, <1>11, <1>12, <1>15, <1>16, <1>17, <1>18 DEF IInv

LEMMA AddStep == ASSUME IInv, NEW e \in Edits, Add(e) PROVE IInv'
<1>1. /\ UNCHANGED <<service, faults, copy, mem, job, timer, person, past>>
      /\ calls[e].at \in {"made", "answered"} /\ calls \in [Edits -> Call]
      /\ calls[e].rev \in Nat /\ lastId \in Nat /\ lastId' = lastId + 1 /\ lastId' \in Nat
      /\ past \in Past
    BY CallsAre DEF Add, At, IInv, Frames, TypeOK, Call
<1> DEFINE entry == [id |-> lastId', rev |-> calls[e].rev, state |-> "queued"]
<1>2. /\ entry \in Entry /\ entry.id = lastId' /\ entry.rev = calls[e].rev
      /\ entry.state = "queued" /\ entry # NoEntry
    BY <1>1, QueueAssumption DEF Entry
<1>3. Puts(e, e, entry)
    BY DEF Add
<1> HIDE DEF entry
<1>4. /\ store' \in Queue /\ store'[e] = entry
      /\ \A f \in Edits : f # e => store'[f] = store[f]
      /\ txs' \in Seq(Edits \cup {Replayer, Person})
    BY <1>2, <1>3, PutsIs DEF IInv
<1>5. /\ calls' \in [Edits -> Call] /\ calls'[e].at = "added"
      /\ calls'[e].rev = calls[e].rev /\ calls'[e].said = calls[e].said
      /\ calls'[e].saved = calls[e].saved
      /\ \A f \in Edits : f # e => calls'[f] = calls[f]
    BY <1>1, GoesTo DEF Add
<1>6. e \notin past.accepted /\ \A v \in Entry : ~IsVersion(e, v)
    BY <1>1 DEF IInv, Born
<1>7. mem[e] = NoEntry /\ job.edit # e
  <2>1. mem[e] \in Entry \cup {NoEntry}
    BY DEF IInv, TypeOK, Queue
  <2>2. job.edit = e => job.entry \in Entry /\ job.entry # NoEntry
    BY EditsAre DEF IInv, TypeOK, Frames
  <2> QED
    BY <1>6, <2>1, <2>2, EntryFields DEF IsVersion
<1>8. TypeOK'
    BY <1>1, <1>4, <1>5 DEF IInv, TypeOK, Call
<1>9. Frames' /\ (WentThrough' => WentThrough)
    BY <1>1, <1>5 DEF IInv, Frames, WentThrough
<1>10. ASSUME NEW f \in Edits, NEW v \in Entry, IsVersion(f, v)'
       PROVE  \/ f = e /\ v = entry
              \/ f # e /\ IsVersion(f, v)
  <2>1. IsVersion(f, v) \/ (f = e /\ v = entry)
    BY <1>1, <1>4, <1>5, <1>10 DEF IsVersion
  <2> QED
    BY <1>6, <2>1
<1>11. Born'
  <2>1. ASSUME NEW f \in Edits, f # e
        PROVE  /\ calls'[f] = calls[f] /\ store'[f] = store[f]
               /\ \A v \in Entry : IsVersion(f, v)' => IsVersion(f, v)
    BY <1>4, <1>5, <1>10, <2>1
  <2> QED
    BY <1>1, <1>2, <1>4, <1>5, <1>6, <1>7, <2>1 DEF IInv, Born
<1>12. past.accepted \subseteq Edits /\ \A f \in Edits : past.before[f] \subseteq Edits
    BY <1>1 DEF Past
<1>13. Waits' /\ Failures' /\ NothingLost'
  <2>1. \A f \in Edits : DoneWith(f)' <=> DoneWith(f)
    BY <1>1 DEF DoneWith
  <2>2. Failures'
    BY <1>1, <1>2, <1>10 DEF IInv, Failures
  <2>3. \A f \in Edits : store[f] # NoEntry => store'[f] # NoEntry
    BY <1>2, <1>4
  <2> QED
    BY <1>1, <1>12, <2>1, <2>2, <2>3 DEF IInv, Waits, NothingLost
<1>14. Ordered'
  <2>1. ASSUME NEW f \in Edits, NEW v \in Entry, IsVersion(f, v)'
        PROVE  v.id <= lastId' /\ (f # e => v.id <= lastId)
    BY <1>1, <1>2, <1>10, <2>1, EntryFields DEF IInv, Ordered
  <2>2. ASSUME NEW f \in Edits, NEW g \in past'.before[f], NEW v \in Entry, NEW w \in Entry,
               IsVersion(g, v)', IsVersion(f, w)'
        PROVE  v.id < w.id
    <3>1. g \in Edits /\ g \in past.accepted /\ g \in past.before[f] /\ g # e
      BY <1>1, <1>6, <1>12, <2>2 DEF IInv, Born
    <3>2. CASE f = e
      BY <1>1, <1>2, <1>10, <2>1, <2>2, <3>1, <3>2, EntryFields
    <3>3. CASE f # e
      BY <1>10, <2>2, <3>1, <3>3 DEF IInv, Ordered
    <3> QED
      BY <3>2, <3>3
  <2> QED
    BY <2>1, <2>2 DEF Ordered
<1>15. Turn'
  <2>1. \A f \in Edits : Asked(f)' => Asked(f)
    BY <1>1, <1>5 DEF Asked
  <2>2. \A f \in Edits : service.effects[f] > 0 => service'.effects[f] > 0
    BY <1>1
  <2> QED
    BY <1>1, <1>12, <2>1, <2>2, TurnStep DEF IInv
<1>16. Seen' /\ Once' /\ Rebases'
  <2>1. ASSUME NEW f \in Edits, NEW r \in Nat, IsRev(f, r)'
        PROVE  IsRev(f, r) /\ calls'[f].rev = calls[f].rev
    BY <1>1, <1>2, <1>5, <1>10, <2>1 DEF IsRev
  <2>0. service.rev \in Nat
    BY DEF IInv, TypeOK
  <2>2. /\ copy' <= service.rev /\ job'.said.rev <= service.rev
        /\ service'.rev >= service.rev
        /\ \A f \in Edits : /\ calls'[f].said.rev <= service.rev
                            /\ calls'[f].rev = calls[f].rev
    BY <1>1, <1>5, <2>0 DEF IInv, Seen
  <2>3. past.saved \subseteq past'.saved
    BY <1>1
  <2> QED
    BY <1>1, <1>8, <1>9, <2>1, <2>2, <2>3, RevStep DEF IInv
<1> QED
    BY <1>8, <1>9, <1>11, <1>13, <1>14, <1>15, <1>16 DEF IInv

\* A closed page: what is stored is all there is of an edit.
LEMMA CloseStep == IInv /\ Close => IInv'
<1> SUFFICES ASSUME IInv, Close PROVE IInv'
    OBVIOUS
<1> DEFINE n == faults.events + 1
           stored == {e \in Edits : store[e] # NoEntry}
           a == past.accepted \cup stored
<1>0. /\ calls \in [Edits -> Call] /\ past \in Past /\ service.rev \in Nat /\ store \in Queue
      /\ faults \in [lost : Nat, events : Nat] /\ n \in Nat
    BY CallsAre DEF IInv, TypeOK, Frames
<1>1. /\ UNCHANGED <<service, store, lastId, copy>> /\ txs' = <<>> /\ mem' = store
      /\ job' = Idle /\ person' = Nobody
    BY DEF Close
<1>2. /\ calls' \in [Edits -> Call]
      /\ \A e \in Edits :
          \/ calls[e].at = "unmade" /\ calls'[e] = calls[e]
          \/ /\ calls[e].at # "unmade" /\ calls'[e].at = "over" /\ calls'[e].rev = calls[e].rev
             /\ calls'[e].said = NoAnswer /\ calls'[e].saved = NoEntry
  <2> DEFINE c(e) == [NoCall EXCEPT !.at = "over", !.rev = calls[e].rev]
  <2>1. ASSUME NEW e \in Edits
        PROVE  /\ c(e) \in Call /\ c(e).at = "over" /\ c(e).rev = calls[e].rev
               /\ c(e).said = NoAnswer /\ c(e).saved = NoEntry
    <3>1. calls[e].rev \in Nat
      BY <1>0, <1>1 DEF Call
    <3> QED
      BY <3>1, NoAnswerIs DEF NoCall, Call
  <2>2. calls' = [e \in Edits |-> IF At(e, "unmade") THEN calls[e] ELSE c(e)]
    BY DEF Close
  <2> HIDE DEF c
  <2>3. \A e \in Edits : calls'[e] = IF calls[e].at = "unmade" THEN calls[e] ELSE c(e)
    BY <2>2 DEF At
  <2>4. \A e \in Edits : calls'[e] \in Call
    BY <1>0, <1>1, <2>1, <2>3
  <2> QED
    BY <2>1, <2>2, <2>3, <2>4
<1>3. faults' = [faults EXCEPT !.events = n] /\ past' = [past EXCEPT !.accepted = a]
    BY DEF Close, Event
<1>4. /\ past' \in Past /\ past'.accepted = a /\ past'.before = past.before
      /\ past'.dropped = past.dropped /\ past'.failed = past.failed /\ past'.saved = past.saved
    BY <1>0, <1>1, <1>3 DEF Past
<1>5. /\ past.accepted \subseteq a /\ a \subseteq Edits
      /\ \A e \in a \ past.accepted : store[e] # NoEntry
    BY <1>0, <1>1 DEF Past
<1> HIDE DEF a, n
<1>6. faults' \in [lost : Nat, events : Nat] /\ timer' \in BOOLEAN
    BY <1>0, <1>1, <1>3 DEF Close, Changed
<1>7. /\ job' \in Job /\ job'.at = "idle" /\ job'.edit = 0 /\ job'.entry = NoEntry
      /\ job'.said = NoAnswer /\ job'.behind = {}
    BY <1>1, IdleIs
<1>8. person'.edit = 0 /\ person'.entry = NoEntry /\ person' \in People
    BY <1>1, QueueAssumption DEF Nobody, People
<1>9. TypeOK'
    BY <1>0, <1>1, <1>2, <1>6, <1>7, <1>8 DEF IInv, TypeOK, Call, Job, People
<1>10. Frames' /\ ~WentThrough'
  <2>1. \A e \in Edits : (calls'[e].at = "patched") <=> (calls'[e].saved # NoEntry)
    BY <1>2 DEF IInv, Frames
  <2>2. ~WentThrough'
    BY <1>7 DEF WentThrough
  <2> QED
    BY <1>0, <1>1, <1>4, <1>7, <1>8, <2>1, <2>2, EditsAre DEF Frames
<1>11. ASSUME NEW e \in Edits, NEW v \in Entry, IsVersion(e, v)'
       PROVE  IsVersion(e, v) /\ v = store[e]
  <2>1. calls'[e].saved = NoEntry
    BY <1>2 DEF IInv, Frames
  <2> QED
    BY <1>1, <1>7, <1>8, <1>11, <2>1, EntryFields, EditsAre DEF IsVersion
<1>12. Born'
  <2>1. ASSUME NEW e \in Edits, calls'[e].at \in {"unmade", "made", "sent", "answered", "added"}
        PROVE  /\ calls[e].at = "unmade" /\ calls'[e].at = "unmade" /\ calls'[e] = calls[e]
               /\ e \notin past'.accepted /\ \A v \in Entry : ~IsVersion(e, v)'
    <3>1. calls[e].at = "unmade" /\ calls'[e] = calls[e]
      BY <1>2, <2>1
    <3>2. e \notin past.accepted /\ \A v \in Entry : ~IsVersion(e, v)
      BY <3>1 DEF IInv, Born
    <3>3. store[e] = NoEntry
      BY <1>0, <1>1, <3>2, EntryFields DEF IsVersion, Queue
    <3> QED
      BY <1>4, <1>5, <1>11, <3>1, <3>2, <3>3
  <2>2. \A e \in Edits : past'.before[e] \subseteq past'.accepted
    BY <1>4, <1>5 DEF IInv, Born
  <2>3. ASSUME NEW e \in Edits, calls'[e].at = "unmade"
        PROVE  /\ service'.effects[e] = 0 /\ calls'[e].rev = NoRev /\ past'.before[e] = {}
               /\ \A rev \in Nat : [edit |-> e, rev |-> rev] \notin service'.late
    BY <1>1, <1>4, <2>1, <2>3 DEF IInv, Born
  <2>4. ASSUME NEW e \in Edits, calls'[e].at = "added" PROVE FALSE
    BY <2>1, <2>4
  <2> QED
    BY <1>4, <1>5, <2>1, <2>2, <2>3, <2>4 DEF Born
<1>13. \A e \in Edits : DoneWith(e)' <=> DoneWith(e)
    BY <1>1, <1>4 DEF DoneWith
<1>14. Failures'
    BY <1>4, <1>11 DEF IInv, Failures
<1>15. NothingLost'
    BY <1>1, <1>4, <1>5 DEF IInv, NothingLost
<1>16. Waits'
  <2> SUFFICES ASSUME NEW e \in past'.accepted, ~DoneWith(e)' PROVE e \in Waiting(mem')
    BY DEF Waits
  <2>1. e \in Edits
    BY <1>4, <1>5
  <2>2. store[e] # NoEntry /\ store[e] \in Entry
    BY <1>0, <1>1, <1>15, <2>1 DEF NothingLost, DoneWith, Queue
  <2>3. IsVersion(e, store[e])
    BY <2>2 DEF IsVersion
  <2>4. store[e].state # "failed"
    BY <1>13, <2>1, <2>2, <2>3 DEF IInv, Failures, DoneWith
  <2> QED
    BY <1>1, <2>1, <2>2, <2>4 DEF Waiting
<1>17. \A e \in Edits : past.before[e] \subseteq Edits
    BY <1>0, <1>1 DEF Past
<1>18. Ordered'
    BY <1>1, <1>4, <1>11, <1>17, OrderedStep DEF IInv
<1>19. Turn'
  <2>1. \A e \in Edits : Asked(e)' => Asked(e)
    BY <1>1, <1>2, <1>7 DEF Asked
  <2>2. \A e \in Edits : service.effects[e] > 0 => service'.effects[e] > 0
    BY <1>1
  <2> QED
    BY <1>1, <1>4, <1>17, <2>1, <2>2, TurnStep DEF IInv
<1>20. Seen' /\ Once' /\ Rebases'
  <2>1. \A e \in Edits : calls'[e].rev = calls[e].rev
    BY <1>2
  <2>2. ASSUME NEW e \in Edits, NEW rev \in Nat, IsRev(e, rev)' PROVE IsRev(e, rev)
    BY <1>1, <1>11, <2>1, <2>2 DEF IsRev
  <2>3. /\ copy' <= service.rev /\ job'.said.rev <= service.rev
        /\ \A e \in Edits : calls'[e].said.rev <= service.rev
    BY <1>0, <1>1, <1>2, <1>7, NoAnswerIs DEF IInv, Seen
  <2>4. service'.rev >= service.rev /\ service'.effects = service.effects
        /\ past.saved \subseteq past'.saved
    BY <1>0, <1>1, <1>4
  <2> QED
    BY <1>9, <1>10, <2>1, <2>2, <2>3, <2>4, RevStep DEF IInv
<1> QED
    BY <1>9, <1>10, <1>12, <1>14, <1>15, <1>16, <1>18, <1>19, <1>20 DEF IInv

(***************************************************************************)
(* The specification.                                                      *)
(***************************************************************************)

LEMMA InitIInv == Init => IInv
<1> SUFFICES ASSUME Init PROVE IInv
    OBVIOUS
<1>1. NoCall \in Call /\ NoCall.at = "unmade" /\ NoCall.rev = NoRev /\ NoCall.said = NoAnswer
      /\ NoCall.saved = NoEntry
    BY NoAnswerIs DEF NoCall, Call, NoRev
<1>2. /\ service.rev = 1 /\ service.late = {} /\ service \in Service
      /\ \A e \in Edits : service.effects[e] = 0
    BY DEF Init, Service
<1>3. /\ store \in Queue /\ mem = store /\ lastId = 0 /\ copy = 1 /\ txs = <<>> /\ timer = FALSE
      /\ \A e \in Edits : store[e] = NoEntry
      /\ faults \in [lost : Nat, events : Nat]
    BY DEF Init, Queue
<1>4. calls \in [Edits -> Call] /\ \A e \in Edits : calls[e] = NoCall
    BY <1>1 DEF Init
<1>5. /\ job \in Job /\ job.at = "idle" /\ job.edit = 0 /\ job.entry = NoEntry
      /\ job.said = NoAnswer /\ job.behind = {}
    BY IdleIs DEF Init
<1>6. person = Nobody /\ person \in People /\ person.edit = 0 /\ person.entry = NoEntry
    BY QueueAssumption DEF Init, Nobody, People
<1>7. /\ past \in Past /\ past.accepted = {} /\ past.dropped = {} /\ past.failed = {}
      /\ past.saved = {} /\ \A e \in Edits : past.before[e] = {}
    BY DEF Init, Past
<1>8. TypeOK
  <2>1. txs \in Seq(Edits \cup {Replayer, Person}) /\ mem \in Queue /\ lastId \in Nat /\ copy \in Nat
    BY <1>3
  <2> QED
    BY <1>2, <1>3, <1>4, <1>5, <1>6, <2>1 DEF TypeOK, Service, Call, Job, People
<1>9. ~WentThrough
    BY <1>5 DEF WentThrough
<1>10. Frames
    BY <1>1, <1>4, <1>5, <1>6, <1>7, <1>9, EditsAre DEF Frames
<1>11. \A e \in Edits, v \in Entry : ~IsVersion(e, v)
    BY <1>1, <1>3, <1>4, <1>5, <1>6, EntryFields DEF IsVersion
<1>12. Born
    BY <1>1, <1>2, <1>3, <1>4, <1>7, <1>11 DEF Born
<1>13. Waits /\ Failures /\ NothingLost
    BY <1>7, <1>11 DEF Waits, Failures, NothingLost
<1>14. Ordered /\ Turn
    BY <1>7, <1>11 DEF Ordered, Turn
<1>15. \A e \in Edits, rev \in Nat : IsRev(e, rev) => rev = NoRev
    BY <1>1, <1>2, <1>4, <1>11 DEF IsRev
<1>16. Seen
    BY <1>1, <1>2, <1>3, <1>4, <1>5, <1>9, <1>15, NoAnswerIs DEF Seen, NoRev
<1>17. Once
  <2>1. \A e \in Edits : ~Versioned(e)
    BY <1>1, <1>4 DEF Versioned
  <2> QED
    BY <1>2, <2>1 DEF Once
<1>18. Rebases
    BY <1>9 DEF Rebases
<1> QED
    BY <1>8, <1>10, <1>12, <1>13, <1>14, <1>16, <1>17, <1>18 DEF IInv

LEMMA StutterStep == IInv /\ UNCHANGED vars => IInv'
<1> SUFFICES ASSUME IInv, UNCHANGED vars PROVE IInv'
    OBVIOUS
<1>1. UNCHANGED <<service, faults, store, lastId, txs, copy, mem, calls, job, timer, person, past>>
    BY DEF vars, disk, page
<1>2. \A e \in Edits, v \in Entry : IsVersion(e, v)' <=> IsVersion(e, v)
    BY <1>1 DEF IsVersion
<1>3. TypeOK' /\ Frames'
    BY <1>1 DEF IInv, TypeOK, Frames, WentThrough
<1>4. past \in Past
    BY DEF IInv, Frames
<1>5. /\ past' = [past EXCEPT !.dropped = past'.dropped] /\ past.dropped \subseteq past'.dropped
    BY <1>1, <1>4 DEF Past
<1>6. \A e \in Edits : calls[e].at = "added" =>
        store'[e] # NoEntry /\ mem'[e] = NoEntry /\ job'.edit # e
    BY <1>1 DEF IInv, Born
<1>7. WentThrough' => WentThrough
    BY <1>1 DEF WentThrough
<1> QED
    BY <1>1, <1>2, <1>3, <1>5, <1>6, <1>7, QueueStep

LEMMA NextIInv == IInv /\ [Next]_vars => IInv'
<1> SUFFICES ASSUME IInv, [Next]_vars PROVE IInv'
    OBVIOUS
<1>1. CASE OtherWrites
    BY <1>1, OtherWritesStep
<1>2. CASE \E r \in service.late : LateArrives(r)
    BY <1>2, LateArrivesStep
<1>3. ASSUME NEW e \in Edits, Editing(e) PROVE IInv'
    BY <1>3, MakeStep, SendStep, AnswerCallStep, LoseCallStep, FinishStep, AddStep, AddedStep,
       PatchStep, PatchedStep, DropStep, SaveStep DEF Editing
<1>4. CASE Replaying
    BY <1>4, Idlers, SendHeadStep, AnswerHeadStep, LoseHeadStep, RemoveStep, RemovedStep,
       PutRebasedStep, MapRebasedStep, CopyStep, ParkStep, ParkedStep, DiscardStep, DiscardedStep
       DEF Replaying
<1>5. CASE Done
    BY <1>5, DoneStep
<1>6. CASE Read
    BY <1>6, ReadStep
<1>7. CASE Close
    BY <1>7, CloseStep
<1>8. CASE UNCHANGED vars
    BY <1>8, StutterStep
<1> QED
    BY <1>1, <1>2, <1>3, <1>4, <1>5, <1>6, <1>7, <1>8 DEF Next

LEMMA SpecIInv == Spec => []IInv
    BY InitIInv, NextIInv, PTL DEF Spec

\* Every variable keeps its type, whatever the edits do (data-queue.js,
\* data-writes.js).
THEOREM TypeCorrect == Spec => []TypeOK
<1>1. IInv => TypeOK
    BY DEF IInv
<1> QED
    BY <1>1, SpecIInv, PTL

\* An edit the queue took on is stored until it took effect or was dropped:
\* replay() takes it out only when it went through or its policy said "drop",
\* and no lost request, rebase, saving again or reload removes it.
THEOREM NothingIsLost == Spec => []NothingLost
<1>1. IInv => NothingLost
    BY DEF IInv
<1> QED
    BY <1>1, SpecIInv, PTL

\* An edit takes effect only when all that was accepted before it was made took
\* effect, was dropped or is in the failed list: put() and post() send at once
\* only when nothing waits, and replay() sends the lowest id.
THEOREM OrderIsKept == Spec => []InOrder
<1>1. IInv => InOrder
    BY DEF IInv, Turn, InOrder, DoneWith
<1> QED
    BY <1>1, SpecIInv, PTL

\* An edit with an If-Match or an idempotency key takes effect at most once,
\* however often it is sent: its revision is used up when it does, and rebase()
\* gives a new one only to entries that named the revision the service had when
\* the edit ahead of them took effect, which did not take effect themselves.
THEOREM AppliedAtMostOnce == Spec => []AppliedOnce
<1>1. ASSUME IInv, NEW e \in Edits \ past.saved, e \in Creates \/ calls[e].rev # NoRev
      PROVE  service.effects[e] <= 1
    BY <1>1 DEF IInv, Once, Versioned
<1>2. IInv => AppliedOnce
    BY <1>1 DEF AppliedOnce
<1> QED
    BY <1>2, SpecIInv, PTL

(***************************************************************************)
(* The retry timer.                                                        *)
(***************************************************************************)

\* Each step of the page leaves a replay running, finds the first edit held,
\* sets the timer by the queue it leaves, or changes none of the three.
LEMMA TimerStep ==
    ASSUME TypeOK, NeverStranded,
           \/ job'.at # "idle"
           \/ timer' = (Waiting(mem') # {})
           \/ UNCHANGED <<job, mem, timer>>
           \/ UNCHANGED mem /\ \A e \in Edits : IsHead(e) => mem[e].state = "held"
    PROVE  NeverStranded'
<1>1. CASE job'.at # "idle"
    BY <1>1 DEF NeverStranded
<1>2. CASE timer' = (Waiting(mem') # {})
    BY <1>2 DEF NeverStranded, IsHead
<1>3. CASE UNCHANGED <<job, mem, timer>>
    BY <1>3 DEF NeverStranded, IsHead, Waiting
<1>4. CASE UNCHANGED mem /\ \A e \in Edits : IsHead(e) => mem[e].state = "held"
    BY <1>4 DEF NeverStranded, IsHead, Waiting
<1> QED
    BY <1>1, <1>2, <1>3, <1>4

\* A replay that was called for, or that goes on.
LEMMA JobGoesOn ==
    ASSUME TypeOK
    PROVE  /\ Called => job'.at # "idle"
           /\ NextEntry => job'.at # "idle"
           /\ \A place \in {"removed", "rebased", "discarded", "skip", "hold", "drop"} :
               Moves(place) => job'.at # "idle"
<1>1. job \in Job
    BY DEF TypeOK, Job
<1>2. Called => job'.at # "idle"
    BY <1>1, IdleIs DEF Called, Job
<1>3. NextEntry => job'.at # "idle"
    BY <1>1, IdleIs DEF NextEntry, Job
<1>4. \A place \in {"removed", "rebased", "discarded", "skip", "hold", "drop"} :
          Moves(place) => job'.at # "idle"
    BY <1>1 DEF Moves, Job
<1> QED
    BY <1>2, <1>3, <1>4

LEMMA NextTimer == TypeOK /\ NeverStranded /\ [Next]_vars => NeverStranded'
<1> SUFFICES ASSUME TypeOK, NeverStranded, [Next]_vars PROVE NeverStranded'
    OBVIOUS
<1> USE DEF disk, page
<1>1. CASE OtherWrites \/ Read \/ (\E r \in service.late : LateArrives(r)) \/ UNCHANGED vars
  <2>1. UNCHANGED <<job, mem, timer>>
    BY <1>1 DEF OtherWrites, Read, LateArrives, vars
  <2> QED
    BY <2>1, TimerStep
<1>2. ASSUME NEW e \in Edits, Editing(e) PROVE NeverStranded'
  <2>1. CASE Make(e) \/ Send(e) \/ AnswerCall(e) \/ LoseCall(e) \/ Finish(e) \/ Add(e)
    <3>1. UNCHANGED <<job, mem, timer>>
      BY <2>1 DEF Make, Send, AnswerCall, LoseCall, Finish, Add
    <3> QED
      BY <3>1, TimerStep
  <2>2. CASE Drop(e) \/ Save(e)
    <3>1. UNCHANGED <<job, mem, timer>>
      BY <2>2 DEF Drop, Save
    <3> QED
      BY <3>1, TimerStep
  <2>3. CASE Added(e)
    BY <2>3, TimerStep DEF Added, Changed
  <2>4. CASE Patch(e)
    BY <2>4, TimerStep, JobGoesOn DEF Patch
  <2>5. CASE Patched(e)
    BY <2>5, TimerStep, JobGoesOn DEF Patched
  <2> QED
    BY <1>2, <2>1, <2>2, <2>3, <2>4, <2>5 DEF Editing
<1>3. CASE Replaying
  <2>1. CASE Replay \/ TimerFires
    BY <2>1, TimerStep, JobGoesOn DEF Replay, TimerFires
  <2>2. CASE NothingToSend
    <3>1. UNCHANGED mem /\ \A e \in Edits : IsHead(e) => mem[e].state = "held"
      BY <2>2 DEF NothingToSend
    <3> QED
      BY <3>1, TimerStep
  <2>3. CASE Stop \/ Parked
    BY <2>3, TimerStep DEF Stop, Parked, Changed
  <2>4. CASE \/ (\E e \in Edits : SendHead(e)) \/ AnswerHead \/ LoseHead
             \/ Removed \/ (\E b \in job.behind : MapRebased(b)) \/ Park
    <3>1. job'.at # "idle"
      BY <2>4 DEF SendHead, AnswerHead, LoseHead, Removed, MapRebased, Park, TypeOK
    <3> QED
      BY <3>1, TimerStep
  <2>5. CASE Remove \/ (\E b \in job.behind : PutRebased(b)) \/ Discard
    BY <2>5, TimerStep, JobGoesOn DEF Remove, PutRebased, Discard
  <2>6. CASE Adopt \/ Discarded
    BY <2>6, TimerStep, JobGoesOn DEF Adopt, Discarded
  <2>7. CASE Refuse
    <3>1. PICK answer \in Policies : Moves(answer)
      BY <2>7 DEF Refuse
    <3>2. answer \in {"skip", "hold", "drop"}
      BY QueueAssumption
    <3> QED
      BY <3>1, <3>2, TimerStep, JobGoesOn
  <2> QED
    BY <1>3, <2>1, <2>2, <2>3, <2>4, <2>5, <2>6, <2>7 DEF Replaying
<1>4. CASE Done
    BY <1>4, TimerStep, JobGoesOn DEF Done
<1>5. CASE Close
    BY <1>5, TimerStep DEF Close, Changed
<1> QED
    BY <1>1, <1>2, <1>3, <1>4, <1>5 DEF Next

\* While an edit waits and no replay runs the timer is set: whatever ends a round
\* or changes the queue calls onChange, which sets it (data-queue.js).
THEOREM TimerIsSet == Spec => []NeverStranded
<1>1. Init => NeverStranded
    BY DEF Init, NeverStranded, IsHead, Waiting
<1> QED
    BY <1>1, NextTimer, TypeCorrect, PTL DEF Spec

(***************************************************************************)
(* The refinement: each step of the code is a step of EditContract or      *)
(* leaves all it speaks of.                                                *)
(***************************************************************************)

Stored == {e \in Edits : store[e] # NoEntry}
Made == {e \in Edits : ~At(e, "unmade")}
Repeatable == past.saved \cup {e \in Edits \ Creates : ~At(e, "unmade") /\ calls[e].rev = NoRev}

\* No edit is made, and none is made of another revision.
CallsStay ==
    \A e \in Edits :
        /\ At(e, "unmade")' <=> At(e, "unmade")
        /\ calls'[e].rev = calls[e].rev

LEMMA MadeStay ==
    ASSUME CallsStay
    PROVE  Made' = Made /\ (past'.saved = past.saved => Repeatable' = Repeatable)
    BY DEF CallsStay, Made, Repeatable

LEMMA SpeaksOf ==
    ASSUME CallsStay, Stored' = Stored, past' = past, service'.effects = service.effects
    PROVE  UNCHANGED Promise!vars
<1>1. Made' = Made /\ Repeatable' = Repeatable
    BY MadeStay
<1> QED
    BY <1>1 DEF Promise!vars, Made, Stored, Repeatable

\* What is written of an edit was made.
LEMMA VersionsAreMade ==
    ASSUME IInv, NEW e \in Edits, NEW v \in Entry, IsVersion(e, v)
    PROVE  e \in Made
    BY DEF IInv, Born, Made, At

\* A call that was made goes on, or none does.
LEMMA CallGoesOn ==
    ASSUME TypeOK, NEW e \in Edits, calls[e].at # "unmade",
           NEW place \in {"sent", "answered", "added", "listed", "patched", "over"},
           NEW said, NEW saved,
           \/ calls' = [calls EXCEPT ![e].at = place]
           \/ calls' = [calls EXCEPT ![e].at = place, ![e].said = said]
           \/ calls' = [calls EXCEPT ![e].at = place, ![e].saved = saved]
    PROVE  CallsStay
<1>1. /\ calls \in [Edits -> Call] /\ calls[e] \in Call
    BY CallsAre
<1>2. ASSUME NEW c, calls' = [calls EXCEPT ![e] = c], c.at = place, c.rev = calls[e].rev
      PROVE  CallsStay
  <2>1. calls'[e] = c /\ \A f \in Edits : f # e => calls'[f] = calls[f]
    BY <1>1, <1>2
  <2> QED
    BY <1>2, <2>1 DEF CallsStay, At
<1>3. CASE calls' = [calls EXCEPT ![e].at = place]
  <2> DEFINE c == [calls[e] EXCEPT !.at = place]
  <2>1. c.at = place /\ c.rev = calls[e].rev
    BY <1>1 DEF Call
  <2> QED
    BY <1>2, <1>3, <2>1
<1>4. CASE calls' = [calls EXCEPT ![e].at = place, ![e].said = said]
  <2> DEFINE c == [calls[e] EXCEPT !.at = place, !.said = said]
  <2>1. c.at = place /\ c.rev = calls[e].rev
    BY <1>1 DEF Call
  <2> QED
    BY <1>2, <1>4, <2>1
<1>5. CASE calls' = [calls EXCEPT ![e].at = place, ![e].saved = saved]
  <2> DEFINE c == [calls[e] EXCEPT !.at = place, !.saved = saved]
  <2>1. c.at = place /\ c.rev = calls[e].rev
    BY <1>1 DEF Call
  <2> QED
    BY <1>2, <1>5, <2>1
<1> QED
    BY <1>3, <1>4, <1>5

LEMMA NoCallGoesOn == ASSUME UNCHANGED calls PROVE CallsStay
    BY DEF CallsStay, At

\* An edit is stored, or taken out of the store.
LEMMA PutsStored ==
    ASSUME TypeOK, NEW who, NEW e \in Edits, NEW new \in Entry \cup {NoEntry}, Puts(who, e, new)
    PROVE  Stored' = IF new = NoEntry THEN Stored \ {e} ELSE Stored \cup {e}
<1>1. store'[e] = new /\ \A f \in Edits : f # e => store'[f] = store[f]
    BY DEF TypeOK, Puts, Queue
<1> QED
    BY <1>1 DEF Stored

LEMMA StoreRefines ==
    ASSUME IInv, NEW who, NEW e \in Made, NEW new \in Entry, Puts(who, e, new),
           CallsStay, past' = past, service' = service
    PROVE  Promise!Next
<1>1. e \in Edits
    BY DEF Made
<1>2. Stored' = Stored \cup {e}
    BY <1>1, PutsStored, EntryFields DEF IInv
<1>3. Made' = Made /\ Repeatable' = Repeatable
    BY MadeStay
<1>4. Promise!Store(e)
    BY <1>2, <1>3 DEF Promise!Store, Made, Stored, Repeatable
<1> QED
    BY <1>1, <1>4 DEF Promise!Next

\* A request of an edit reaches the service.
LEMMA ServedRefines ==
    ASSUME IInv, IInv', NEW e \in Edits, NEW rev \in Nat, Underway(e, rev), Served(e, rev),
           CallsStay, store' = store, past' = past
    PROVE  [Promise!Next]_(Promise!vars)
<1>1. Stored' = Stored
    BY DEF Stored
<1>2. /\ service.effects \in [Edits -> Nat] /\ service'.effects \in [Edits -> Nat]
    BY DEF IInv, TypeOK
<1>3. /\ Effect(e, rev) = service \/ Effect(e, rev).effects[e] = service.effects[e] + 1
      /\ \A f \in Edits \ {e} : Effect(e, rev).effects[f] = service.effects[f]
    BY EffectFields DEF IInv
<1>4. CASE Effect(e, rev) = service
    BY <1>1, <1>4, SpeaksOf DEF Served
<1>5. CASE Effect(e, rev).effects[e] = service.effects[e] + 1
  <2>1. service'.effects = [service.effects EXCEPT ![e] = @ + 1]
    BY <1>2, <1>3, <1>5 DEF Served
  <2>2. IsRev(e, rev) /\ Asked(e)
    BY UnderwayIs DEF IInv
  <2>3. e \in Made
    <3>1. CASE job.at = "sent" /\ job.edit = e
      <4>1. job.entry \in Entry /\ IsVersion(e, job.entry)
        BY <3>1 DEF IInv, Frames, TypeOK, IsVersion
      <4> QED
        BY <4>1, VersionsAreMade
    <3> QED
      BY <2>2, <3>1 DEF Asked, IInv, Born, Made, At
  <2>4. \A f \in past.before[e] : DoneWith(f)
    BY <2>2 DEF IInv, Turn
  <2>5. service.effects[e] = 0 \/ e \in Repeatable
    <3> SUFFICES ASSUME e \notin Repeatable PROVE service.effects[e] = 0
      OBVIOUS
    <3>1. calls'[e].rev = calls[e].rev /\ past'.saved = past.saved
      BY DEF CallsStay
    <3>2. e \in Creates \/ Versioned(e)'
      BY <2>3, <3>1 DEF Repeatable, Made, Versioned
    <3>3. service'.effects[e] <= 1
      BY <3>2 DEF IInv, Once
    <3> QED
      BY <1>2, <2>1, <3>3
  <2>6. Made' = Made /\ Repeatable' = Repeatable
    BY MadeStay
  <2>7. Promise!TakeEffect(e)
    BY <1>1, <2>1, <2>3, <2>4, <2>5, <2>6
       DEF Promise!TakeEffect, Promise!Over, DoneWith, Made, Stored, Repeatable
  <2> QED
    BY <2>7 DEF Promise!Next
<1> QED
    BY <1>3, <1>4, <1>5

LEMMA MakeRefines == ASSUME IInv, NEW e \in Edits, Make(e) PROVE Promise!Next
<1> DEFINE rev == IF e \in Creates THEN NoRev ELSE copy
<1>1. /\ service' = service /\ Stored' = Stored /\ past \in Past /\ e \notin Made
      /\ past' = [past EXCEPT !.before[e] = past.accepted]
      /\ calls' = [calls EXCEPT ![e].at = "made", ![e].rev = rev]
    BY DEF Make, Stored, disk, Made, At, IInv, Frames
<1>2. /\ calls'[e].at = "made"
      /\ \A f \in Edits : f # e => calls'[f] = calls[f]
    BY <1>1 DEF IInv, TypeOK
<1>3. /\ past'.before = [past.before EXCEPT ![e] = past.accepted]
      /\ past'.accepted = past.accepted /\ past'.dropped = past.dropped
      /\ past'.failed = past.failed /\ past'.saved = past.saved
    BY <1>1 DEF Past
<1>4. Made' = Made \cup {e}
    BY <1>2 DEF Made, At
<1>5. Repeatable' \in {Repeatable, Repeatable \cup {e}}
  <2>1. \A f \in Edits : f # e => (f \in Repeatable' <=> f \in Repeatable)
    BY <1>2, <1>3 DEF Repeatable, At
  <2>2. \A f : f \notin Edits => (f \in Repeatable' <=> f \in Repeatable)
    BY <1>3 DEF Repeatable
  <2>3. CASE e \in Repeatable'
    <3>1. Repeatable' = Repeatable \cup {e}
      BY <2>1, <2>2, <2>3
    <3> QED
      BY <3>1
  <2>4. CASE e \notin Repeatable'
    <3>1. e \notin Repeatable
      BY <1>1, <1>3, <2>4 DEF Repeatable, Made
    <3>2. Repeatable' = Repeatable
      BY <2>1, <2>2, <2>4, <3>1
    <3> QED
      BY <3>2
  <2> QED
    BY <2>3, <2>4
<1>6. Promise!Make(e)
    BY <1>1, <1>3, <1>4, <1>5 DEF Promise!Make, Made, Stored, Repeatable
<1> QED
    BY <1>6 DEF Promise!Next

LEMMA AnswerRefines ==
    ASSUME IInv, IInv', NEW e \in Edits, NEW rev \in Nat, NEW said, Answers(e, rev, said),
           Underway(e, rev), CallsStay, store' = store, past' = past
    PROVE  [Promise!Next]_(Promise!vars)
<1>1. Served(e, rev) \/ service' = service
    BY AnswersIs DEF IInv
<1>2. Stored' = Stored
    BY DEF Stored
<1> QED
    BY <1>1, <1>2, ServedRefines, SpeaksOf

LEMMA LateRefines ==
    ASSUME IInv, IInv', NEW r \in service.late, LateArrives(r)
    PROVE  [Promise!Next]_(Promise!vars)
<1>1. UNCHANGED <<store, calls, past>> /\ service \in Service
    BY DEF LateArrives, disk, page, IInv, TypeOK, Service
<1>2. r.edit \in Edits /\ r.rev \in Nat /\ r = [edit |-> r.edit, rev |-> r.rev]
    BY <1>1 DEF Service
<1> DEFINE s == Effect(r.edit, r.rev)
           rest == s.late \ {r}
<1>3. s \in Service
    BY <1>2, EffectFields DEF IInv
<1>4. service' = [s EXCEPT !.late = rest]
    BY DEF LateArrives
<1>5. Served(r.edit, r.rev)
  <2> HIDE DEF s, rest
  <2>1. service'.rev = s.rev /\ service'.effects = s.effects
    BY <1>3, <1>4 DEF Service
  <2> QED
    BY <2>1 DEF Served, s
<1>6. Underway(r.edit, r.rev) /\ CallsStay
    BY <1>1, <1>2, NoCallGoesOn DEF Underway
<1> QED
    BY <1>1, <1>2, <1>5, <1>6, ServedRefines

LEMMA SaveRefines == ASSUME IInv, NEW e \in Edits, Save(e) PROVE Promise!Next
<1>1. PICK rev \in IF copy # NoRev THEN {copy} ELSE NoRev..service.rev :
        /\ Puts(Person, e, [mem[e] EXCEPT !.state = "queued", !.rev = rev])
        /\ person' = [edit |-> e, entry |-> [mem[e] EXCEPT !.state = "queued", !.rev = rev]]
    BY DEF Save
<1> DEFINE saved == [mem[e] EXCEPT !.state = "queued", !.rev = rev]
<1>2. mem[e] \in Entry /\ IsVersion(e, mem[e]) /\ rev \in Nat
    BY <1>1 DEF Save, IInv, TypeOK, Queue, IsVersion, NoRev
<1>3. saved \in Entry
    BY <1>2 DEF Entry
<1>4. e \in Made
    BY <1>2, VersionsAreMade
<1>5. CallsStay /\ service' = service
    BY NoCallGoesOn DEF Save
<1>6. /\ past'.accepted = past.accepted /\ past'.dropped = past.dropped
      /\ past'.failed = past.failed /\ past'.saved = past.saved \cup {e}
      /\ past'.before = past.before
    BY DEF Save, IInv, Frames, Past
<1>7. Made' = Made /\ Repeatable' = Repeatable \cup {e}
    BY <1>5, <1>6, MadeStay DEF CallsStay, Repeatable
<1>8. Stored' = Stored \cup {e}
    BY <1>1, <1>3, PutsStored, EntryFields DEF IInv
<1>9. Promise!SaveAgain(e)
    BY <1>4, <1>5, <1>6, <1>7, <1>8 DEF Promise!SaveAgain, Made, Stored, Repeatable
<1> QED
    BY <1>9 DEF Promise!Next

LEMMA EditingRefines ==
    ASSUME IInv, IInv', NEW e \in Edits, Editing(e)
    PROVE  [Promise!Next]_(Promise!vars)
<1> USE DEF disk, At
<1>0. TypeOK
    BY DEF IInv
<1>1. CASE Make(e)
    BY <1>1, MakeRefines
<1>2. CASE Send(e)
  <2>1. CallsStay
    BY <1>0, <1>2, CallGoesOn DEF Send, Goes
  <2>2. Stored' = Stored /\ past' = past /\ service'.effects = service.effects
    BY <1>2 DEF Send, Stored
  <2> QED
    BY <2>1, <2>2, SpeaksOf
<1>3. CASE AnswerCall(e)
  <2>1. PICK kind \in {"ok", "conflict", "rejected"}, rev \in NoRev..(service.rev + 1) :
          /\ At(e, "sent") /\ Answers(e, calls[e].rev, [kind |-> kind, rev |-> rev])
          /\ calls' = [calls EXCEPT ![e].at = "answered", ![e].said = [kind |-> kind, rev |-> rev]]
    BY <1>3 DEF AnswerCall
  <2>2. CallsStay
    BY <1>0, <2>1, CallGoesOn
  <2>3. calls[e].rev \in Nat /\ Underway(e, calls[e].rev) /\ store' = store /\ past' = past
    BY <1>0, <1>3, <2>1 DEF AnswerCall, Underway, TypeOK
  <2> QED
    BY <2>1, <2>2, <2>3, AnswerRefines
<1>4. CASE LoseCall(e)
  <2>1. CallsStay
    BY <1>0, <1>4, CallGoesOn DEF LoseCall
  <2>2. calls[e].rev \in Nat
    BY <1>0 DEF TypeOK
  <2>3. Stored' = Stored /\ past' = past /\ service'.effects = service.effects
    BY <1>0, <1>4, <2>2, GivenUpIs DEF LoseCall, Stored
  <2> QED
    BY <2>1, <2>3, SpeaksOf
<1>5. CASE Finish(e)
  <2>1. CallsStay
    BY <1>0, <1>5, CallGoesOn DEF Finish
  <2>2. Stored' = Stored /\ past' = past /\ service'.effects = service.effects
    BY <1>5 DEF Finish, Stored
  <2> QED
    BY <2>1, <2>2, SpeaksOf
<1>6. CASE Add(e)
  <2> DEFINE entry == [id |-> lastId', rev |-> calls[e].rev, state |-> "queued"]
  <2>1. CallsStay
    BY <1>0, <1>6, CallGoesOn DEF Add, Goes
  <2>2. e \in Made /\ entry \in Entry
    BY <1>0, <1>6 DEF Add, Made, TypeOK, Entry
  <2>3. Puts(e, e, entry) /\ past' = past /\ service' = service
    BY <1>6 DEF Add
  <2> HIDE DEF entry
  <2> QED
    BY <2>1, <2>2, <2>3, StoreRefines
<1>7. CASE Added(e)
  <2>1. CallsStay
    BY <1>0, <1>7, CallGoesOn DEF Added, Goes
  <2>2. Stored' = Stored /\ service' = service /\ e \in Stored
    BY <1>7 DEF Added, Settled, Stored, IInv, Born
  <2>3. /\ past'.accepted = past.accepted \cup {e} /\ past'.dropped = past.dropped
        /\ past'.failed = past.failed /\ past'.saved = past.saved /\ past'.before = past.before
    BY <1>7 DEF Added, IInv, Frames, Past
  <2>4. Made' = Made /\ Repeatable' = Repeatable
    BY <2>1, <2>3, MadeStay
  <2>5. Promise!Keep({e})
    BY <2>2, <2>3, <2>4 DEF Promise!Keep, Made, Stored, Repeatable
  <2>6. {e} \in SUBSET Stored
    BY <2>2
  <2> QED
    BY <2>5, <2>6 DEF Promise!Next, Stored
<1>8. CASE Patch(e)
  <2>1. CASE mem[e] # NoEntry /\ Puts(e, e, mem[e])
             /\ calls' = [calls EXCEPT ![e].at = "patched", ![e].saved = mem[e]]
    <3>1. CallsStay
      BY <1>0, <1>8, <2>1, CallGoesOn DEF Patch
    <3>2. e \in Made /\ mem[e] \in Entry /\ past' = past /\ service' = service
      BY <1>0, <1>8, <2>1 DEF Patch, Made, TypeOK, Queue
    <3> QED
      BY <2>1, <3>1, <3>2, StoreRefines
  <2>2. CASE Goes(e, "over") /\ UNCHANGED store
    <3>1. CallsStay
      BY <1>0, <1>8, <2>2, CallGoesOn DEF Patch, Goes
    <3>2. Stored' = Stored /\ past' = past /\ service'.effects = service.effects
      BY <1>8, <2>2 DEF Patch, Stored
    <3> QED
      BY <3>1, <3>2, SpeaksOf
  <2> QED
    BY <1>8, <2>1, <2>2 DEF Patch
<1>9. CASE Patched(e)
  <2>1. CallsStay
    BY <1>0, <1>9, CallGoesOn DEF Patched
  <2>2. Stored' = Stored /\ past' = past /\ service'.effects = service.effects
    BY <1>9 DEF Patched, Settled, Stored
  <2> QED
    BY <2>1, <2>2, SpeaksOf
<1>10. CASE Drop(e)
  <2>1. CallsStay /\ service' = service /\ Puts(Person, e, NoEntry)
    BY <1>10, NoCallGoesOn DEF Drop
  <2>2. e \in Made
    <3>1. mem[e] \in Entry /\ IsVersion(e, mem[e])
      BY <1>0, <1>10 DEF Drop, TypeOK, Queue, IsVersion
    <3> QED
      BY <3>1, VersionsAreMade
  <2>3. /\ past'.accepted = past.accepted /\ past'.dropped = past.dropped \cup {e}
        /\ past'.failed = past.failed /\ past'.saved = past.saved /\ past'.before = past.before
    BY <1>10 DEF Drop, IInv, Frames, Past
  <2>4. Made' = Made /\ Repeatable' = Repeatable
    BY <2>1, <2>3, MadeStay
  <2>5. Stored' = Stored \ {e}
    BY <1>0, <2>1, PutsStored
  <2>6. Promise!Drop(e)
    BY <2>1, <2>2, <2>3, <2>4, <2>5 DEF Promise!Drop, Made, Stored, Repeatable
  <2> QED
    BY <2>6 DEF Promise!Next
<1>11. CASE Save(e)
    BY <1>11, SaveRefines
<1> QED
    BY <1>1, <1>2, <1>3, <1>4, <1>5, <1>6, <1>7, <1>8, <1>9, <1>10, <1>11 DEF Editing

\* A step of the replay that stores and counts nothing.
LEMMA RoundRefines ==
    ASSUME IInv, UNCHANGED <<calls, store, past>>, service'.effects = service.effects
    PROVE  [Promise!Next]_(Promise!vars)
<1>1. CallsStay /\ Stored' = Stored
    BY NoCallGoesOn DEF Stored
<1> QED
    BY <1>1, SpeaksOf

\* The edit under way was made.
LEMMA JobIsMade ==
    ASSUME IInv, job.at \notin {"idle", "next"}
    PROVE  /\ job.edit \in Edits /\ job.edit \in Made
           /\ job.entry \in Entry /\ job.entry.rev \in Nat
<1>1. job.edit \in Edits /\ job.entry \in Entry /\ IsVersion(job.edit, job.entry)
    BY DEF IInv, Frames, TypeOK, IsVersion
<1> QED
    BY <1>1, VersionsAreMade, EntryFields

LEMMA ParkRefines == IInv /\ Park => Promise!Next
<1> SUFFICES ASSUME IInv, Park PROVE Promise!Next
    OBVIOUS
<1> DEFINE state == IF job.at = "skip" THEN "failed" ELSE "held"
           parked == [job.entry EXCEPT !.state = state]
<1>1. job.at \in {"skip", "hold"} /\ UNCHANGED <<service, calls>>
    BY DEF Park
<1>2. job.edit \in Edits /\ job.edit \in Made /\ job.entry \in Entry
    BY <1>1, JobIsMade
<1>3. parked \in Entry
    BY <1>2 DEF Entry
<1>4. Puts(Replayer, job.edit, parked)
    BY DEF Park
<1> HIDE DEF parked
<1>5. CallsStay
    BY <1>1, NoCallGoesOn
<1>6. CASE job.at = "hold"
  <2>1. past' = past
    BY <1>6 DEF Park
  <2> QED
    BY <1>1, <1>2, <1>3, <1>4, <1>5, <2>1, StoreRefines
<1>7. CASE job.at = "skip"
  <2>1. past' = [past EXCEPT !.failed = past.failed \cup {job.edit}] /\ past \in Past
    BY <1>7 DEF Park, IInv, Frames
  <2>2. /\ past'.accepted = past.accepted /\ past'.dropped = past.dropped
        /\ past'.failed = past.failed \cup {job.edit} /\ past'.saved = past.saved
        /\ past'.before = past.before
    BY <2>1 DEF Past
  <2>3. Made' = Made /\ Repeatable' = Repeatable
    BY <1>5, <2>2, MadeStay
  <2>4. Stored' = Stored \cup {job.edit}
    BY <1>2, <1>3, <1>4, PutsStored, EntryFields DEF IInv
  <2>5. PICK e \in Edits : e = job.edit
    BY <1>2
  <2>6. Promise!Fail(e)
    BY <1>1, <1>2, <2>2, <2>3, <2>4, <2>5 DEF Promise!Fail, Made, Stored, Repeatable
  <2> QED
    BY <2>6 DEF Promise!Next
<1> QED
    BY <1>1, <1>6, <1>7

LEMMA DiscardRefines == IInv /\ Discard => Promise!Next
<1> SUFFICES ASSUME IInv, Discard PROVE Promise!Next
    OBVIOUS
<1>1. /\ UNCHANGED <<service, calls>> /\ Puts(Replayer, job.edit, NoEntry)
      /\ job.edit \in Edits /\ job.edit \in Made
    BY JobIsMade DEF Discard
<1>2. /\ past'.accepted = past.accepted /\ past'.dropped = past.dropped \cup {job.edit}
      /\ past'.failed = past.failed /\ past'.saved = past.saved /\ past'.before = past.before
    BY DEF Discard, IInv, Frames, Past
<1>3. Made' = Made /\ Repeatable' = Repeatable
    BY <1>1, <1>2, NoCallGoesOn, MadeStay
<1>4. Stored' = Stored \ {job.edit}
    BY <1>1, PutsStored DEF IInv
<1>5. PICK e \in Edits : e = job.edit
    BY <1>1
<1>6. Promise!Drop(e)
    BY <1>1, <1>2, <1>3, <1>4, <1>5 DEF Promise!Drop, Made, Stored, Repeatable
<1> QED
    BY <1>6 DEF Promise!Next

LEMMA RemoveRefines == IInv /\ Remove => Promise!Next
<1> SUFFICES ASSUME IInv, Remove PROVE Promise!Next
    OBVIOUS
<1>1. /\ UNCHANGED <<service, calls, past>> /\ Puts(Replayer, job.edit, NoEntry)
      /\ job.edit \in Edits /\ job.edit \in Made
    BY JobIsMade DEF Remove
<1>2. service.effects[job.edit] > 0
    BY DEF Remove, IInv, Frames, WentThrough
<1>3. Made' = Made /\ Repeatable' = Repeatable
    BY <1>1, NoCallGoesOn, MadeStay
<1>4. Stored' = Stored \ {job.edit}
    BY <1>1, PutsStored DEF IInv
<1>5. PICK e \in Edits : e = job.edit
    BY <1>1
<1>6. Promise!Clear(e)
    BY <1>1, <1>2, <1>3, <1>4, <1>5 DEF Promise!Clear, Made, Stored, Repeatable
<1> QED
    BY <1>6 DEF Promise!Next

LEMMA ReplayingRefines == IInv /\ IInv' /\ Replaying => [Promise!Next]_(Promise!vars)
<1> SUFFICES ASSUME IInv, IInv', Replaying PROVE [Promise!Next]_(Promise!vars)
    OBVIOUS
<1> USE DEF disk
<1>1. CASE \/ Replay \/ TimerFires \/ (\E e \in Edits : SendHead(e)) \/ NothingToSend
           \/ Stop \/ Adopt \/ Refuse
    BY <1>1, RoundRefines
       DEF Replay, TimerFires, SendHead, NothingToSend, Stop, Adopt, Refuse
<1>2. CASE Removed \/ (\E b \in job.behind : MapRebased(b)) \/ Parked \/ Discarded
    BY <1>2, RoundRefines DEF Removed, MapRebased, Parked, Discarded, Settled
<1>3. CASE AnswerHead
  <2>1. PICK kind \in {"ok", "conflict", "rejected"}, rev \in NoRev..(service.rev + 1) :
          job.at = "sent" /\ Answers(job.edit, job.entry.rev, [kind |-> kind, rev |-> rev])
    BY <1>3 DEF AnswerHead
  <2>2. /\ job.edit \in Edits /\ job.entry.rev \in Nat /\ Underway(job.edit, job.entry.rev)
    BY <2>1, JobIsMade DEF Underway
  <2>3. CallsStay /\ store' = store /\ past' = past
    BY <1>3, NoCallGoesOn DEF AnswerHead
  <2> QED
    BY <2>1, <2>2, <2>3, AnswerRefines
<1>4. CASE LoseHead
  <2>1. job.edit \in Edits /\ job.entry.rev \in Nat /\ GivenUp(job.edit, job.entry.rev)
    BY <1>4, JobIsMade DEF LoseHead
  <2>2. UNCHANGED <<calls, store, past>> /\ service'.effects = service.effects
    BY <1>4, <2>1, GivenUpIs DEF LoseHead, IInv
  <2> QED
    BY <2>2, RoundRefines
<1>5. ASSUME NEW b \in job.behind, PutRebased(b) PROVE Promise!Next
  <2>1. b \in [edit : Edits, entry : Entry]
    BY DEF IInv, TypeOK
  <2>2. b.edit \in Edits /\ b.entry \in Entry /\ IsVersion(b.edit, b.entry)
    BY <2>1, EntryFields DEF IsVersion
  <2>3. b.edit \in Made
    BY <2>2, VersionsAreMade
  <2>4. Puts(Replayer, b.edit, b.entry) /\ CallsStay /\ past' = past /\ service' = service
    BY <1>5, NoCallGoesOn DEF PutRebased
  <2> QED
    BY <2>2, <2>3, <2>4, StoreRefines
<1> QED
    BY <1>1, <1>2, <1>3, <1>4, <1>5, ParkRefines, DiscardRefines, RemoveRefines DEF Replaying

\* The page is closed and opened again: what is stored is taken on.
LEMMA CloseRefines == IInv /\ Close => Promise!Next
<1> SUFFICES ASSUME IInv, Close PROVE Promise!Next
    OBVIOUS
<1>0. past \in Past
    BY DEF IInv, Frames
<1>1. UNCHANGED <<service, store>>
    BY DEF Close
<1>9. past' = [past EXCEPT !.accepted = past.accepted \cup Stored]
    BY DEF Close, Stored
<1>2. /\ past'.accepted = past.accepted \cup Stored /\ past'.dropped = past.dropped
      /\ past'.failed = past.failed /\ past'.saved = past.saved /\ past'.before = past.before
    BY <1>0, <1>9 DEF Past
<1>3. CallsStay
    BY DEF Close, CallsStay, At, NoCall
<1>4. Made' = Made /\ Repeatable' = Repeatable /\ Stored' = Stored
    BY <1>1, <1>2, <1>3, MadeStay DEF Stored
<1>5. Promise!Keep(Stored)
    BY <1>1, <1>2, <1>4 DEF Promise!Keep, Made, Stored, Repeatable
<1> QED
    BY <1>5 DEF Promise!Next, Stored

LEMMA StepRefines == IInv /\ IInv' /\ [Next]_vars => [Promise!Next]_(Promise!vars)
<1> SUFFICES ASSUME IInv, IInv', [Next]_vars PROVE [Promise!Next]_(Promise!vars)
    OBVIOUS
<1> USE DEF disk, page
<1>1. CASE OtherWrites
  <2>1. UNCHANGED <<calls, store, past>> /\ service'.effects = service.effects
    BY <1>1 DEF OtherWrites, IInv, TypeOK
  <2> QED
    BY <2>1, RoundRefines
<1>2. CASE Done \/ Read \/ UNCHANGED vars
  <2>1. UNCHANGED <<calls, store, past, service>>
    BY <1>2 DEF Done, Settled, Read, vars
  <2> QED
    BY <2>1, RoundRefines
<1> QED
    BY <1>1, <1>2, LateRefines, EditingRefines, ReplayingRefines, CloseRefines DEF Next

\* The page keeps the promise of EditContract: each step of put(), post(),
\* replay() and the person is one step of it or none (data-writes.js,
\* data-queue.js).
THEOREM QueueKeepsContract == Spec => Contract
<1>1. Init => Promise!Init
    BY DEF Init, Promise!Init, At, NoCall, NoRev
<1> QED
    BY <1>1, SpecIInv, StepRefines, PTL DEF Spec, Contract, Promise!Spec
=============================================================================
