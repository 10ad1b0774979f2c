------------------------- MODULE SensorSignaturesProofs -------------------------
(***************************************************************************)
(* For any threads, conditions, windows and limits of the cache: what the  *)
(* signatures silence, and what becomes of the startup files that are      *)
(* known.  A thread that has looked a signature up and found nothing       *)
(* recent makes its finding whatever the others have entered since, so the *)
(* invariant counts the findings made together with the threads that are   *)
(* about to make one.  A file is known before it is found; what silences   *)
(* its second lookup is a finding of the first that is kept or is gone.    *)
(***************************************************************************)
EXTENDS SensorSignatures, FiniteSetTheorems, TLAPS

\* The threads that have found nothing recent of c and have not entered it yet.
Marking(c) == {t \in Threads : audit[t].at = "mark" /\ audit[t].one = c}

\* As much of the types as the argument needs.
Fields == DOMAIN Idle
MemoryInv ==
  /\ seen \in [Conditions -> Nat \cup {None}] /\ reports \in [Conditions -> Nat]
  /\ DOMAIN audit = Threads /\ \A t \in Threads : DOMAIN audit[t] = Fields
  /\ \A t \in Threads : audit[t].at \in {"prune", "pruned", "mark"} => audit[t].one \in Conditions
  /\ \A t \in Threads : audit[t].todo \subseteq Conditions

\* What is not recent has not been reported in the window that is open, and with the threads
\* that are about to report there are never more findings than threads.
ReportsInv ==
  \A c \in Conditions :
    /\ ~Recent(c) => reports[c] = 0
    /\ reports[c] + Cardinality(Marking(c)) <= Cardinality(Threads)

IInv == MemoryInv /\ ReportsInv

-----------------------------------------------------------------------------
(* Threads, and those that are about to report. *)

LEMMA ThreadsAreCounted ==
  ASSUME NEW S \in SUBSET Threads
  PROVE  /\ IsFiniteSet(S) /\ Cardinality(S) \in Nat /\ Cardinality(Threads) \in Nat
         /\ Cardinality(S) <= Cardinality(Threads)
<1>1. IsFiniteSet(Threads)
  BY SensorConstantsOK
<1> QED BY <1>1, FS_Subset, FS_CardinalityType

LEMMA OneLessMarks ==
  ASSUME NEW S \in SUBSET Threads, NEW t \in S
  PROVE  Cardinality(S \ {t}) = Cardinality(S) - 1
BY ThreadsAreCounted, FS_RemoveElement

LEMMA InitHolds == Init => IInv
<1> SUFFICES ASSUME Init PROVE IInv
  OBVIOUS
<1>1. Idle.at = "idle" /\ Idle.todo = {} /\ DOMAIN Idle = Fields
  BY DEF Idle, Fields
<1>2. MemoryInv
  BY <1>1 DEF Init, MemoryInv, NoReports
<1>3. ASSUME NEW c \in Conditions PROVE reports[c] = 0 /\ Marking(c) \in SUBSET Threads
  BY DEF Init, NoReports, Marking
<1> QED BY <1>2, <1>3, ThreadsAreCounted DEF IInv, ReportsInv

\* One condition: what a step may do to it.
LEMMA Reported ==
  ASSUME ReportsInv, MemoryInv, MemoryInv', NEW c \in Conditions,
         \/ reports'[c] = 0
         \/ /\ reports'[c] = reports[c] /\ (Recent(c)' <=> Recent(c))
            /\ Recent(c) => Marking(c)' \subseteq Marking(c)
         \/ /\ reports'[c] = reports[c] + 1 /\ Recent(c)'
            /\ \E t \in Marking(c) : Marking(c)' = Marking(c) \ {t}
  PROVE  /\ ~Recent(c)' => reports'[c] = 0
         /\ reports'[c] + Cardinality(Marking(c)') <= Cardinality(Threads)
<1>1. Marking(c) \in SUBSET Threads /\ Marking(c)' \in SUBSET Threads
  BY DEF Marking
<1> DEFINE old == Marking(c)
           new == Marking(c)'
<1> HIDE DEF old, new
<1>2. old \in SUBSET Threads /\ new \in SUBSET Threads
  BY <1>1 DEF old, new
<1>3. /\ Cardinality(old) \in Nat /\ Cardinality(new) \in Nat /\ Cardinality(Threads) \in Nat
      /\ Cardinality(new) <= Cardinality(Threads) /\ IsFiniteSet(old)
  BY <1>2, ThreadsAreCounted
<1>4. /\ reports[c] \in Nat /\ reports[c] + Cardinality(old) <= Cardinality(Threads)
      /\ ~Recent(c) => reports[c] = 0
  BY DEF ReportsInv, MemoryInv, old
<1>5. CASE reports'[c] = 0
  BY <1>3, <1>5 DEF new
<1>6. CASE /\ reports'[c] = reports[c] /\ (Recent(c)' <=> Recent(c))
           /\ Recent(c) => Marking(c)' \subseteq Marking(c)
  <2>1. CASE Recent(c)
    <3>1. Cardinality(new) <= Cardinality(old)
      BY <1>3, <1>6, <2>1, FS_Subset DEF old, new
    <3> QED BY <1>3, <1>4, <1>6, <2>1, <3>1 DEF new
  <2>2. CASE ~Recent(c)
    BY <1>3, <1>4, <1>6, <2>2 DEF new
  <2> QED BY <2>1, <2>2
<1>7. ASSUME reports'[c] = reports[c] + 1, Recent(c)', NEW t \in Marking(c), Marking(c)' = Marking(c) \ {t}
      PROVE  /\ ~Recent(c)' => reports'[c] = 0
             /\ reports'[c] + Cardinality(Marking(c)') <= Cardinality(Threads)
  <2>1. new = old \ {t} /\ t \in old
    BY <1>7 DEF old, new
  <2>2. Cardinality(new) = Cardinality(old) - 1
    BY <1>2, <2>1, OneLessMarks
  <2> QED BY <1>3, <1>4, <1>7, <2>2 DEF new
<1> QED BY <1>5, <1>6, <1>7

-----------------------------------------------------------------------------
(* The steps. *)

\* A step of one thread that does not enter a signature.
LEMMA QuietStep ==
  ASSUME IInv, UNCHANGED <<seen, reports>>, NEW t \in Threads, NEW me, Set(t, me), DOMAIN me = Fields,
         me.todo \subseteq Conditions, me.at \in {"prune", "pruned", "mark"} => me.one \in Conditions,
         me.at = "mark" => ~Recent(me.one)
  PROVE  IInv'
<1>1. MemoryInv /\ ReportsInv /\ audit' = [audit EXCEPT ![t] = me] /\ DOMAIN audit = Threads
  BY DEF IInv, Set, MemoryInv
<1>2. audit'[t] = me /\ \A o \in Threads \ {t} : audit'[o] = audit[o]
  BY <1>1
<1>3. MemoryInv'
  BY <1>1, <1>2 DEF MemoryInv
<1>4. ASSUME NEW c \in Conditions
      PROVE  reports'[c] = reports[c] /\ (Recent(c)' <=> Recent(c)) /\ (Recent(c) => Marking(c)' \subseteq Marking(c))
  BY <1>2 DEF Marking, Recent
<1> QED BY <1>1, <1>3, <1>4, Reported DEF IInv, ReportsInv

LEMMA AuditKeeps ==
  ASSUME IInv, NEW t \in Threads,
         BeginTick(t) \/ BeginManual(t) \/ Collect(t) \/ Store(t) \/ Discard(t) \/ PruneFails(t)
  PROVE  IInv'
<1> DEFINE me == audit[t]
<1>1. DOMAIN me = Fields /\ me.todo \subseteq Conditions /\ (me.at \in {"prune", "pruned", "mark"} => me.one \in Conditions)
  BY DEF IInv, MemoryInv
<1>2. Fields = {"at", "full", "plan", "todo", "one", "keys", "live", "found"}
  BY DEF Fields, Idle
<1>3. /\ DOMAIN Idle = Fields /\ Idle.todo = {} /\ Idle.at = "idle"
  BY DEF Idle, Fields
<1>4. ASSUME BeginTick(t) \/ BeginManual(t) PROVE IInv'
  <2>1. PICK full : Set(t, [Idle EXCEPT !.at = "look", !.full = full, !.plan = IF full THEN Full ELSE Fast])
    BY <1>4 DEF BeginTick, BeginManual, Begin
  <2>2. UNCHANGED <<seen, reports>>
    BY <1>4 DEF BeginTick, BeginManual, Memory, Records
  <2> DEFINE new == [Idle EXCEPT !.at = "look", !.full = full, !.plan = IF full THEN Full ELSE Fast]
  <2>3. DOMAIN new = Fields /\ new.todo = {} /\ new.at = "look"
    BY DEF Idle, Fields
  <2> HIDE DEF new
  <2> QED BY <2>1, <2>2, <2>3, QuietStep DEF new
<1>5. ASSUME Collect(t) PROVE IInv'
  <2>1. PICK todo \in SUBSET Conditions : Set(t, [me EXCEPT !.plan = Tail(@), !.todo = todo]) /\ me.at = "look"
    <3> DEFINE listed == present \cap OfKind(Head(me.plan))
               differ == Head(me.plan) = "startup" \/ (Head(me.plan) = "process" /\ ~me.full)
    <3>1. Set(t, [me EXCEPT !.plan = Tail(@), !.todo = IF differ THEN listed \ known ELSE listed]) /\ me.at = "look"
      BY <1>5 DEF Collect
    <3>2. (IF differ THEN listed \ known ELSE listed) \in SUBSET Conditions
      BY DEF OfKind
    <3> HIDE DEF differ, listed, me
    <3> QED BY <3>1, <3>2
  <2>2. UNCHANGED <<seen, reports>>
    BY <1>5 DEF Collect, Records
  <2> DEFINE new == [me EXCEPT !.plan = Tail(@), !.todo = todo]
  <2>3. DOMAIN new = Fields /\ new.todo = todo /\ new.at = "look"
    BY <1>1, <1>2, <2>1
  <2> HIDE DEF new
  <2> QED BY <2>1, <2>2, <2>3, QuietStep DEF new
<1>6. ASSUME Store(t) \/ Discard(t) PROVE IInv'
  <2>1. Set(t, Idle) /\ UNCHANGED <<seen, reports>>
    BY <1>6 DEF Store, Discard, Memory
  <2> QED BY <1>3, <2>1, QuietStep
<1>7. ASSUME PruneFails(t) PROVE IInv'
  <2>1. UNCHANGED <<seen, reports>>
    BY <1>7 DEF PruneFails, Memory
  <2> DEFINE new == [me EXCEPT !.at = "look", !.one = None, !.keys = {}, !.live = {},
                               !.todo = IF Kind[me.one] = "log" THEN {} ELSE @]
  <2>2. Set(t, Idle) \/ Set(t, new)
    BY <1>7 DEF PruneFails
  <2>3. DOMAIN new = Fields /\ new.todo \subseteq me.todo /\ new.at = "look"
    BY <1>1, <1>2
  <2> HIDE DEF new
  <2> QED BY <1>1, <1>3, <2>1, <2>2, <2>3, QuietStep
<1> QED BY <1>4, <1>5, <1>6, <1>7

LEMMA LookKeeps ==
  ASSUME IInv, NEW t \in Threads, NEW c \in Conditions, Look(t, c) \/ Prune(t, c)
  PROVE  IInv'
<1> DEFINE me == audit[t]
<1>1. DOMAIN me = Fields /\ me.todo \subseteq Conditions
  BY DEF IInv, MemoryInv
<1>2. Fields = {"at", "full", "plan", "todo", "one", "keys", "live", "found"}
  BY DEF Fields, Idle
<1>3. UNCHANGED <<seen, reports>>
  BY DEF Look, Prune, Memory, Records
<1> DEFINE looked == LookedUp(t, c)
           pruning == [me EXCEPT !.at = "prune", !.one = c, !.todo = @ \ {c}, !.keys = Keys,
                                 !.live = {d \in Conditions : Recent(d)}]
<1>4. Set(t, looked) \/ Set(t, pruning)
  BY DEF Look, Prune
<1>5. /\ DOMAIN looked = Fields /\ looked.todo \subseteq me.todo
      /\ looked.at \in {"look", "mark"} /\ (looked.at = "mark" => looked.one = c /\ ~Recent(c))
  BY <1>1, <1>2 DEF LookedUp
<1>6. DOMAIN pruning = Fields /\ pruning.todo \subseteq me.todo /\ pruning.at = "prune" /\ pruning.one = c
  BY <1>1, <1>2
<1> HIDE DEF looked, pruning
<1>7. CASE Set(t, looked)
  BY <1>1, <1>3, <1>5, <1>7, QuietStep
<1>8. CASE Set(t, pruning)
  BY <1>1, <1>3, <1>6, <1>8, QuietStep
<1> QED BY <1>4, <1>7, <1>8

\* What is lost within its window takes the count of the reports with it.
LEMMA PrunedKeeps ==
  ASSUME IInv, NEW t \in Threads, NEW kept, Pruned(t, kept)
  PROVE  IInv'
<1> DEFINE me == audit[t]
           new == [me EXCEPT !.at = "pruned", !.keys = {}, !.live = {}]
<1>1. MemoryInv /\ ReportsInv /\ DOMAIN audit = Threads /\ DOMAIN me = Fields
      /\ me.todo \subseteq Conditions /\ (me.at = "prune" => me.one \in Conditions)
  BY DEF IInv, MemoryInv
<1>2. /\ me.at = "prune" /\ seen' = [d \in Conditions |-> IF d \in kept THEN seen[d] ELSE None]
      /\ forgot' = (forgot \/ \E d \in Conditions \ kept : Recent(d))
      /\ reports' = IF forgot' THEN NoReports ELSE reports
      /\ audit' = [audit EXCEPT ![t] = new]
  BY DEF Pruned, Set
<1>3. DOMAIN new = Fields /\ new.at = "pruned" /\ new.todo = me.todo /\ new.one = me.one
  BY <1>1 DEF Fields, Idle
<1> HIDE DEF new
<1>4. audit'[t] = new /\ DOMAIN audit' = Threads /\ \A o \in Threads \ {t} : audit'[o] = audit[o]
  BY <1>1, <1>2
<1>5. reports' \in [Conditions -> Nat]
  BY <1>1, <1>2 DEF MemoryInv, NoReports
<1>6. seen' \in [Conditions -> Nat \cup {None}]
  BY <1>1, <1>2 DEF MemoryInv
<1>7. MemoryInv'
  BY <1>1, <1>2, <1>3, <1>4, <1>5, <1>6 DEF MemoryInv
<1>8. ASSUME NEW c \in Conditions
      PROVE  \/ reports'[c] = 0
             \/ /\ reports'[c] = reports[c] /\ (Recent(c)' <=> Recent(c))
                /\ Recent(c) => Marking(c)' \subseteq Marking(c)
  <2>1. Marking(c)' \subseteq Marking(c)
    BY <1>3, <1>4 DEF Marking
  <2>2. CASE forgot'
    BY <1>2, <2>2 DEF NoReports
  <2>3. CASE ~forgot'
    <3>1. reports' = reports /\ (c \in kept \/ ~Recent(c))
      BY <1>2, <2>3
    <3> QED BY <1>2, <2>1, <3>1 DEF Recent
  <2> QED BY <2>2, <2>3
<1> QED BY <1>1, <1>7, <1>8, Reported DEF IInv, ReportsInv

LEMMA MarkKeeps ==
  ASSUME IInv, NEW t \in Threads, Mark(t)
  PROVE  IInv'
<1> DEFINE me == audit[t]
           new == [me EXCEPT !.at = "look", !.one = None, !.found = @ \cup {me.one}]
<1>0. PICK one : one = me.one
  OBVIOUS
<1>1. MemoryInv /\ ReportsInv /\ DOMAIN audit = Threads /\ DOMAIN me = Fields /\ me.todo \subseteq Conditions
  BY DEF IInv, MemoryInv
<1>2. /\ me.at = "mark" /\ seen' = [seen EXCEPT ![one] = Window]
      /\ reports' = [reports EXCEPT ![one] = IF forgot THEN 0 ELSE @ + 1]
      /\ audit' = [audit EXCEPT ![t] = new]
  BY <1>0 DEF Mark, Set
<1>3. one \in Conditions
  BY <1>0, <1>2 DEF IInv, MemoryInv
<1>4. DOMAIN new = Fields /\ new.at = "look" /\ new.todo = me.todo
  BY <1>1 DEF Fields, Idle
<1> HIDE DEF new
<1>5. audit'[t] = new /\ DOMAIN audit' = Threads /\ \A o \in Threads \ {t} : audit'[o] = audit[o]
  BY <1>1, <1>2
<1>6. seen' \in [Conditions -> Nat \cup {None}] /\ reports' \in [Conditions -> Nat]
  <2>1. seen' \in [Conditions -> Nat \cup {None}]
    BY <1>1, <1>2, SensorConstantsOK DEF MemoryInv
  <2>2. \A c \in Conditions : reports[c] \in Nat /\ reports[c] + 1 \in Nat
    BY <1>1 DEF MemoryInv
  <2>3. (IF forgot THEN 0 ELSE reports[one] + 1) \in Nat /\ reports \in [Conditions -> Nat]
    BY <1>1, <1>3, <2>2 DEF MemoryInv
  <2>4. reports' \in [Conditions -> Nat]
    BY <1>2, <2>3, Zenon
  <2> QED BY <2>1, <2>4
<1>7. MemoryInv'
  BY <1>1, <1>4, <1>5, <1>6 DEF MemoryInv
<1>8. ASSUME NEW c \in Conditions, c # one
      PROVE  /\ reports'[c] = reports[c] /\ (Recent(c)' <=> Recent(c))
             /\ Recent(c) => Marking(c)' \subseteq Marking(c)
  BY <1>1, <1>2, <1>4, <1>5, <1>8 DEF Marking, Recent, MemoryInv
<1>9. /\ reports'[one] = 0 \/ reports'[one] = reports[one] + 1
      /\ t \in Marking(one) /\ Marking(one)' = Marking(one) \ {t}
  <2>1. t \in Marking(one) /\ Marking(one)' = Marking(one) \ {t}
    BY <1>0, <1>2, <1>4, <1>5 DEF Marking
  <2> QED BY <1>1, <1>2, <1>3, <2>1 DEF MemoryInv
<1>10. Recent(one)'
  BY <1>1, <1>2, <1>3, SensorConstantsOK DEF Recent, MemoryInv
<1> QED BY <1>1, <1>3, <1>7, <1>8, <1>9, <1>10, Reported DEF IInv, ReportsInv

LEMMA StepKeeps ==
  ASSUME IInv, [Next]_vars
  PROVE  IInv'
<1>1. MemoryInv /\ ReportsInv
  BY DEF IInv
<1>2. CASE UNCHANGED <<seen, reports, audit>>
  BY <1>1, <1>2 DEF IInv, MemoryInv, ReportsInv, Recent, Marking
<1>3. CASE \E c \in Conditions : Appear(c) \/ Vanish(c)
  BY <1>2, <1>3 DEF Appear, Vanish, Memory, Records
<1>4. CASE Tick \/ ClearAll
  <2>1. /\ UNCHANGED audit /\ seen' \in [Conditions -> Nat \cup {None}] /\ reports' \in [Conditions -> Nat]
        /\ \A c \in Conditions : reports'[c] = 0 \/ (reports'[c] = reports[c] /\ (Recent(c)' <=> Recent(c)))
    <3>1. CASE ClearAll
      BY <3>1 DEF ClearAll, NoReports
    <3>2. ASSUME Tick, NEW c \in Conditions
          PROVE  /\ seen'[c] \in Nat \cup {None} /\ reports'[c] \in Nat
                 /\ reports'[c] = 0 \/ (reports'[c] = reports[c] /\ (Recent(c)' <=> Recent(c)))
      <4>1. /\ seen'[c] = IF Recent(c) THEN seen[c] - 1 ELSE seen[c]
            /\ reports'[c] = IF seen'[c] = 0 THEN 0 ELSE reports[c]
        BY <3>2 DEF Tick
      <4>2. seen[c] \in Nat \cup {None} /\ reports[c] \in Nat
        BY <1>1 DEF MemoryInv
      <4>3. CASE Recent(c)
        <5>1. seen[c] \in Nat /\ seen[c] # 0 /\ seen'[c] = seen[c] - 1
          BY <4>1, <4>2, <4>3 DEF Recent
        <5>2. seen'[c] \in Nat /\ seen'[c] # None
          BY <5>1, SensorConstantsOK
        <5> QED BY <4>1, <4>2, <4>3, <5>1, <5>2 DEF Recent
      <4>4. CASE ~Recent(c)
        BY <4>1, <4>2, <4>4 DEF Recent
      <4> QED BY <4>3, <4>4
    <3>3. Tick => /\ UNCHANGED audit /\ DOMAIN seen' = Conditions /\ DOMAIN reports' = Conditions
                  /\ seen' = [c \in Conditions |-> seen'[c]] /\ reports' = [c \in Conditions |-> reports'[c]]
      BY DEF Tick
    <3> QED BY <1>4, <3>1, <3>2, <3>3
  <2>2. MemoryInv'
    BY <1>1, <2>1 DEF MemoryInv
  <2>3. \A c \in Conditions : Marking(c)' = Marking(c)
    BY <2>1 DEF Marking
  <2> QED BY <1>1, <2>1, <2>2, <2>3, Reported DEF IInv, ReportsInv
<1>5. ASSUME NEW t \in Threads, BeginTick(t) \/ BeginManual(t) \/ AuditStep(t) \/ Discard(t) PROVE IInv'
  BY <1>5, AuditKeeps, LookKeeps, PrunedKeeps, MarkKeeps DEF AuditStep
<1> QED BY <1>2, <1>3, <1>4, <1>5 DEF Next, vars

\* _is_signature_seen_recent (app/security/host_sensor.py) "suppresses rapid repeats": whatever the
\* order in which any number of threads look up, prune and enter signatures, the findings made
\* of one within its window are no more than the threads, unless it was lost or cleared.
THEOREM RepeatsSilenced == Spec => []RepeatsAreSilenced
<1>1. IInv => RepeatsAreSilenced
  <2> SUFFICES ASSUME IInv, NEW c \in Conditions PROVE reports[c] <= Cardinality(Threads)
    BY DEF RepeatsAreSilenced
  <2>1. Marking(c) \in SUBSET Threads
    BY DEF Marking
  <2>2. Cardinality(Marking(c)) \in Nat /\ Cardinality(Threads) \in Nat
    BY <2>1, ThreadsAreCounted
  <2> QED BY <2>2 DEF IInv, ReportsInv, MemoryInv
<1>2. IInv /\ [Next]_vars => IInv'
  BY StepKeeps
<1> QED BY <1>1, <1>2, InitHolds, PTL DEF Spec

-----------------------------------------------------------------------------
(* Startup files. *)

\* An audit that looks no signature up has no condition at hand, one that is over nothing at
\* all, and what there is to look up is what one collector listed.
InPlace(me) ==
  /\ me.at \in {"idle", "look"} => me.one = None
  /\ me.at = "idle" => me.todo = {} /\ me.found = {}
  /\ \A c, d \in me.todo : Kind[c] = Kind[d]
  /\ me.one # None => \A c \in me.todo : Kind[c] = Kind[me.one]

\* Where a startup file is that is known, and one whose signature silences it: the latter is not
\* looked up a second time, so that it is found already or its finding is gone.
Kept(f) == f \in stored \cup missed \/ \E t \in Threads : f \in audit[t].found
FilesInv == \A f \in Files : (Recent(f) => Kept(f)) /\ (f \in known => Awaited(f))

FileInv == /\ IInv /\ FilesInv
           /\ \A t \in Threads : InPlace(audit[t])

LEMMA FilesInit == Init => FileInv
<1> SUFFICES ASSUME Init PROVE FileInv
  OBVIOUS
<1>1. IInv
  BY InitHolds
<1>2. \A t \in Threads : InPlace(audit[t])
  BY DEF Init, InPlace, Idle
<1>3. FilesInv
  BY DEF Init, FilesInv, Recent, Awaited, Files, OfKind
<1> QED BY <1>1, <1>2, <1>3 DEF FileInv

\* The step of one thread that goes on with the audit me: what becomes known it has at hand, what
\* it enters it has found, and what it lets go of is kept, or was silenced.
LEMMA FilesStep ==
  ASSUME FileInv, NEW t \in Threads, NEW me, Set(t, me), InPlace(me),
         \A f \in Files :
           /\ Recent(f)' => Recent(f) \/ f \in me.found
           /\ f \in known' => f \in known \/ f \in me.todo
           /\ f \in stored \cup missed => f \in stored' \cup missed'
           /\ f \in audit[t].found => f \in me.found \cup stored' \cup missed'
           /\ f \in audit[t].todo \cup {audit[t].one}
                => f \in me.todo \cup {me.one} \cup me.found \cup stored' \cup missed' \/ Recent(f)
  PROVE  FilesInv' /\ \A o \in Threads : InPlace(audit[o])'
<1>1. DOMAIN audit = Threads /\ FilesInv
  BY DEF FileInv, IInv, MemoryInv
<1>2. audit'[t] = me /\ \A o \in Threads \ {t} : audit'[o] = audit[o]
  BY <1>1 DEF Set
<1>3. \A o \in Threads : InPlace(audit[o])'
  BY <1>2 DEF FileInv, InPlace
<1> SUFFICES ASSUME NEW f \in Files PROVE (Recent(f)' => Kept(f)') /\ (f \in known' => Awaited(f)')
  BY <1>3 DEF FilesInv, Files, OfKind
<1>4. Kept(f) => Kept(f)'
  <2>1. CASE f \in stored \cup missed
    BY <2>1 DEF Kept
  <2>2. ASSUME NEW o \in Threads, f \in audit[o].found PROVE Kept(f)'
    BY <1>2, <2>2 DEF Kept
  <2> QED BY <2>1, <2>2 DEF Kept
<1>5. Kept(f)' => Awaited(f)'
  BY DEF Kept, Awaited, AtHand
<1>6. Awaited(f) => Awaited(f)'
  <2>1. CASE Kept(f) \/ Recent(f)
    BY <1>1, <1>4, <1>5, <2>1 DEF FilesInv
  <2>2. ASSUME NEW o \in Threads, f \in audit[o].todo \cup {audit[o].one}, ~Recent(f) PROVE Awaited(f)'
    BY <1>2, <2>2 DEF Awaited, AtHand
  <2> QED BY <2>1, <2>2 DEF Awaited, AtHand, Kept
<1>7. Recent(f)' => Kept(f)'
  BY <1>1, <1>2, <1>4 DEF FilesInv, Kept
<1>8. f \in me.todo => Awaited(f)'
  BY <1>2 DEF Awaited, AtHand
<1> QED BY <1>1, <1>6, <1>7, <1>8 DEF FilesInv

LEMMA AuditOf ==
  ASSUME FileInv, NEW t \in Threads
  PROVE  /\ DOMAIN audit[t] = {"at", "full", "plan", "todo", "one", "keys", "live", "found"}
         /\ audit[t].todo \subseteq Conditions
         /\ audit[t].at \in {"prune", "pruned", "mark"} => audit[t].one \in Conditions
         /\ InPlace(audit[t]) /\ Files \subseteq Conditions /\ None \notin Conditions
BY SensorConstantsOK DEF FileInv, IInv, MemoryInv, Fields, Idle, Files, OfKind

\* An audit begins, lists what one collector finds, or ends.
LEMMA BeginFiles ==
  ASSUME FileInv, NEW t \in Threads, BeginTick(t) \/ BeginManual(t)
  PROVE  FilesInv' /\ \A o \in Threads : InPlace(audit[o])'
<1>1. PICK full : Set(t, [Idle EXCEPT !.at = "look", !.full = full, !.plan = IF full THEN Full ELSE Fast])
  BY DEF BeginTick, BeginManual, Begin
<1> DEFINE new == [Idle EXCEPT !.at = "look", !.full = full, !.plan = IF full THEN Full ELSE Fast]
<1>2. new.at = "look" /\ new.one = None /\ new.todo = {} /\ new.found = {}
  BY DEF Idle
<1>3. audit[t].at = "idle" /\ UNCHANGED <<seen, known, stored, missed>>
  BY DEF BeginTick, BeginManual, Memory, Records
<1>4. audit[t].todo = {} /\ audit[t].found = {} /\ audit[t].one = None
  BY <1>3, AuditOf DEF InPlace
<1> HIDE DEF new
<1>5. InPlace(new)
  BY <1>2 DEF InPlace
<1> QED BY <1>1, <1>2, <1>3, <1>4, <1>5, AuditOf, FilesStep DEF new, Recent

LEMMA CollectFiles ==
  ASSUME FileInv, NEW t \in Threads, Collect(t)
  PROVE  FilesInv' /\ \A o \in Threads : InPlace(audit[o])'
<1> DEFINE me     == audit[t]
           kind   == Head(me.plan)
           listed == present \cap OfKind(kind)
           differ == kind = "startup" \/ (kind = "process" /\ ~me.full)
           todo   == IF differ THEN listed \ known ELSE listed
           new    == [me EXCEPT !.plan = Tail(@), !.todo = todo]
<1>1. /\ me.at = "look" /\ me.todo = {} /\ Set(t, new) /\ UNCHANGED <<seen, stored, missed>>
      /\ known' = IF differ THEN (known \ OfKind(kind)) \cup listed ELSE known
  BY DEF Collect, Records
<1>2. new.at = "look" /\ new.one = me.one /\ new.todo = todo /\ new.found = me.found /\ me.one = None
  BY <1>1, AuditOf DEF InPlace
<1>3. \A c \in todo : Kind[c] = kind
  BY DEF OfKind
<1>4. \A f \in Files : f \in known' => f \in known \/ f \in todo
  BY <1>1
<1> HIDE DEF new, todo, kind
<1>5. InPlace(new)
  BY <1>1, <1>2, <1>3 DEF InPlace
<1> QED BY <1>1, <1>2, <1>4, <1>5, AuditOf, FilesStep DEF Recent

\* Its findings are stored, or are rolled back.
LEMMA EndFiles ==
  ASSUME FileInv, NEW t \in Threads, Store(t) \/ Discard(t)
  PROVE  FilesInv' /\ \A o \in Threads : InPlace(audit[o])'
<1>1. /\ audit[t].at = "look" /\ audit[t].todo = {} /\ Set(t, Idle) /\ UNCHANGED <<seen, known>>
      /\ \/ stored' = stored \cup audit[t].found /\ missed' = missed \ audit[t].found
         \/ stored' = stored /\ missed' = missed \cup ((audit[t].found \cap Files) \ stored)
  BY DEF Store, Discard, Memory
<1>2. audit[t].one = None
  BY <1>1, AuditOf DEF InPlace
<1>3. InPlace(Idle)
  BY DEF InPlace, Idle
<1> QED BY <1>1, <1>2, <1>3, AuditOf, FilesStep DEF Recent

\* The cache is pruned beneath a startup file: the audit rolls back.
LEMMA PruneFailsFiles ==
  ASSUME FileInv, NEW t \in Threads, PruneFails(t)
  PROVE  FilesInv' /\ \A o \in Threads : InPlace(audit[o])'
<1> DEFINE me  == audit[t]
           new == [me EXCEPT !.at = "look", !.one = None, !.keys = {}, !.live = {},
                             !.todo = IF Kind[me.one] = "log" THEN {} ELSE @]
<1>1. me.at = "prune" /\ UNCHANGED <<seen, known, stored>> /\ me.one \in Conditions
  BY AuditOf DEF PruneFails, Memory
<1>2. CASE /\ Kind[me.one] = "startup" /\ Set(t, Idle)
           /\ missed' = missed \cup (((me.found \cup me.todo \cup {me.one}) \cap Files) \ stored)
  <2>1. InPlace(Idle)
    BY DEF InPlace, Idle
  <2> QED BY <1>1, <1>2, <2>1, FilesStep DEF Recent
<1>3. CASE Kind[me.one] # "startup" /\ Set(t, new) /\ missed' = missed
  <2>1. /\ new.at = "look" /\ new.one = None /\ new.found = me.found
        /\ new.todo = IF Kind[me.one] = "log" THEN {} ELSE me.todo
    BY AuditOf
  <2> HIDE DEF new
  <2>2. InPlace(new)
    BY <2>1, AuditOf DEF InPlace
  <2>3. \A f \in Files : f # me.one /\ (f \in me.todo => Kind[me.one] = "startup")
    BY <1>1, <1>3, AuditOf DEF Files, OfKind, InPlace
  <2> QED BY <1>1, <1>3, <2>1, <2>2, <2>3, FilesStep DEF Recent
<1> QED BY <1>1, <1>2, <1>3 DEF PruneFails

\* A signature is looked up, the cache is pruned for it, and it is entered.
LEMMA LookFiles ==
  ASSUME FileInv, NEW t \in Threads, NEW c \in Conditions, Look(t, c) \/ Prune(t, c)
  PROVE  FilesInv' /\ \A o \in Threads : InPlace(audit[o])'
<1> DEFINE me == audit[t]
           looked  == LookedUp(t, c)
           pruning == [me EXCEPT !.at = "prune", !.one = c, !.todo = @ \ {c}, !.keys = Keys,
                                 !.live = {d \in Conditions : Recent(d)}]
<1>1. UNCHANGED <<seen, known, stored, missed>>
  BY DEF Look, Prune, Memory, Records
<1>2. (me.at = "look" /\ c \in me.todo /\ me.one = None) \/ (me.at = "pruned" /\ c = me.one)
  BY AuditOf DEF Look, Prune, InPlace
<1>3. \A d \in me.todo : Kind[d] = Kind[c]
  BY <1>2, AuditOf DEF InPlace
<1>4. /\ looked.todo = me.todo \ {c} /\ looked.found = me.found
      /\ \/ looked.at = "mark" /\ looked.one = c
         \/ looked.at = "look" /\ looked.one = None /\ Recent(c)
  BY AuditOf DEF LookedUp
<1>5. pruning.at = "prune" /\ pruning.one = c /\ pruning.todo = me.todo \ {c} /\ pruning.found = me.found
  BY AuditOf
<1>6. Set(t, looked) \/ Set(t, pruning)
  BY DEF Look, Prune
<1> HIDE DEF looked, pruning
<1>7. InPlace(looked) /\ InPlace(pruning)
  BY <1>3, <1>4, <1>5, AuditOf DEF InPlace
<1>8. \A f \in Files : f \in me.todo \cup {me.one} => f \in me.todo \ {c} \/ f = c
  BY <1>2, AuditOf
<1>9. CASE Set(t, looked)
  BY <1>1, <1>4, <1>7, <1>8, <1>9, FilesStep DEF Recent
<1>10. CASE Set(t, pruning)
  BY <1>1, <1>5, <1>7, <1>8, <1>10, FilesStep DEF Recent
<1> QED BY <1>6, <1>9, <1>10

LEMMA PrunedFiles ==
  ASSUME FileInv, NEW t \in Threads, NEW kept, Pruned(t, kept)
  PROVE  FilesInv' /\ \A o \in Threads : InPlace(audit[o])'
<1> DEFINE me  == audit[t]
           new == [me EXCEPT !.at = "pruned", !.keys = {}, !.live = {}]
<1>1. /\ me.at = "prune" /\ Set(t, new) /\ UNCHANGED <<known, stored, missed>>
      /\ seen' = [d \in Conditions |-> IF d \in kept THEN seen[d] ELSE None]
  BY DEF Pruned
<1>2. new.at = "pruned" /\ new.one = me.one /\ new.todo = me.todo /\ new.found = me.found
  BY AuditOf
<1>3. \A f \in Files : Recent(f)' => Recent(f)
  BY <1>1, AuditOf DEF Recent
<1> HIDE DEF new
<1>4. InPlace(new)
  BY <1>2, AuditOf DEF InPlace
<1> QED BY <1>1, <1>2, <1>3, <1>4, FilesStep

LEMMA MarkFiles ==
  ASSUME FileInv, NEW t \in Threads, Mark(t)
  PROVE  FilesInv' /\ \A o \in Threads : InPlace(audit[o])'
<1> DEFINE me  == audit[t]
           new == [me EXCEPT !.at = "look", !.one = None, !.found = @ \cup {me.one}]
<1>1. /\ me.at = "mark" /\ Set(t, new) /\ UNCHANGED <<known, stored, missed>>
      /\ seen' = [seen EXCEPT ![me.one] = Window]
  BY DEF Mark
<1>2. new.at = "look" /\ new.one = None /\ new.todo = me.todo /\ new.found = me.found \cup {me.one}
  BY AuditOf
<1>3. DOMAIN seen = Conditions
  BY DEF FileInv, IInv, MemoryInv
<1>4. \A f \in Files : Recent(f)' => Recent(f) \/ f = me.one
  BY <1>1, <1>3, AuditOf DEF Recent
<1> HIDE DEF new
<1>5. InPlace(new)
  BY <1>2, AuditOf DEF InPlace
<1> QED BY <1>1, <1>2, <1>4, <1>5, FilesStep

\* What happens on the host: a known file that comes back unsilenced is not found again.
LEMMA HostFiles ==
  ASSUME FileInv, UNCHANGED audit, (\E c \in Conditions : Appear(c) \/ Vanish(c)) \/ Tick \/ ClearAll
  PROVE  FilesInv'
<1> SUFFICES ASSUME NEW f \in Files PROVE (Recent(f)' => Kept(f)') /\ (f \in known' => Awaited(f)')
  BY DEF FilesInv, Files, OfKind
<1>1. f \in Conditions /\ Kind[f] = "startup" /\ (Recent(f) => Kept(f)) /\ (f \in known => Awaited(f))
  BY DEF Files, OfKind, FileInv, FilesInv
<1>2. \A t \in Threads : AtHand(t)' = AtHand(t) /\ audit'[t] = audit[t]
  BY DEF AtHand
<1>3. CASE \E c \in Conditions : Appear(c) \/ Vanish(c)
  <2>1. PICK c \in Conditions : Appear(c) \/ Vanish(c)
    BY <1>3
  <2>2. UNCHANGED <<seen, known>> /\ (Recent(f)' <=> Recent(f))
    BY <2>1 DEF Appear, Vanish, Memory, Recent
  <2>3. CASE f \in stored \cup missed => f \in stored' \cup missed'
    BY <1>1, <1>2, <2>2, <2>3 DEF Kept, Awaited
  <2>4. CASE f \in stored \cup missed /\ f \notin stored' \cup missed'
    <3>1. Appear(c) /\ c = f /\ ~Recent(f) /\ f \notin known
      BY <1>1, <2>1, <2>4 DEF Appear, Vanish, Records
    <3> QED BY <2>2, <3>1
  <2> QED BY <2>3, <2>4
<1>4. CASE Tick
  <2>1. UNCHANGED <<known, stored, missed>> /\ (Recent(f)' => Recent(f))
    BY <1>1, <1>4 DEF Tick, Recent
  <2> QED BY <1>1, <1>2, <2>1 DEF Kept, Awaited
<1>5. CASE ClearAll
  <2>1. ~Recent(f)' /\ (f \in stored \cup missed => f \in missed') /\ known' = known
    BY <1>1, <1>5 DEF ClearAll, Recent
  <2> QED BY <1>1, <1>2, <2>1 DEF Kept, Awaited
<1> QED BY <1>3, <1>4, <1>5

LEMMA StepFiles ==
  ASSUME FileInv, [Next]_vars
  PROVE  FileInv'
<1>1. IInv'
  BY StepKeeps DEF FileInv
<1>2. CASE UNCHANGED vars
  BY <1>1, <1>2 DEF FileInv, FilesInv, InPlace, Recent, Kept, Awaited, AtHand, vars
<1>3. CASE (\E c \in Conditions : Appear(c) \/ Vanish(c)) \/ Tick \/ ClearAll
  <2>1. UNCHANGED audit
    BY <1>3 DEF Appear, Vanish, Tick, ClearAll
  <2>2. \A t \in Threads : InPlace(audit[t])'
    BY <2>1 DEF FileInv, InPlace
  <2> QED BY <1>1, <1>3, <2>1, <2>2, HostFiles DEF FileInv
<1>4. ASSUME NEW t \in Threads, BeginTick(t) \/ BeginManual(t) \/ AuditStep(t) \/ Discard(t)
      PROVE  FilesInv' /\ \A o \in Threads : InPlace(audit[o])'
  <2>1. CASE BeginTick(t) \/ BeginManual(t)
    BY <2>1, BeginFiles
  <2>2. CASE Store(t) \/ Discard(t)
    BY <2>2, EndFiles
  <2>3. CASE Collect(t) \/ PruneFails(t) \/ Mark(t)
    BY <2>3, CollectFiles, PruneFailsFiles, MarkFiles
  <2>4. CASE \E c \in Conditions : Look(t, c) \/ Prune(t, c)
    BY <2>4, LookFiles
  <2>5. CASE \E kept \in SUBSET Conditions : Pruned(t, kept)
    BY <2>5, PrunedFiles
  <2> QED BY <1>4, <2>1, <2>2, <2>3, <2>4, <2>5 DEF AuditStep
<1> QED BY <1>1, <1>2, <1>3, <1>4 DEF Next, FileInv

\* audit_startup_folder (app/security/host_sensor.py) takes a file for known once it has listed it,
\* before anything of it is stored: however the audits of any number of threads and the cache
\* interleave, a file is lost only to a roll-back, to clear_all_alerts or to being known before.
THEOREM KnownFilesHeld == Spec => []KnownFilesAreAccountedFor
<1>1. FileInv => KnownFilesAreAccountedFor
  BY DEF FileInv, FilesInv, KnownFilesAreAccountedFor
<1>2. FileInv /\ [Next]_vars => FileInv'
  BY StepFiles
<1> QED BY <1>1, <1>2, FilesInit, PTL DEF Spec

-----------------------------------------------------------------------------
(* Types. *)

LEMMA PlansAreKinds == Fast \in Seq(Kinds) /\ Full \in Seq(Kinds)
<1>1. ASSUME NEW k \in Kinds PROVE Sought(k) \in Seq(Kinds)
  BY DEF Sought
<1>2. \A r, s \in Seq(Kinds) : r \o s \in Seq(Kinds)
  OBVIOUS
<1>3. Fast \in Seq(Kinds)
  BY <1>1, <1>2 DEF Fast, Kinds
<1> QED BY <1>1, <1>2, <1>3 DEF Full, Kinds

\* A plan and what is left of it.
LEMMA SuffixesOf ==
  ASSUME NEW p \in Seq(Kinds)
  PROVE  /\ p \in Suffixes(p) /\ <<>> \in Suffixes(p)
         /\ \A s \in Suffixes(p) : s # <<>> => Tail(s) \in Suffixes(p)
<1>1. p \in Suffixes(p)
  <2>1. SubSeq(p, 1, Len(p)) = p /\ 1 \in 1..(Len(p) + 1)
    OBVIOUS
  <2> QED BY <2>1 DEF Suffixes
<1>2. <<>> \in Suffixes(p)
  <2>1. SubSeq(p, Len(p) + 1, Len(p)) = <<>> /\ Len(p) + 1 \in 1..(Len(p) + 1)
    OBVIOUS
  <2> QED BY <2>1 DEF Suffixes
<1>3. ASSUME NEW s \in Suffixes(p), s # <<>> PROVE Tail(s) \in Suffixes(p)
  <2>1. PICK n \in 1..(Len(p) + 1) : s = SubSeq(p, n, Len(p))
    BY DEF Suffixes
  <2>2. n <= Len(p)
    BY <1>3, <2>1
  <2>3. Tail(s) = SubSeq(p, n + 1, Len(p)) /\ n + 1 \in 1..(Len(p) + 1)
    BY <2>1, <2>2
  <2> QED BY <2>3 DEF Suffixes
<1> QED BY <1>1, <1>2, <1>3

LEMMA IdleIsAudit == Idle \in Audit
BY SuffixesOf, PlansAreKinds DEF Audit, Idle

TypeInv == SensorTypeOK /\ IInv

LEMMA TypesInit == Init => TypeInv
<1> SUFFICES ASSUME Init PROVE TypeInv
  OBVIOUS
<1>1. IInv
  BY InitHolds
<1>2. 0 \in 0..(FullEvery - 1) /\ 0 \in 0..MaxEvents
  BY SensorConstantsOK
<1>3. SensorTypeOK
  BY <1>2, IdleIsAudit DEF Init, SensorTypeOK, NoReports, Files, OfKind
<1> QED BY <1>1, <1>3 DEF TypeInv

\* A step of one thread in its types.
LEMMA TypesStep ==
  ASSUME TypeInv, NEW t \in Threads, AuditStep(t) \/ BeginTick(t) \/ BeginManual(t) \/ Discard(t)
  PROVE  audit' \in [Threads -> Audit]
<1> DEFINE me == audit[t]
<1>1. audit \in [Threads -> Audit] /\ me \in Audit /\ Idle \in Audit
  BY IdleIsAudit DEF TypeInv, SensorTypeOK
<1>2. me.at \in {"prune", "pruned", "mark"} => me.one \in Conditions
  BY DEF TypeInv, IInv, MemoryInv
<1>3. ASSUME NEW new \in Audit, Set(t, new) PROVE audit' \in [Threads -> Audit]
  BY <1>1, <1>3 DEF Set
<1>4. CASE BeginTick(t) \/ BeginManual(t)
  <2>1. PICK full \in BOOLEAN :
          Set(t, [Idle EXCEPT !.at = "look", !.full = full, !.plan = IF full THEN Full ELSE Fast])
    BY <1>4 DEF BeginTick, BeginManual, Begin
  <2>2. (IF full THEN Full ELSE Fast) \in Suffixes(Fast) \cup Suffixes(Full)
    BY SuffixesOf, PlansAreKinds
  <2>3. [Idle EXCEPT !.at = "look", !.full = full, !.plan = IF full THEN Full ELSE Fast] \in Audit
    BY <1>1, <2>2 DEF Audit
  <2> QED BY <1>3, <2>1, <2>3
<1>5. CASE Collect(t)
  <2> DEFINE listed == present \cap OfKind(Head(me.plan))
             differ == Head(me.plan) = "startup" \/ (Head(me.plan) = "process" /\ ~me.full)
             todo   == IF differ THEN listed \ known ELSE listed
             new    == [me EXCEPT !.plan = Tail(@), !.todo = todo]
  <2>1. Set(t, new) /\ me.plan # <<>>
    BY <1>5 DEF Collect
  <2>2. me.plan \in Suffixes(Fast) \cup Suffixes(Full)
    BY <1>1 DEF Audit
  <2>3. Tail(me.plan) \in Suffixes(Fast) \cup Suffixes(Full)
    BY <2>1, <2>2, SuffixesOf, PlansAreKinds
  <2>4. todo \in SUBSET Conditions
    BY DEF OfKind
  <2> HIDE DEF todo
  <2>5. new \in Audit
    BY <1>1, <2>3, <2>4 DEF Audit
  <2> QED BY <1>3, <2>1, <2>5
<1>6. CASE Store(t) \/ Discard(t)
  BY <1>1, <1>3, <1>6 DEF Store, Discard
<1>7. CASE PruneFails(t)
  <2> DEFINE new == [me EXCEPT !.at = "look", !.one = None, !.keys = {}, !.live = {},
                               !.todo = IF Kind[me.one] = "log" THEN {} ELSE @]
  <2>1. Set(t, Idle) \/ Set(t, new)
    BY <1>7 DEF PruneFails
  <2>2. new \in Audit
    BY <1>1 DEF Audit
  <2> QED BY <1>1, <1>3, <2>1, <2>2
<1>8. CASE Mark(t)
  <2>1. [me EXCEPT !.at = "look", !.one = None, !.found = @ \cup {me.one}] \in Audit
    BY <1>1, <1>2, <1>8 DEF Audit, Mark
  <2> QED BY <1>3, <1>8, <2>1 DEF Mark
<1>9. ASSUME NEW c \in Conditions, Look(t, c) \/ Prune(t, c) PROVE audit' \in [Threads -> Audit]
  <2>1. LookedUp(t, c) \in Audit
    BY <1>1 DEF LookedUp, Audit
  <2>2. [me EXCEPT !.at = "prune", !.one = c, !.todo = @ \ {c}, !.keys = Keys,
                   !.live = {d \in Conditions : Recent(d)}] \in Audit
    BY <1>1 DEF Audit, Keys
  <2> QED BY <1>3, <1>9, <2>1, <2>2 DEF Look, Prune
<1>10. ASSUME NEW kept, Pruned(t, kept) PROVE audit' \in [Threads -> Audit]
  <2>1. [me EXCEPT !.at = "pruned", !.keys = {}, !.live = {}] \in Audit
    BY <1>1 DEF Audit
  <2> QED BY <1>3, <1>10, <2>1 DEF Pruned
<1> QED BY <1>4, <1>5, <1>6, <1>7, <1>8, <1>9, <1>10 DEF AuditStep

\* The rest of the memory and of the records.
LEMMA TypesOfRest ==
  ASSUME TypeInv, [Next]_vars
  PROVE  /\ present' \subseteq Conditions /\ known' \subseteq Conditions /\ stored' \subseteq Conditions
         /\ missed' \subseteq Conditions /\ seen' \in [Conditions -> 0..Window \cup {None}]
         /\ tick' \in 0..(FullEvery - 1) /\ forgot' \in BOOLEAN /\ events' \in 0..MaxEvents
<1>1. /\ present \subseteq Conditions /\ known \subseteq Conditions /\ stored \subseteq Conditions
      /\ missed \subseteq Conditions /\ seen \in [Conditions -> 0..Window \cup {None}]
      /\ tick \in 0..(FullEvery - 1) /\ forgot \in BOOLEAN /\ events \in 0..MaxEvents
      /\ audit \in [Threads -> Audit]
  BY DEF TypeInv, SensorTypeOK
<1>2. Files \subseteq Conditions /\ \A k : OfKind(k) \subseteq Conditions
  BY DEF Files, OfKind
<1>3. \A t \in Threads : audit[t].found \subseteq Conditions
  BY <1>1 DEF Audit
<1>4. CASE UNCHANGED vars
  BY <1>1, <1>4 DEF vars
<1>5. CASE \E c \in Conditions : Appear(c) \/ Vanish(c)
  <2>1. /\ UNCHANGED <<known, seen, tick, forgot>>
        /\ events' \in {events, events + 1} /\ (events' # events => events < MaxEvents)
    BY <1>5 DEF Appear, Vanish, Memory
  <2>2. present' \subseteq Conditions /\ stored' \subseteq Conditions /\ missed' \subseteq Conditions
    BY <1>1, <1>5 DEF Appear, Vanish, Records
  <2> QED BY <1>1, <2>1, <2>2, SensorConstantsOK
<1>6. CASE Tick
  <2>1. ASSUME NEW c \in Conditions PROVE (IF Recent(c) THEN seen[c] - 1 ELSE seen[c]) \in 0..Window \cup {None}
    BY <1>1, SensorConstantsOK DEF Recent
  <2>2. seen' \in [Conditions -> 0..Window \cup {None}]
    BY <1>6, <2>1 DEF Tick
  <2> QED BY <1>1, <1>6, <2>2 DEF Tick, Host
<1>7. CASE ClearAll
  <2>1. events' = events + 1 /\ events < MaxEvents
    BY <1>7 DEF ClearAll
  <2> QED BY <1>1, <1>7, <2>1, SensorConstantsOK DEF ClearAll
<1>8. ASSUME NEW t \in Threads, BeginTick(t) \/ BeginManual(t)
      PROVE  UNCHANGED <<present, known, stored, missed, seen, forgot, events>> /\ tick' \in 0..(FullEvery - 1)
  <2>1. UNCHANGED <<present, known, stored, missed, seen, forgot, events>>
    BY <1>8 DEF BeginTick, BeginManual, Host, Memory, Records
  <2>2. tick' = tick \/ tick' = (tick + 1) % FullEvery
    BY <1>8 DEF BeginTick, BeginManual
  <2>3. (tick + 1) % FullEvery \in 0..(FullEvery - 1)
    BY <1>1, SensorConstantsOK
  <2> QED BY <1>1, <2>1, <2>2, <2>3
<1>9. ASSUME NEW t \in Threads, Discard(t)
      PROVE  /\ UNCHANGED <<present, known, stored, seen, tick, forgot>>
             /\ missed' \subseteq Conditions /\ events' \in 0..MaxEvents
  <2>1. events' = events + 1 /\ events < MaxEvents
    BY <1>9 DEF Discard
  <2> QED BY <1>1, <1>2, <1>9, <2>1, SensorConstantsOK DEF Discard, Memory
<1>10. ASSUME NEW t \in Threads, AuditStep(t)
       PROVE  /\ UNCHANGED <<present, events, tick>> /\ known' \subseteq Conditions /\ stored' \subseteq Conditions
              /\ missed' \subseteq Conditions /\ forgot' \in BOOLEAN
              /\ seen' \in [Conditions -> 0..Window \cup {None}]
  <2>1. CASE Collect(t)
    BY <1>1, <1>2, <2>1 DEF Collect, Host, Records
  <2>2. CASE Store(t) \/ PruneFails(t)
    BY <1>1, <1>2, <1>3, <2>2 DEF Store, PruneFails, Host, Memory
  <2>3. CASE Mark(t)
    <3>1. UNCHANGED <<present, events, tick, known, forgot, stored, missed>>
      BY <2>3 DEF Mark, Host
    <3>2. seen' = [seen EXCEPT ![audit[t].one] = Window] /\ Window \in 0..Window
      BY <2>3, SensorConstantsOK DEF Mark
    <3>3. seen' \in [Conditions -> 0..Window \cup {None}]
      BY <1>1, <3>2
    <3> QED BY <1>1, <3>1, <3>3
  <2>4. CASE \E c \in Conditions : Look(t, c) \/ Prune(t, c)
    BY <1>1, <2>4 DEF Look, Prune, Host, Memory, Records
  <2>5. CASE \E kept \in SUBSET Conditions : Pruned(t, kept)
    BY <1>1, <2>5 DEF Pruned, Host
  <2> QED BY <1>10, <2>1, <2>2, <2>3, <2>4, <2>5 DEF AuditStep
<1> QED BY <1>1, <1>4, <1>5, <1>6, <1>7, <1>8, <1>9, <1>10 DEF Next

\* What HostSecuritySensor remembers, and how far each audit of it has come, are what they are
\* said to be: a window is never longer than it was opened, a plan is always what is left of one.
THEOREM SensorTypes == Spec => []SensorTypeOK
<1>1. TypeInv => SensorTypeOK
  BY DEF TypeInv
<1>2. TypeInv /\ [Next]_vars => TypeInv'
  <2> SUFFICES ASSUME TypeInv, [Next]_vars PROVE TypeInv'
    OBVIOUS
  <2>1. IInv'
    BY StepKeeps DEF TypeInv
  <2>2. audit' \in [Threads -> Audit]
    <3>1. audit' = audit => audit' \in [Threads -> Audit]
      BY DEF TypeInv, SensorTypeOK
    <3> QED BY <3>1, TypesStep DEF Next, vars, Appear, Vanish, Tick, ClearAll
  <2>3. reports' \in [Conditions -> Nat]
    BY <2>1 DEF IInv, MemoryInv
  <2> QED BY <2>1, <2>2, <2>3, TypesOfRest DEF TypeInv, SensorTypeOK
<1> QED BY <1>1, <1>2, TypesInit, PTL DEF Spec
=============================================================================
