---------------------------- MODULE SensorSignatures ----------------------------
(***************************************************************************)
(* What HostSecuritySensor (app/security/host_sensor.py) remembers of what *)
(* it has reported: seen_signatures, known_pids and known_startup_files.   *)
(* Audits of the monitor loop and of requests run in threads and read and  *)
(* write the three without a lock, before their findings are committed;    *)
(* an audit that is cancelled rolls its findings back and leaves the three *)
(* as they are.                                                            *)
(*                                                                         *)
(* A condition is something on the host for which a collector makes one    *)
(* finding under one signature.  Time is what remains of each signature's  *)
(* window, in ticks of the model.                                          *)
(***************************************************************************)
EXTENDS Naturals, Sequences, FiniteSets

CONSTANTS
  Automatic,      \* threads of the monitor loop
  Manual,         \* threads of requests
  Conditions,     \* what may be found on the host
  Kind,           \* of each condition: the collector that finds it
  Window,         \* DEDUP_WINDOW_SECONDS
  CacheLimit,     \* the size at which seen_signatures is pruned: 3000
  FullEvery,      \* a full audit every so many ticks of the loop: 10
  MaxEvents,      \* conditions that appear, records that are cleared, audits that are
                  \* cancelled or fail (bound of the model)
  None            \* Python's None

Threads == Automatic \cup Manual
Kinds   == {"process", "listener", "startup", "firewall", "log"}

ASSUME SensorConstantsOK ==
  /\ IsFiniteSet(Conditions) /\ IsFiniteSet(Threads) /\ Automatic \cap Manual = {}
  /\ Kind \in [Conditions -> Kinds]
  /\ Window \in Nat \ {0} /\ CacheLimit \in Nat
  /\ FullEvery \in Nat \ {0} /\ MaxEvents \in Nat
  /\ None \notin Conditions \cup Nat

VARIABLES
  present,        \* the conditions that are there
  seen,           \* seen_signatures: what remains of each one's window, None if not in the cache
  known,          \* known_pids and known_startup_files
  tick,           \* the monitor loop's ticks until the next full audit
  audit,          \* how far the audit of each thread has come
  stored,         \* the conditions that are in the database since they appeared
  missed,         \* history: the startup files whose finding was rolled back or deleted, and
                  \* those that are taken for known ones
  reports,        \* history: the findings made of each condition since its window opened,
                  \* until a signature is lost
  forgot,         \* history: has a signature been lost within its window?
  events

vars == <<present, seen, known, tick, audit, stored, missed, reports, forgot, events>>

OfKind(k) == {c \in Conditions : Kind[c] = k}
NoReports == [c \in Conditions |-> 0]
Files     == OfKind("startup")

\* New processes and startup files are told from known ones.
Differential == {"process", "startup"}

\* The collectors of run_fast_audit and of run_full_audit, in order; those that can find
\* nothing in the instance are left out.
Sought(k) == IF OfKind(k) # {} THEN <<k>> ELSE <<>>
Fast  == Sought("process") \o Sought("listener") \o Sought("startup")
Full  == Fast \o Sought("firewall") \o Sought("log")

Suffixes(plan) == {SubSeq(plan, n, Len(plan)) : n \in 1..(Len(plan) + 1)}

\* At "look" an audit takes one condition after another and then runs the collector Head(plan),
\* at "prune" it is copying the cache, which had these keys and recent
\* entries, at "mark" it has looked one up and found nothing recent.
Audit == [at : {"idle", "look", "prune", "pruned", "mark"},
          full : BOOLEAN, plan : Suffixes(Fast) \cup Suffixes(Full),
          todo : SUBSET Conditions, one : Conditions \cup {None},
          keys : SUBSET Conditions, live : SUBSET Conditions, found : SUBSET Conditions]

Idle == [at |-> "idle", full |-> FALSE, plan |-> <<>>, todo |-> {}, one |-> None,
         keys |-> {}, live |-> {}, found |-> {}]

SensorTypeOK ==
  /\ present \subseteq Conditions
  /\ seen \in [Conditions -> 0..Window \cup {None}]
  /\ known \subseteq Conditions
  /\ tick \in 0..(FullEvery - 1)
  /\ audit \in [Threads -> Audit]
  /\ stored \subseteq Conditions /\ missed \subseteq Conditions
  /\ reports \in [Conditions -> Nat]
  /\ forgot \in BOOLEAN
  /\ events \in 0..MaxEvents

\* The sensor is created: the processes and startup files that are there are known.
Init ==
  /\ present \in SUBSET Conditions
  /\ seen = [c \in Conditions |-> None]
  /\ known = {c \in present : Kind[c] \in Differential}
  /\ tick = 0
  /\ audit = [t \in Threads |-> Idle]
  /\ stored = {}
  /\ missed = present \cap Files
  /\ reports = NoReports
  /\ forgot = FALSE
  /\ events = 0

-----------------------------------------------------------------------------
(* The host, and the clock. *)

Host    == <<present, events>>
Memory  == <<seen, known, forgot>>
Records == <<stored, missed, reports>>

Recent(c) == seen[c] \notin {None, 0}
Keys      == {c \in Conditions : seen[c] # None}

\* A process starts, a port opens, a file is missed, an event is logged.  A condition that
\* comes back within the window is the one that was reported.
Appear(c) ==
  /\ c \notin present /\ events < MaxEvents
  /\ present' = present \cup {c}
  /\ events' = events + 1
  /\ IF Recent(c) THEN UNCHANGED <<stored, missed>>
     ELSE /\ stored' = stored \ {c}
          /\ missed' = IF Kind[c] = "startup" /\ c \in known THEN missed \cup {c} ELSE missed \ {c}
  /\ UNCHANGED <<Memory, tick, audit, reports>>

Vanish(c) ==
  /\ c \in present
  /\ present' = present \ {c}
  /\ UNCHANGED <<events, Memory, tick, audit, Records>>

\* Windows close.
Tick ==
  /\ seen' = [c \in Conditions |-> IF Recent(c) THEN seen[c] - 1 ELSE seen[c]]
  /\ reports' = [c \in Conditions |-> IF seen'[c] = 0 THEN 0 ELSE reports[c]]
  /\ UNCHANGED <<Host, known, forgot, tick, audit, stored, missed>>

-----------------------------------------------------------------------------
(* Audits. *)

Set(t, rec) == audit' = [audit EXCEPT ![t] = rec]

Begin(t, full) ==
  Set(t, [Idle EXCEPT !.at = "look", !.full = full, !.plan = IF full THEN Full ELSE Fast])

\* A tick of real_host_monitor_loop: a full audit first and every FullEvery ticks.
BeginTick(t) ==
  /\ t \in Automatic
  /\ \A a \in Automatic : audit[a].at = "idle"
  /\ Begin(t, tick = 0)
  /\ tick' = (tick + 1) % FullEvery
  /\ UNCHANGED <<Host, Memory, Records>>

\* trigger_host_security_audit.
BeginManual(t) ==
  /\ t \in Manual /\ audit[t].at = "idle"
  /\ Begin(t, TRUE)
  /\ UNCHANGED <<Host, Memory, tick, Records>>

\* Mutant: what is there is known before it is compared.
CollectKnown(t) ==
  LET me     == audit[t]
      listed == present \cap OfKind(Head(me.plan))
      differ == Head(me.plan) \in Differential
  IN /\ me.at = "look" /\ me.todo = {} /\ me.plan # <<>>
     /\ Set(t, [me EXCEPT !.plan = Tail(@), !.todo = IF differ THEN {} ELSE listed])
     /\ known' = IF differ THEN (known \ OfKind(Head(me.plan))) \cup listed ELSE known
     /\ UNCHANGED <<Host, seen, forgot, tick, Records>>

\* A collector is done, and the next one asks the system what there is.  Of processes and
\* startup files only what was not known is looked at, and what is there becomes known.
Collect(t) ==
  LET me     == audit[t]
      listed == present \cap OfKind(Head(me.plan))
      differ == Head(me.plan) = "startup" \/ (Head(me.plan) = "process" /\ ~me.full)
  IN /\ me.at = "look" /\ me.todo = {} /\ me.plan # <<>>
     /\ Set(t, [me EXCEPT !.plan = Tail(@), !.todo = IF differ THEN listed \ known ELSE listed])
     /\ known' = IF differ THEN (known \ OfKind(Head(me.plan))) \cup listed ELSE known
     /\ UNCHANGED <<Host, seen, forgot, tick, Records>>

\* Mutant: a signature that is found silences the condition for good.
EverSeen(t, c) ==
  LET me == audit[t] IN
  [me EXCEPT !.todo = @ \ {c},
             !.at  = IF seen[c] # None THEN "look" ELSE "mark",
             !.one = IF seen[c] # None THEN None ELSE c]

\* The lookup of _is_signature_seen_recent.
LookedUp(t, c) ==
  LET me == audit[t] IN
  [me EXCEPT !.todo = @ \ {c},
             !.at  = IF Recent(c) THEN "look" ELSE "mark",
             !.one = IF Recent(c) THEN None ELSE c]

Look(t, c) ==
  /\ \/ audit[t].at = "look" /\ c \in audit[t].todo /\ Cardinality(Keys) <= CacheLimit
     \/ audit[t].at = "pruned" /\ c = audit[t].one
  /\ Set(t, LookedUp(t, c))
  /\ UNCHANGED <<Host, Memory, tick, Records>>

\* The cache is over its limit: the comprehension begins.
Prune(t, c) ==
  LET me == audit[t] IN
  /\ me.at = "look" /\ c \in me.todo
  /\ Cardinality(Keys) > CacheLimit
  /\ Set(t, [me EXCEPT !.at = "prune", !.one = c, !.todo = @ \ {c}, !.keys = Keys,
                       !.live = {d \in Conditions : Recent(d)}])
  /\ UNCHANGED <<Host, Memory, tick, Records>>

\* The copy, without what is older than the window, replaces the dictionary.  What another
\* thread has entered meanwhile is lost; one that is as old as the window may stay.
Pruned(t, kept) ==
  LET me == audit[t] IN
  /\ me.at = "prune"
  /\ kept \subseteq me.keys /\ {d \in me.live : Recent(d)} \subseteq kept
  /\ seen' = [d \in Conditions |-> IF d \in kept THEN seen[d] ELSE None]
  /\ forgot' = (forgot \/ \E d \in Conditions \ kept : Recent(d))
  /\ reports' = IF forgot' THEN NoReports ELSE reports
  /\ Set(t, [me EXCEPT !.at = "pruned", !.keys = {}, !.live = {}])
  /\ UNCHANGED <<Host, known, tick, stored, missed>>

\* A key is entered while the comprehension runs: an exception.  The collectors go on without
\* this condition, audit_event_logs without the rest; audit_startup_folder lets it through,
\* and the audit rolls back.
PruneFails(t) ==
  LET me == audit[t] IN
  /\ me.at = "prune" /\ ~(Keys \subseteq me.keys)
  /\ IF Kind[me.one] = "startup"
     THEN /\ missed' = missed \cup (((me.found \cup me.todo \cup {me.one}) \cap Files) \ stored)
          /\ Set(t, Idle)
     ELSE /\ Set(t, [me EXCEPT !.at = "look", !.one = None, !.keys = {}, !.live = {},
                               !.todo = IF Kind[me.one] = "log" THEN {} ELSE @])
          /\ UNCHANGED missed
  /\ UNCHANGED <<Host, Memory, tick, stored, reports>>

\* Mutant: the signature is not entered.
Unmarked(t) ==
  LET me == audit[t] IN
  /\ me.at = "mark"
  /\ reports' = [reports EXCEPT ![me.one] = IF forgot THEN 0 ELSE @ + 1]
  /\ Set(t, [me EXCEPT !.at = "look", !.one = None, !.found = @ \cup {me.one}])
  /\ UNCHANGED <<Host, Memory, tick, stored, missed>>

\* The signature is entered and the finding made.
Mark(t) ==
  LET me == audit[t] IN
  /\ me.at = "mark"
  /\ seen' = [seen EXCEPT ![me.one] = Window]
  /\ reports' = [reports EXCEPT ![me.one] = IF forgot THEN 0 ELSE @ + 1]
  /\ Set(t, [me EXCEPT !.at = "look", !.one = None, !.found = @ \cup {me.one}])
  /\ UNCHANGED <<Host, known, forgot, tick, stored, missed>>

\* _ingest_events commits.
Store(t) ==
  /\ audit[t].at = "look" /\ audit[t].todo = {} /\ audit[t].plan = <<>>
  /\ stored' = stored \cup audit[t].found
  /\ missed' = missed \ audit[t].found
  /\ Set(t, Idle)
  /\ UNCHANGED <<Host, Memory, tick, reports>>

\* An automatic audit finds itself cancelled, or an audit fails: all it found is rolled back,
\* and all it remembered stays.
Discard(t) ==
  /\ audit[t].at = "look" /\ audit[t].todo = {} /\ (t \in Manual => audit[t].plan = <<>>)
  /\ events < MaxEvents
  /\ events' = events + 1
  /\ missed' = missed \cup ((audit[t].found \cap Files) \ stored)
  /\ Set(t, Idle)
  /\ UNCHANGED <<present, Memory, tick, stored, reports>>

-----------------------------------------------------------------------------

\* clear_all_alerts: the records are deleted, and the signatures after them.  The audit that
\* follows if monitoring is on is a BeginManual.
ClearAll ==
  /\ events < MaxEvents
  /\ events' = events + 1
  /\ seen' = [c \in Conditions |-> None]
  /\ forgot' = TRUE /\ reports' = NoReports
  /\ missed' = missed \cup (stored \cap Files)
  /\ stored' = {}
  /\ UNCHANGED <<present, known, tick, audit>>

AuditStep(t) ==
  \/ Collect(t) \/ Mark(t) \/ Store(t) \/ PruneFails(t)
  \/ \E c \in Conditions : Look(t, c) \/ Prune(t, c)
  \/ \E kept \in SUBSET Conditions : Pruned(t, kept)

Next ==
  \/ \E c \in Conditions : Appear(c) \/ Vanish(c)
  \/ Tick \/ ClearAll
  \/ \E t \in Threads : BeginTick(t) \/ BeginManual(t) \/ AuditStep(t) \/ Discard(t)

\* Time passes, the loop ticks on, and a thread in an audit gets on with it.
Fairness ==
  /\ WF_vars(Tick)
  /\ WF_vars(\E t \in Automatic : BeginTick(t))
  /\ \A t \in Threads : WF_vars(AuditStep(t))

Spec == Init /\ [][Next]_vars /\ Fairness

-----------------------------------------------------------------------------
(* Properties. *)

\* "handle recurrences": the discarded findings of a cancelled audit come back.  A process, a
\* listener or a firewall that stays as it is is stored in the end, whatever was remembered
\* of it when an audit was rolled back, pruned by another thread or cleared.
LastingConditionsAreStored ==
  \A c \in Conditions :
    Kind[c] \in {"process", "listener", "firewall"}
      => (<>[](c \in present) => <>[](c \in stored))

\* A startup file is known from then on: it is stored unless that finding was rolled
\* back or cleared, or the file was there before.
StartupFilesAreStoredOrMissed ==
  \A c \in Files :
    <>[](c \in present) => <>[](c \in stored \cup missed)

\* audit_startup_folder takes a file for known once it has listed it, before anything of it is
\* stored: it is in the database, or an audit has it to look up, has looked it up or has found
\* it, or it was there before, was rolled back or was deleted.
AtHand(t) == audit[t].todo \cup {audit[t].one} \cup audit[t].found
Awaited(f) == f \in stored \cup missed \/ \E t \in Threads : f \in AtHand(t)
KnownFilesAreAccountedFor == \A f \in Files \cap known : Awaited(f)

\* "suppresses rapid repeats": within its window a signature is reported once, or once by each
\* of the threads that looked it up together, unless it was pruned by another or cleared.
RepeatsAreSilenced == \A c \in Conditions : reports[c] <= Cardinality(Threads)
=============================================================================
