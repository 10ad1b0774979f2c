---------------------------- MODULE AlertRecurrence ----------------------------
(***************************************************************************)
(* How events become alerts, or recurrences of alerts: upload_log_file     *)
(* (app/api/routes.py), which keeps an index of candidates in memory and   *)
(* flushes in batches, and _ingest_events (app/security/host_sensor.py),   *)
(* which asks the database and flushes for every event.  They run beside   *)
(* each other: an upload on the event loop, audits in threads.             *)
(*                                                                         *)
(* Sessions see the database as in IncidentStore: committed rows until the *)
(* first write, which takes SQLite's only write lock, and their own writes *)
(* from then on.  A row is read once and kept as an object; a flush writes *)
(* the attributes that differ from what was read, as absolute values.      *)
(*                                                                         *)
(* Timestamps are valid and the columns first_seen and last_seen are set,  *)
(* as every insertion does.  Correlation is IncidentStore's.               *)
(***************************************************************************)
EXTENDS Naturals, Sequences, FiniteSets, SequencesExt

CONSTANTS
  Uploads,       \* sessions of upload requests
  Audits,        \* sessions of audit threads
  Alerts,        \* identities for alerts
  Events,        \* raw events
  KeyOf,         \* of each event: origin, type, description, source, addresses, user
  TimeOf,        \* of each event: its timestamp
  Window,        \* DEDUP_WINDOW_SECONDS
  Batch,         \* DB_BATCH_SIZE
  MaxEvents,     \* the events that one upload or audit brings (bound of the model)
  None           \* Python's None

Sessions == Uploads \cup Audits
Keys     == {KeyOf[e] : e \in Events}

ASSUME RecurrenceConstantsOK ==
  /\ IsFiniteSet(Events) /\ IsFiniteSet(Alerts)
  /\ TimeOf \in [Events -> Nat]
  /\ Uploads \cap Audits = {}
  /\ Window \in Nat /\ Batch \in Nat \ {0} /\ MaxEvents \in Nat
  /\ None \notin Sessions \cup Alerts

VARIABLES
  db,            \* the committed rows
  writer,        \* the session that holds the write lock
  draft,         \* what the writer will commit; db when there is no writer
  sess,          \* the sessions
  share,         \* history: the events each alert owes its committed count to
  used,          \* history: the identities and events that have been used
  overwrote      \* history: has a flush written over what another session committed?

vars == <<db, writer, draft, sess, share, used, overwrote>>

Row   == [key : Keys, open : BOOLEAN, count : Nat \ {0}, first : Nat, last : Nat]
Table == [Alerts -> Row \cup {None}]

ASSUME NoneIsNoRow == None \notin Row

\* What a session still has to ingest, the objects it has and what they were when last read or
\* flushed, the candidates in the order they were found, the alerts added since the last
\* flush; history: the events it has put on each alert, and the alerts that have been
\* closed since before it began.
Session == [at : {"idle", "next", "flush"}, todo : Seq(Events),
            object : Table, base : Table, index : Seq(Alerts), chunk : SUBSET Alerts,
            mine : [Alerts -> SUBSET Events], closed : SUBSET Alerts]

NoRows == [a \in Alerts |-> None]
Closed == [at |-> "idle", todo |-> <<>>, object |-> NoRows, base |-> NoRows, index |-> <<>>,
           chunk |-> {}, mine |-> [a \in Alerts |-> {}], closed |-> {}]

RecurrenceTypeOK ==
  /\ db \in Table /\ draft \in Table
  /\ writer \in Sessions \cup {None}
  /\ sess \in [Sessions -> Session]
  /\ share \in [Alerts -> SUBSET Events]
  /\ used \subseteq Alerts \cup Events
  /\ overwrote \in BOOLEAN

Init ==
  /\ db = NoRows /\ draft = NoRows
  /\ writer = None
  /\ sess = [s \in Sessions |-> Closed]
  /\ share = [a \in Alerts |-> {}]
  /\ used = {}
  /\ overwrote = FALSE

-----------------------------------------------------------------------------
(* Sessions. *)

View(s) == IF writer = s THEN draft ELSE db

Begin(s, todo) ==
  /\ sess[s].at = "idle"
  /\ todo # <<>> /\ ToSet(todo) \cap used = {}
  /\ used' = used \cup ToSet(todo)
  /\ sess' = [sess EXCEPT ![s] =
               [Closed EXCEPT !.at = "next", !.todo = todo,
                              !.closed = {a \in Alerts : db[a] # None /\ ~db[a].open}]]
  /\ UNCHANGED <<db, writer, draft, share, overwrote>>

\* upload_log_file up to the loop.  It does not await from there to its commit, so that the
\* event loop runs one at a time.
BeginUpload(s, todo) ==
  /\ s \in Uploads
  /\ \A u \in Uploads : sess[u].at = "idle"
  /\ Begin(s, todo)

\* _ingest_events of an automatic or a manual audit, or of the audit after a clearing.
BeginAudit(s, todo) == s \in Audits /\ Begin(s, todo)

-----------------------------------------------------------------------------
(* One event. *)

\* The event lies within the window around what the row has seen.
Adjacent(row, e) ==
  /\ row # None /\ row.key = KeyOf[e]
  /\ row.last + Window >= TimeOf[e] /\ row.first <= TimeOf[e] + Window

\* Mutant: the query does not ask for the status.
AnyRecurring(rows, e) == {a \in Alerts : Adjacent(rows[a], e)}

\* The query: OPEN rows ...
Recurring(rows, e) == {a \in Alerts : Adjacent(rows[a], e) /\ rows[a].open}

\* ... of which the one seen last comes first.
MostRecent(rows, found) == {a \in found : \A b \in found : rows[b].last <= rows[a].last}

\* active_candidates, from the last to the first.  The status is not looked at again.
Candidates(s, e) ==
  LET me   == sess[s]
      hits == {n \in DOMAIN me.index : Adjacent(me.object[me.index[n]], e)}
  IN {me.index[n] : n \in {m \in hits : \A k \in hits : k <= m}}

\* Mutant: last_seen becomes the time of the event, however late that arrives.
RecurredNow(row, e) ==
  [row EXCEPT !.count = @ + 1, !.last = TimeOf[e],
              !.first = IF TimeOf[e] < @ THEN TimeOf[e] ELSE @]

Recurred(row, e) ==
  [row EXCEPT !.count = @ + 1,
              !.first = IF TimeOf[e] < @ THEN TimeOf[e] ELSE @,
              !.last  = IF TimeOf[e] > @ THEN TimeOf[e] ELSE @]

NewRow(e) == [key |-> KeyOf[e], open |-> TRUE, count |-> 1,
              first |-> TimeOf[e], last |-> TimeOf[e]]

\* Where the session goes: an audit flushes every event, an upload when a batch is full.
AfterEvent(s, chunk) ==
  IF s \in Audits \/ Cardinality(chunk) >= Batch THEN "flush" ELSE "next"

\* The event recurs on alert a, which the session has as an object or reads now.
Recur(s, a) ==
  LET me  == sess[s]
      e   == Head(me.todo)
      had == me.object[a] # None
  IN /\ me.at = "next" /\ me.todo # <<>>
     /\ a \in IF Candidates(s, e) # {} THEN Candidates(s, e)
              ELSE MostRecent(View(s), Recurring(View(s), e))
     /\ sess' = [sess EXCEPT ![s] =
          [me EXCEPT !.at = AfterEvent(s, me.chunk), !.todo = Tail(@),
                     !.object[a] = Recurred(IF had THEN @ ELSE View(s)[a], e),
                     !.base[a] = IF had THEN @ ELSE View(s)[a],
                     !.index = IF s \in Audits \/ Candidates(s, e) # {} THEN @ ELSE Append(@, a),
                     !.mine[a] = @ \cup {e}]]
     /\ UNCHANGED <<db, writer, draft, share, used, overwrote>>

\* Nothing takes the event: a new alert.
Insert(s, a) ==
  LET me == sess[s]
      e  == Head(me.todo)
  IN /\ me.at = "next" /\ me.todo # <<>>
     /\ Candidates(s, e) = {} /\ Recurring(View(s), e) = {}
     /\ a \notin used
     /\ used' = used \cup {a}
     /\ sess' = [sess EXCEPT ![s] =
          [me EXCEPT !.at = AfterEvent(s, me.chunk \cup {a}), !.todo = Tail(@),
                     !.object[a] = NewRow(e), !.chunk = @ \cup {a},
                     !.index = IF s \in Audits THEN @ ELSE Append(@, a),
                     !.mine[a] = {e}]]
     /\ UNCHANGED <<db, writer, draft, share, overwrote>>

-----------------------------------------------------------------------------
(* Flushing, committing, rolling back. *)

Dirty(s) == {a \in Alerts : sess[s].object[a] # sess[s].base[a]}

\* An UPDATE must find its row; an INSERT always can.
CanFlush(s) == \A a \in Dirty(s) \ sess[s].chunk : View(s)[a] # None

\* The table after the flush: new rows, and of the old ones the attributes that changed.
Flushed(s) ==
  [a \in Alerts |->
     LET new == sess[s].object[a]
         old == sess[s].base[a]
     IN IF a \notin Dirty(s) THEN View(s)[a]
        ELSE IF old = None THEN new
        ELSE [View(s)[a] EXCEPT !.count = new.count,
                                !.first = IF new.first # old.first THEN new.first ELSE @,
                                !.last  = IF new.last # old.last THEN new.last ELSE @]]

\* A row that is written has changed since the session read it.
Overwrites(s) ==
  \E a \in Dirty(s) \ sess[s].chunk :
    [View(s)[a] EXCEPT !.open = TRUE] # [sess[s].base[a] EXCEPT !.open = TRUE]

\* Mutant: a flush is committed.
FlushCommits(s) ==
  /\ sess[s].at = "flush" /\ CanFlush(s)
  /\ writer = None
  /\ db' = Flushed(s) /\ draft' = Flushed(s)
  /\ overwrote' = (overwrote \/ Overwrites(s))
  /\ sess' = [sess EXCEPT ![s] = [@ EXCEPT !.at = "next", !.base = sess[s].object, !.chunk = {}]]
  /\ UNCHANGED <<writer, share, used>>

\* db.flush().  An upload keeps its objects, which the index refers to; what an audit has
\* written is read again.
Flush(s) ==
  /\ sess[s].at = "flush" /\ CanFlush(s)
  /\ writer \in {None, s}
  /\ writer' = s /\ draft' = Flushed(s)
  /\ overwrote' = (overwrote \/ Overwrites(s))
  /\ sess' = [sess EXCEPT ![s] =
       IF s \in Audits THEN [@ EXCEPT !.at = "next", !.object = NoRows, !.base = NoRows, !.chunk = {}]
       ELSE [@ EXCEPT !.at = "next", !.base = sess[s].object, !.chunk = {}]]
  /\ UNCHANGED <<db, share, used>>

\* The end of the loop: the last flush, the correlation and the commit.
Commit(s) ==
  /\ sess[s].at = "next" /\ sess[s].todo = <<>> /\ CanFlush(s)
  /\ writer \in {None, s}
  /\ db' = Flushed(s) /\ draft' = Flushed(s)
  /\ writer' = None
  /\ share' = [a \in Alerts |-> share[a] \cup sess[s].mine[a]]
  /\ overwrote' = (overwrote \/ Overwrites(s))
  /\ sess' = [sess EXCEPT ![s] = Closed]
  /\ UNCHANGED used

\* A check that finds the audit cancelled, or an exception: an UPDATE without its row, a lock
\* that is not got in 30 s, a failing correlation.
Rollback(s) ==
  /\ sess[s].at # "idle"
  /\ sess' = [sess EXCEPT ![s] = Closed]
  /\ writer' = IF writer = s THEN None ELSE writer
  /\ draft' = IF writer = s THEN db ELSE draft
  /\ UNCHANGED <<db, share, used, overwrote>>

-----------------------------------------------------------------------------
(* Other requests, which wait for the lock and commit at once. *)

WriteAndCommit(table) == writer = None /\ db' = table /\ draft' = table /\ UNCHANGED writer

\* update_alert_status, and the cascade of update_incident_status to one of its alerts.
SetStatus(a, open) ==
  /\ db[a] # None
  /\ WriteAndCommit([db EXCEPT ![a].open = open])
  /\ sess' = [s \in Sessions |->
               IF open THEN [sess[s] EXCEPT !.closed = @ \ {a}] ELSE sess[s]]
  /\ UNCHANGED <<share, used, overwrote>>

\* delete_alert, and clear_all_alerts.
DeleteAlerts(A) ==
  /\ \A a \in A : db[a] # None
  /\ WriteAndCommit([a \in Alerts |-> IF a \in A THEN None ELSE db[a]])
  /\ share' = [a \in Alerts |-> IF a \in A THEN {} ELSE share[a]]
  /\ UNCHANGED <<sess, used, overwrote>>

\* load_sample_dataset_route and run_test_drill: alerts without looking for recurrences.
InsertSample(e, a) ==
  /\ {e, a} \cap used = {}
  /\ WriteAndCommit([db EXCEPT ![a] = NewRow(e)])
  /\ share' = [share EXCEPT ![a] = {e}]
  /\ used' = used \cup {e, a}
  /\ UNCHANGED <<sess, overwrote>>

-----------------------------------------------------------------------------

Rows == {a \in Alerts : db[a] # None}

Inputs == {t \in UNION {[1..n -> Events] : n \in 1..MaxEvents} : IsInjective(t)}

SessionStep(s) ==
  \/ \E todo \in Inputs : BeginUpload(s, todo) \/ BeginAudit(s, todo)
  \/ \E a \in Alerts : Recur(s, a) \/ Insert(s, a)
  \/ Flush(s) \/ Commit(s) \/ Rollback(s)

Next ==
  \/ \E s \in Sessions : SessionStep(s)
  \/ \E a \in Alerts, open \in BOOLEAN : SetStatus(a, open)
  \/ \E a \in Alerts, e \in Events : InsertSample(e, a)
  \/ \E A \in {{a} : a \in Alerts} \cup {Rows} : DeleteAlerts(A)

Spec == Init /\ [][Next]_vars

-----------------------------------------------------------------------------
(* Properties. *)

\* "Monotonically incrementing occurrence counter": an alert never counts more than its
\* events, in whatever batches they came, and exactly these unless a session has written over
\* another's recurrence.
CountsAreEvents ==
  \A a \in Rows :
    /\ db[a].count <= Cardinality(share[a])
    /\ ~overwrote => db[a].count = Cardinality(share[a])

\* first_seen and last_seen enclose the events, in whatever order they arrive.
WindowsEncloseEvents ==
  ~overwrote =>
    \A a \in Rows : \A e \in share[a] : db[a].first <= TimeOf[e] /\ TimeOf[e] <= db[a].last

\* An alert that was closed before an upload or an audit began, and has stayed so, gets none
\* of its events.
ClosedAlertsDoNotRecur ==
  \A s \in Sessions : \A a \in sess[s].closed : sess[s].mine[a] = {}

\* "atomically increments" (README.md): every event that was committed is counted.  The code does
\* not promise it: two sessions that have both read an alert before either commits write the same
\* number.  CountsAreEvents says what holds.
EveryEventIsCounted == \A a \in Rows : db[a].count = Cardinality(share[a])
=============================================================================
