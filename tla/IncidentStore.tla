----------------------------- MODULE IncidentStore -----------------------------
(***************************************************************************)
(* Alerts, incidents and the links between them (app/models), as the       *)
(* database sessions of concurrent requests and threads change them:       *)
(* ingestion of uploads and audits, drills, IncidentCorrelator             *)
(* (app/security/correlator.py) and the triage routes (app/api/routes.py). *)
(*                                                                         *)
(* What a session sees.  The database is SQLite: a SELECT sees what is     *)
(* committed, until the session's first write takes the only write lock;   *)
(* from then on it sees its own writes, nobody else writes, and its commit *)
(* publishes them.  The sessions are SQLAlchemy's with autoflush off: an   *)
(* incident is read once and then kept as an object, an attribute that is  *)
(* changed reaches the database with the next flush, and only what changed *)
(* is written.  Foreign keys are declared but SQLite does not enforce them.*)
(*                                                                         *)
(* An alert has a fixed correlation key and a valid timestamp.  Risk       *)
(* scores, titles and the status of alerts are left out.                   *)
(***************************************************************************)
EXTENDS Naturals, FiniteSets, FiniteSetsExt

CONSTANTS
  Sessions,      \* database sessions: request handlers, audit threads, the simulator
  Alerts,        \* identities for alerts
  Incidents,     \* identities for incidents
  Keys,          \* correlation keys
  KeyOf,         \* the key of each alert
  TimeOf,        \* the timestamp of each alert
  Drills,        \* the alerts of drills, the simulator and sample sets, if any come
  Window,        \* CORRELATION_WINDOW_SECONDS
  Cap,           \* MAX_ALERTS_PER_INCIDENT
  MaxDeletions,  \* bound: how often alerts are deleted
  None           \* Python's None

ASSUME StoreConstantsOK ==
  /\ IsFiniteSet(Alerts) /\ IsFiniteSet(Incidents)
  /\ KeyOf \in [Alerts -> Keys] /\ TimeOf \in [Alerts -> Nat]
  /\ Drills \subseteq Alerts
  /\ Window \in Nat /\ Cap \in Nat \ {0} /\ MaxDeletions \in Nat
  /\ None \notin Sessions \cup Incidents

VARIABLES
  db,            \* what is committed
  writer,        \* the session that holds the write lock
  draft,         \* what the writer will commit; db when there is no writer
  sess,          \* the sessions
  deletions      \* history: how often alerts have been deleted

vars == <<db, writer, draft, sess, deletions>>

\* CHECK (alert_count >= 1) is one of the table's constraints.
Incident == [key : Keys, open : BOOLEAN, count : Nat \ {0}, first : Nat, last : Nat]
IncidentRow == Incident \cup {None}      \* a row, or no row

ASSUME NoneIsNoRow == None \notin Incident

Tables == [alerts : SUBSET Alerts, incidents : [Incidents -> IncidentRow],
           links : SUBSET (Incidents \X Alerts)]

EmptyTables == [alerts |-> {}, incidents |-> [i \in Incidents |-> None], links |-> {}]

\* Where a session is, the clusters it has yet to correlate, the one at hand and the incident
\* it goes to, the incident last used for each key, the objects it has, and the one whose
\* count has been changed but not flushed.
Session == [at : {"idle", "read", "match", "write", "commit", "delete"},
            todo : SUBSET SUBSET Alerts, cluster : SUBSET Alerts,
            target : Incidents \cup {None}, cache : [Keys -> Incidents \cup {None}],
            loaded : [Incidents -> IncidentRow], pending : Incidents \cup {None}]

Closed == [at |-> "idle", todo |-> {}, cluster |-> {}, target |-> None,
           cache |-> [k \in Keys |-> None],
           loaded |-> [i \in Incidents |-> None], pending |-> None]

StoreTypeOK ==
  /\ db \in Tables /\ draft \in Tables
  /\ writer \in Sessions \cup {None}
  /\ sess \in [Sessions -> Session]
  /\ deletions \in 0 .. MaxDeletions

Init ==
  /\ db = EmptyTables /\ draft = EmptyTables
  /\ writer = None
  /\ sess = [s \in Sessions |-> Closed]
  /\ deletions = 0

-----------------------------------------------------------------------------
(* Sessions. *)

View(s) == IF writer = s THEN draft ELSE db

LinksOf(tables, i) == {link \in tables.links : link[1] = i}

Linked(tables, a) == \E i \in Incidents : <<i, a>> \in tables.links

\* Writing takes the lock.
Write(s, tables) ==
  /\ writer \in {None, s}
  /\ writer' = s /\ draft' = tables
  /\ UNCHANGED <<db, deletions>>

\* A write that is committed at once, by a session that waits for the lock if it must.
WriteAndCommit(tables) ==
  /\ writer = None
  /\ db' = tables /\ draft' = tables
  /\ UNCHANGED writer

\* The pending count, as the next flush writes it; the row must still be there.
CanFlush(s) == sess[s].pending # None => View(s).incidents[sess[s].pending] # None

Flushed(s) ==
  LET i == sess[s].pending IN
  IF i = None THEN View(s)
  ELSE [View(s) EXCEPT !.incidents[i].count = sess[s].loaded[i].count]

Release(s) ==
  /\ sess' = [sess EXCEPT ![s] = Closed]
  /\ writer' = IF writer = s THEN None ELSE writer

\* Identities are never used twice.
FreshAlert(a) ==
  /\ a \notin db.alerts \cup draft.alerts
  /\ ~Linked(db, a) /\ ~Linked(draft, a)
  /\ \A s \in Sessions : a \notin sess[s].cluster \cup UNION sess[s].todo

FreshIncident(i) ==
  /\ db.incidents[i] = None /\ draft.incidents[i] = None
  /\ LinksOf(db, i) = {} /\ LinksOf(draft, i) = {}
  /\ \A s \in Sessions : sess[s].loaded[i] = None

-----------------------------------------------------------------------------
(* How alerts arrive. *)

\* Mutant: the alerts are committed before they are correlated.
IngestInTwo(s, A) ==
  /\ sess[s].at = "idle"
  /\ A # {} /\ A \cap Drills = {} /\ \A a \in A : FreshAlert(a)
  /\ WriteAndCommit([db EXCEPT !.alerts = @ \cup A])
  /\ sess' = [sess EXCEPT ![s].at = "read"]
  /\ UNCHANGED deletions

\* upload_log_file and _ingest_events: the new alerts are flushed, which takes the lock, and
\* correlated in the same transaction.
Ingest(s, A) ==
  /\ sess[s].at = "idle" /\ writer = None
  /\ A # {} /\ A \cap Drills = {} /\ \A a \in A : FreshAlert(a)
  /\ Write(s, [db EXCEPT !.alerts = @ \cup A])
  /\ sess' = [sess EXCEPT ![s].at = "read"]

\* run_test_drill, generate_and_save_live_threat and load_sample_dataset_route commit the
\* alerts first.
Drill(s, A) ==
  /\ sess[s].at = "idle"
  /\ A # {} /\ A \subseteq Drills /\ \A a \in A : FreshAlert(a)
  /\ WriteAndCommit([db EXCEPT !.alerts = @ \cup A])
  /\ sess' = [sess EXCEPT ![s].at = "read"]
  /\ UNCHANGED deletions

\* The correlation that the audit route and _audit_worker ask for after an audit has
\* committed, and that of an upload that brings no new alert.
CorrelateAgain(s) ==
  /\ sess[s].at = "idle"
  /\ sess' = [sess EXCEPT ![s].at = "read"]
  /\ UNCHANGED <<db, writer, draft, deletions>>

-----------------------------------------------------------------------------
(* correlate_alerts. *)

KeyOfCluster(c) == KeyOf[CHOOSE a \in c : TRUE]
First(c) == Min({TimeOf[a] : a \in c})
Last(c)  == Max({TimeOf[a] : a \in c})

Unlinked(tables) == {a \in tables.alerts : ~Linked(tables, a)}

\* _cluster_by_time for each key: a cluster begins at every timestamp that lies more than
\* the window after all the earlier ones, and lasts until the next begins.
Clusters(A) ==
  LET Times(k)  == {TimeOf[a] : a \in {b \in A : KeyOf[b] = k}}
      Starts(k) == {t \in Times(k) : \A u \in Times(k) : u >= t \/ u + Window < t}
      From(k, t) == {a \in A : /\ KeyOf[a] = k /\ t <= TimeOf[a]
                               /\ \A u \in Starts(k) : u <= t \/ TimeOf[a] < u}
  IN UNION {{From(k, t) : t \in Starts(k)} : k \in Keys}

ReadUnlinked(s) ==
  /\ sess[s].at = "read"
  /\ LET found == Clusters(Unlinked(View(s))) IN
       sess' = [sess EXCEPT ![s].at = IF found = {} THEN "commit" ELSE "match",
                            ![s].todo = found]
  /\ UNCHANGED <<db, writer, draft, deletions>>

\* Mutant: an incident takes alerts whatever its status.
AcceptsClosed(row, c) ==
  /\ row # None /\ row.count < Cap
  /\ row.last + Window >= First(c) /\ row.first <= Last(c) + Window

\* The incident takes the cluster: it is open, not full, and adjacent in time.
Accepts(row, c) ==
  /\ row # None /\ row.open /\ row.count < Cap
  /\ row.last + Window >= First(c) /\ row.first <= Last(c) + Window

\* _find_matching_open_incident: the object used last for the key, or else the most recent
\* row.  The clusters of a key come in the order of time.
MatchCluster(s) ==
  /\ sess[s].at = "match"
  /\ \E c \in sess[s].todo :
       LET me     == sess[s]
           k      == KeyOfCluster(c)
           rows   == View(s).incidents
           found  == {i \in Incidents : rows[i] # None /\ rows[i].key = k /\ Accepts(rows[i], c)}
           newest == {i \in found : \A j \in found : rows[j].last <= rows[i].last}
           hit    == me.cache[k] # None /\ Accepts(me.loaded[me.cache[k]], c)
       IN /\ \A d \in me.todo : KeyOfCluster(d) = k => First(c) <= First(d)
          /\ \E i \in IF hit THEN {me.cache[k]} ELSE IF found = {} THEN {None} ELSE newest :
               sess' = [sess EXCEPT ![s].at = "write", ![s].todo = @ \ {c},
                          ![s].cluster = c, ![s].target = i,
                          ![s].loaded = IF i = None \/ @[i] # None THEN @
                                        ELSE [@ EXCEPT ![i] = rows[i]]]
  /\ UNCHANGED <<db, writer, draft, deletions>>

\* The cluster at hand is done; its incident is the one last used for the key.
ClusterDone(s, i, row, pending) ==
  sess' = [sess EXCEPT ![s].at = IF sess[s].todo = {} THEN "commit" ELSE "match",
                       ![s].cluster = {}, ![s].target = None,
                       ![s].cache[KeyOfCluster(sess[s].cluster)] = i,
                       ![s].loaded[i] = row, ![s].pending = pending]

\* Mutant: the window of the incident stays as it was.
SameWindow(object, c) == object

\* The incident's window grows over the cluster.
Widened(object, c) ==
  [object EXCEPT !.first = Min({@, First(c)}), !.last = Max({@, Last(c)})]

\* An UPDATE writes the attributes of an object that have changed.
Updated(row, old, object) ==
  [row EXCEPT !.first = IF object.first # old.first THEN object.first ELSE @,
              !.last  = IF object.last # old.last THEN object.last ELSE @]

\* Mutant: the links are counted before the flush.
CountedBefore(tables, i, object, new) == Cardinality(LinksOf(tables, i) \ ({i} \X new))

\* func.count of the links, after the flush.
Counted(tables, i, object, new) == Cardinality(LinksOf(tables, i))

\* Merging.  The window and the links are flushed together, with a count still pending; the
\* new count is set on the object and stays there until the next flush.
Merge(s) ==
  LET me  == sess[s]
      i   == me.target
      old == me.loaded[i]
      obj == Widened(old, me.cluster)
      new == {a \in me.cluster : <<i, a>> \notin View(s).links}
      row == Flushed(s).incidents[i]
      flushed == [Flushed(s) EXCEPT
                    !.incidents[i] = IF obj = old THEN @ ELSE Updated(@, old, obj),
                    !.links = @ \cup ({i} \X new)]
      total == Counted(flushed, i, obj, new)
  IN /\ me.at = "write" /\ i # None
     /\ CanFlush(s) /\ (obj # old => row # None)
     /\ IF new # {} \/ obj # old \/ me.pending # None
        THEN Write(s, flushed)
        ELSE UNCHANGED <<db, writer, draft, deletions>>
     /\ ClusterDone(s, i, [obj EXCEPT !.count = total], IF total # obj.count THEN i ELSE None)

\* A new incident for the cluster.  Its links wait for the next flush, which comes before
\* anything reads them.
Create(s, i) ==
  LET me  == sess[s]
      c   == me.cluster
      row == [key |-> KeyOfCluster(c), open |-> TRUE, count |-> Cardinality(c),
              first |-> First(c), last |-> Last(c)]
  IN /\ me.at = "write" /\ me.target = None
     /\ FreshIncident(i) /\ CanFlush(s)
     /\ Write(s, [Flushed(s) EXCEPT !.incidents[i] = row, !.links = @ \cup ({i} \X c)])
     /\ ClusterDone(s, i, row, None)

\* The commit flushes what is pending, which may be the session's first write.
Commit(s) ==
  /\ sess[s].at = "commit"
  /\ CanFlush(s)
  /\ IF writer = s \/ sess[s].pending # None
     THEN writer \in {None, s} /\ db' = Flushed(s) /\ draft' = Flushed(s)
     ELSE UNCHANGED <<db, draft>>
  /\ Release(s)
  /\ UNCHANGED deletions

\* An exception anywhere (an UPDATE that finds no row, a lock not got in 30 s, a disk error)
\* ends the session without a commit; so does the death of the thread or the process.
Rollback(s) ==
  /\ sess[s].at # "idle"
  /\ Release(s)
  /\ draft' = IF writer = s THEN db ELSE draft
  /\ UNCHANGED <<db, deletions>>

-----------------------------------------------------------------------------
(* The triage routes. *)

\* update_incident_status.  What it does to the status of the linked alerts is left out.
PatchIncident(i, open) ==
  /\ db.incidents[i] # None
  /\ WriteAndCommit([db EXCEPT !.incidents[i].open = open])
  /\ UNCHANGED <<sess, deletions>>

\* delete_alert finds the alert and, as a relationship of it, its incidents.
FindAlert(s, a) ==
  /\ sess[s].at = "idle" /\ a \in db.alerts
  /\ sess' = [sess EXCEPT ![s].at = "delete", ![s].cluster = {a},
                          ![s].loaded = [i \in Incidents |->
                             IF <<i, a>> \in db.links THEN db.incidents[i] ELSE None]]
  /\ UNCHANGED <<db, writer, draft, deletions>>

\* Mutant: only the alert is deleted.
WithoutAlert(tables, links, A) == [tables EXCEPT !.alerts = @ \ A]

\* What the DELETE statements leave.
Without(tables, links, A) == [tables EXCEPT !.alerts = @ \ A, !.links = @ \ links]

\* The links it found and the alert are deleted; rows that are gone are an exception.  The
\* incidents keep the count they have.
DeleteAlert(s) ==
  LET found == {i \in Incidents : sess[s].loaded[i] # None} \X sess[s].cluster IN
  /\ sess[s].at = "delete"
  /\ sess[s].cluster \subseteq db.alerts /\ found \subseteq db.links
  /\ WriteAndCommit(Without(db, found, sess[s].cluster))
  /\ deletions < MaxDeletions /\ deletions' = deletions + 1
  /\ sess' = [sess EXCEPT ![s] = Closed]

\* clear_all_alerts, up to the commit.  A new audit may follow.
ClearAll ==
  /\ WriteAndCommit(EmptyTables)
  /\ deletions < MaxDeletions /\ deletions' = deletions + 1
  /\ UNCHANGED sess

-----------------------------------------------------------------------------

CorrelationStep(s) ==
  \/ ReadUnlinked(s) \/ MatchCluster(s) \/ Merge(s) \/ Commit(s)
  \/ \E i \in Incidents : Create(s, i)

Next ==
  \/ \E s \in Sessions :
       \/ \E A \in SUBSET Alerts : Ingest(s, A) \/ Drill(s, A)
       \/ \E a \in Alerts : FindAlert(s, a)
       \/ CorrelateAgain(s) \/ CorrelationStep(s) \/ Rollback(s) \/ DeleteAlert(s)
  \/ \E i \in Incidents, open \in BOOLEAN : PatchIncident(i, open)
  \/ ClearAll

Spec == Init /\ [][Next]_vars

-----------------------------------------------------------------------------
(* What holds for the alerts that are correlated in the transaction that inserts them, *)
(* whatever drills do beside them, whose alerts are committed first.                    *)

Ingested == Alerts \ Drills
IngestedLinks(tables) == {link \in tables.links : link[2] \in Ingested}

\* "single atomic database transaction": alerts that are ingested are committed together with
\* their links or not at all; only drills can be found unlinked.
NothingIngestedIsLeftOut == Unlinked(db) \subseteq Drills

\* An ingested alert belongs to one incident, whatever else is ingested, triaged or deleted
\* meanwhile.
OneIncidentPerIngested ==
  \A a \in Ingested : Cardinality({i \in Incidents : <<i, a>> \in db.links}) <= 1

\* Has no drill ever been correlated into the incident?  Either none has its key, or nothing
\* is deleted and none is linked to it.
Undrilled(tables, i) ==
  \/ tables.incidents[i].key \notin {KeyOf[a] : a \in Drills}
  \/ deletions = 0 /\ LinksOf(tables, i) \subseteq IngestedLinks(tables)

\* first_seen and last_seen enclose the alerts of the incident, however late or out of
\* order they arrived.  A drill's session may write a window that it read before.
WindowsCoverAlerts ==
  \A link \in IngestedLinks(db) :
    LET row == db.incidents[link[1]] IN
    row # None /\ Undrilled(db, link[1])
      => row.first <= TimeOf[link[2]] /\ TimeOf[link[2]] <= row.last

\* A link to an ingested alert has its incident and its alert.
IngestedLinksAreWhole ==
  \A link \in IngestedLinks(db) : db.incidents[link[1]] # None /\ link[2] \in db.alerts

\* As long as nothing is deleted, the alert_count that is committed is the number of links,
\* though it is set only after the flush that writes them.
CountsAreLinks ==
  deletions = 0 => \A i \in Incidents :
    db.incidents[i] # None /\ LinksOf(db, i) \subseteq IngestedLinks(db)
      => db.incidents[i].count = Cardinality(LinksOf(db, i))

\* "merges new alerts into existing open incidents": one that was closed gets no more, even
\* when it was open as the correlation began.
ClosedIncidentsDoNotGrow ==
  [][\A i \in Incidents :
       db.incidents[i] # None /\ ~db.incidents[i].open
         => IngestedLinks(db') \cap LinksOf(db', i) \subseteq LinksOf(db, i)]_vars

-----------------------------------------------------------------------------
(* The store implements IncidentLedger. *)

Present(tables) == {i \in Incidents : tables.incidents[i] # None}
Entries(tables) ==
  [i \in Present(tables) |-> [key |-> tables.incidents[i].key, open |-> tables.incidents[i].open]]

Ledger == INSTANCE IncidentLedger
  WITH Alerts <- Ingested, incidents <- Entries(db), alerts <- db.alerts \cap Ingested,
       links <- IngestedLinks(db)

\* Whatever sessions do to the ingested alerts, and to the keys and the status of incidents,
\* follows IncidentLedger, commit by commit.
ImplementsLedger == Ledger!LSpec

-----------------------------------------------------------------------------
(* What the documentation says, and the code does not do. *)

\* An alert, of a drill too, belongs to one incident.
OneIncidentPerAlert ==
  \A a \in Alerts : Cardinality({i \in Incidents : <<i, a>> \in db.links}) <= 1

\* "without orphan references": a link has its incident and its alert.
NoOrphanLinks ==
  \A link \in db.links : db.incidents[link[1]] # None /\ link[2] \in db.alerts

\* first_seen and last_seen enclose the alerts of an incident that drills share, too.
EveryWindowCovers ==
  \A link \in db.links :
    LET row == db.incidents[link[1]] IN
    row # None => row.first <= TimeOf[link[2]] /\ TimeOf[link[2]] <= row.last

\* An incident that is full gets no more alerts.
FullIncidentsDoNotGrow ==
  [][\A i \in Incidents :
       Cardinality(LinksOf(draft, i)) >= Cap => LinksOf(draft', i) \subseteq LinksOf(draft, i)]_vars
=============================================================================
