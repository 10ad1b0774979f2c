# SOC Alert Analyzer in TLA+

A verification development beside the code of SOC Alert Analyzer, a FastAPI application
that gathers security alerts from the host it runs on and from uploaded logs, correlates
them into incidents, and shows both to analysts. The modules are translated from the
Python and JavaScript source; TLC checks them on small instances and TLAPS proves, for
every value of the constants, all the safety invariants that TLC checks but one.

## The system

### Components, their state, and how they interact

| component | state it keeps | operations | interacts with |
|---|---|---|---|
| `ThreatStreamManager` (`app/security/stream.py`) | the two switches, the tasks of the two loops, a transition flag, the result of the last cancellation, WebSocket connections | start/stop of monitoring and simulator, status, shutdown, connect, broadcast | called by the toggle routes and the lifespan; cancels the loops; waits for the sensor's threads; saves preferences |
| `real_host_monitor_loop`, `HostSecuritySensor` (`app/security/host_sensor.py`) | the cancellation event, the scan generation, two worker counters, sets of signatures seen | automatic audits in pool threads, manual audits, drills, the collectors, `_ingest_events` | reads the host and the manager's switch; writes the database; calls the correlator |
| preferences (`app/config.py`) | `monitoring_preferences.json` | load, save through a temporary file | the manager, the lifespan |
| `IncidentCorrelator` (`app/security/correlator.py`) | objects of one database session | `correlate_alerts` | called by uploads, audits, drills, the simulator, sample loading |
| database (`app/database`, `app/models`) | alerts, incidents, links | sessions, one writer at a time | everybody above; the triage routes |
| routes and pages (`app/api/routes.py`, `app/main.py`) | none | lists, figures, reports; upload, status changes, delete, clear, drills, audits | the database, the correlator, the sensor |
| `SessionManager` (`app/security/session.py`) | sessions, tickets, failed logins, lockouts | create, get, rotate, revoke; issue and consume tickets; check and record logins | login, logout and ticket routes, the WebSocket handshake |
| authorisation (`app/security/auth.py`) | none | users, roles, CSRF, origins | every route, the WebSocket handshake |
| analysis (`risk_engine`, `mitre_mapper`, `normalizer`, `ip_utils`) | none | pure functions | ingestion, reports and pages |
| parsers, `remediation`, `upload_security`, `logging_filter` | none, or a buffer | text to records, tables, checks of files, redaction | uploads, pages, logging |
| browser client (`app/static/js/app.js`) | the monitoring state shown, a request number | toggles, status queries, the socket | the routes above, the WebSocket |

The event loop runs the lifecycle calls, the two loops and the async routes; pool threads
run audits and the synchronous routes; each request or audit has a database session of its
own. So four kinds of interleaving meet: at `await`s, between threads, between sections of a
lock, and between transactions. A fifth is outside the process: the host changes while it is
being looked at, and a page hears answers in any order.

### What is hard, and what makes each part correct

* **Pausing.** A pause cancels the loop, but not the thread the loop awaits; it waits for
  that thread only so long; the status is computed without the lock. Correct is: what was
  gathered before a pause is not committed after the resume; no loop escapes the manager;
  PAUSED is not reported too early; every call returns.
* **Counting scans.** Two counters in `finally` clauses decide whether a pause is confirmed
  and a start allowed. Correct is: they equal the scans that run.
* **Durability of the toggles.** Memory and file change at different moments, saves fail,
  processes die. Correct is: what was reported as persisted is what the file holds.
* **Correlation.** It reads, decides, and writes in one session while others commit.
  Correct is: one incident per alert, windows and counts that agree with the links, no
  growth of closed incidents, no alert ingested and left out.
* **Recurrence.** Two ingestions count one recurring alert. Correct is: no event counts
  twice, none is lost unless one session has written over another, no closed alert recurs.
* **What a sensor remembers.** Signatures are noted before the findings are committed and
  pruned while others read them. Correct is: what stays on the host is stored in the end,
  and what was reported is not reported at every tick.
* **One audit of a moving host.** Interfaces, firewall, processes and sockets are read one
  after another, and reads fail. Correct is: a finding was true at some moment; what lasted
  is found; an exposure is one the host had.
* **Sessions.** Routes call several locked methods, with other requests in between. Correct
  is: bounds hold, one session per login, lockouts that hold and that end.
* **Broadcasting.** Connections come and go while a broadcast awaits each. Correct is: who
  stays is served once, and only with what is theirs.
* **Answers.** An answer is put together from several queries, beside the commits of others
  and the end of the session it is for. Correct is: the figures fit together, guests learn
  nothing but demonstrations, rows change only for those who may change them.
* **The page.** Answers, heartbeats and other people's toggles arrive in any order. Correct
  is: the page never waits for nothing, and shows what the server reports in the end.

`PROJECT.json` lists every component, and under `hazards` each hazard at its line with the
properties that cover it, or the reason that none does.

## The modules

| module | models |
|---|---|
| `AuditAuthority` | what the monitor promises about pausing: the abstract specification |
| `MonitorLifecycle`, `MCMonitorLifecycle` | `stream.py`, the audits of `host_sensor.py`, the preference file, the lifespan |
| `MonitorLifecycleProofs` | its type invariant, its inductive invariant, the safety theorems, the refinement, and what `AuditAuthority` then says of the lifecycle |
| `IncidentLedger` | what the correlation promises of ingested alerts: the abstract specification |
| `IncidentStore`, `MCIncidentStore`, `IncidentStoreProofs` | alerts, incidents and links under concurrent database sessions; the theorems and the refinement |
| `AlertRecurrence`, `MCAlertRecurrence`, `AlertRecurrenceProofs` | events that become alerts or recurrences, in uploads and audits; the theorems |
| `SensorSignatures`, `MCSensorSignatures`, `SensorSignaturesProofs` | what the sensor remembers of what it has reported; the theorems |
| `HostDetections`, `IPClassifier` | the sensor's rules and `ip_utils.py`, as functions of what was read |
| `HostAudit`, `MCHostAudit`, `HostAuditProofs` | one full audit of a host that changes under it; its theorems |
| `RiskEngine` | the score of an event |
| `AlertNormalizer` | `normalizer.py`, with `RiskEngine` and `IPClassifier` |
| `Authorisation` | the decisions of `auth.py`, on what is read at one moment |
| `MitreReport` | techniques, tactics and the summary report of `mitre_mapper.py` |
| `SocViews`, `MCSocViews`, `SocViewsProofs` | requests, their queries and commits, and the sockets, over one database; composes the three before; its theorems, and those of `RiskEngine` |
| `SessionStore`, `SessionStoreProofs` | sessions, tickets, failed logins and lockouts; the theorems |
| `BroadcastHub`, `MCBroadcastHub` | sockets and broadcasts |
| `MonitorPage` | the page's control of monitoring, against the lifecycle as requests see it |
| `DeliveryProofs` | the theorems of both ends of the sockets, `BroadcastHub` and `MonitorPage` |

### MonitorLifecycle

State and code: `hostActive`, `simActive`, `transition`, `timedOut`, `quiescent`,
`cancelResult`, `monitorTask` and `simTask` are the manager's attributes; `cancelEvent`,
`scanGeneration`, `activeWorkers` and `autoWorkers` the sensor's; `pref` is the file;
`queue` and `pc` are the owner lock and where each call inside it awaits; `task` and
`worker` say how far each asyncio task and each audit thread has come.

* A lifecycle call (`Call`) joins the queue of the `asyncio.Lock`. At its head it is one of
  the `Start…`/`Stop…` actions: one action per stretch between two awaits, so a stop is
  `StopHost` (flags, signal, save, cancellation), `StopHostTaskEnded` (the awaited task
  ended, or the wait for it timed out) and `StopHostSettled` (quiescence confirmed, or not).
* A loop `Tick`s: it puts an audit in a thread and awaits it; `Resume`, `BroadcastEnded` and
  `TaskDies` are the rest. A cancelled loop leaves its thread behind (`Forget`).
* A worker goes through `Enter`, `Register`, `Collect`, `Ingest`, `Commit`, `Leave`,
  `Recheck` and `Correlate`, one action between two of its checks or shared writes; each
  rolls back where the code does.
* `StatusSample` and `StatusReport` are `get_status`, in a pool thread: first the counters
  are read, then the rest is, and a timed-out pause may be cleared.
* `Shutdown`, `ShutdownGathered`, `Exit` are the lifespan's end without the lock; `Crash`
  is the death of the process; `Boot` a start, which loads the file.

What is simplified. What lies between two awaits of the event loop is one step, although
`get_status` and the audit threads could see it half done; the hazard that remains is a
`get_status` that overwrites a pause that times out in the same instant. `is_scan_cancelled`
reads three fields without a lock; as a stop writes the flag last and generations do not
return, its answer is right for one moment of its reading. STARTING, RESUMING and
ERROR are set and cleared without an await in between and are never seen. Heartbeats belong
to the loop's sleep. A drill runs on the event loop in the code, in a thread of its own here,
which allows more. The synchronous wrappers, the background loop they create and
cancellation across loops are left out: the application calls the coroutines.

### IncidentStore

`db` is what is committed; `writer` holds SQLite's only write lock and `draft` is what it
will commit; `sess` are the SQLAlchemy sessions, with the objects each has loaded. A session
reads committed data until its first write, then its own; with autoflush off, an attribute
set on an object is written only by the next flush (`pending`); an object that has been
loaded is not refreshed by a later query. Foreign keys are not enforced, as the connection
never switches them on.

`Ingest` is an upload or an audit, whose alerts are flushed and correlated in one
transaction; `Drill` stands for drills, the simulator and sample sets, which commit first;
`CorrelateAgain` is the correlation requested after an audit or by an upload without new
alerts. `ReadUnlinked`, `MatchCluster`, `Merge`, `Create` and `Commit` are `correlate_alerts`;
`ClusterDone` is the end of one cluster, and `Updated` what a flush writes of an object: the
attributes that changed. `Rollback` is an exception anywhere, or the end of the thread. `PatchIncident`, `FindAlert`,
`DeleteAlert` and `ClearAll` are the triage routes.

What is simplified. Every alert has a key and a valid timestamp; risk scores, titles and the
status of alerts are left out, and with them the writes that change nothing else. Incidents
without a correlation key, from databases older than the column, do not occur. The filter
that keeps simulated alerts out of correlation outside demo mode is the choice of `Drills`.
`PatchIncident` is one step: it reads and writes one attribute that nobody else changes. The
clusters of several keys may come in any order. The database is the default SQLite.

A drill is not part of an ingestion: its alert is committed first, and the session that then
correlates it has read the incident before it becomes the writer. If an upload widens the
window in between, the drill's session sets the window from its older copy and writes over the
upload's. `WindowsCoverAlerts` therefore speaks of incidents that no drill has joined
(`Undrilled`); `deletions` tells it whether links of a drill may have been there and gone.

`IncidentLedger` is what is left without sessions, locks, objects, windows and counts: a
transaction brings its alerts with their incidents in one step, each alert in one open incident
of its key; nothing is linked later; triage opens and closes, deletions take an alert with its
link. Under `ImplementsLedger` the committed rows are mapped to it, the drills and their links
left out and an incident reduced to its key and whether it is open (`Entries`).

### SessionStore

`sessions`, `tickets`, `attempts` and `lockouts` are the four dictionaries. Each method is
one action under the lock; `login_route` is `BeginLogin`, then `LoginFails`, or
`LoginSucceeds`, `RevokePrevious`, `CreateSession` and `AnswerLogin`, and other requests run
in between. Time is kept as what remains of each lifetime, so that the clock needs no bound
and liveness can be checked; a lifetime of `n` ticks passes all the cases before, at and
after its end. Failed logins are in the order they came, so those within the window
(`Recent`) are the end of the sequence. `time.time()` is read just before the lock is taken; the model reads it
under the lock. A ticket asked for with an API key, or by a guest in demo mode, is the same
call of the store without a session to look up, and is left out. Of equally old sessions
`Oldest` names one, as the dictionary's order does.

### AlertRecurrence

`db`, `writer`, `draft` and `sess` are as in `IncidentStore`; of each session there are the
objects it has and what they were when last read or flushed, so that a flush writes the
attributes that differ, as absolute values. An upload keeps an index of candidates in memory
and flushes in batches; an audit asks the database and flushes for every event. `share`,
`used` and `overwrote` are history: the events each alert owes its count to, what has been
used, and whether one session has written over what another committed.

Correlation is left out (`IncidentStore` has it), and so is all of an event but its key and
its time. That two sessions which have both read an alert write the same number is what the
code does: `README.md:80` says the counter is incremented atomically, which
`EveryEventIsCounted` states and TLC refutes when it is checked in the place of
`CountsAreEvents`, as soon as two audits bring events of one key.

### SensorSignatures

`seen` holds what remains of each signature's window, `known` the process ids and startup
files. An audit takes one condition after another: `Look` finds its signature or not, `Mark`
notes it, and the pruning of the cache is two steps (`Prune`, `Pruned`), with those of
another thread in between; `PruneFails` is the iteration over a dictionary that changed.
`Store` commits, `Discard` rolls back and leaves the memory as it is.

The listing of processes and its comparison with the known ones are one step. Time is what
remains of each window, in ticks. The sizes are the instance's: the cache is pruned at any
size (`CacheLimit = 0`), which happens more often than at 3000. `MaxEvents` bounds what happens
to the sensor: conditions that appear, audits that are rolled back, records that are cleared.

### HostDetections, IPClassifier and HostAudit

`HostDetections` has the rules of `_analyze_single_process`, the reachability, mitigation
and tier of a listener and the confidence of its evidence. A process is its exact name and
the substrings of interest in its name, command line and path. `IPClassifier` has the kinds of
addresses. `HostAudit` reads a host in the order of `run_full_audit`: processes one by one,
the sockets at once, and for a listener at risk the interfaces and later the firewall; then
the firewall for its own finding, and the log. Between any two reads the host may `Become`
another, and any read may fail. `before`, `during` and `failed` are history.

That the tier of a listener is the tier of one moment is false, and TLC says so with two
changes of the host; `TierIsWithin` says what is true: it lies between the least and the
most that the states of interfaces and firewall during the audit allow. A signature that
expires during the audit is one that was seen before it. What `LastingIsReported` demands is
named by what it is about (`LastingProcesses`, `LastingListeners`, `LastingConnections`,
`LastingFirewall`, `LastingEntries`), and each finding is a named event (`Listener`,
`Connection`, `FirewallEvent`, `LogEvent`). The commands of the operating
systems and their output formats, and the authentication log of Linux, are left out.

### RiskEngine and AlertNormalizer

`Score`, `SeverityLevel` and `Normalize` are `calculate_risk`, `get_severity_level` and
`normalize`. Numbers that are missing or no numbers are empty sequences; the confidence is
in tenths; a text is a member of a set of cases (`like` and `reads` hold the cases a text
falls in), since every decision of the code is one of membership.

### Authorisation, MitreReport and SocViews

A request of `SocViews` is resolved to a user (`Arrive`, `get_current_user`), checked
(`Authorise`, `require_role` with `verify_csrf`) and then runs what `Script` lists for its
handler, one query or commit per step. Each query sees what is committed at its moment.
`EndSession` takes a session away at any time. `Commit` changes the rows and notes, for
every other answer under way, whether what it has read so far is still comparable
(`Beside`). A socket asks for a ticket, connects with it or without, and hears alerts and
heartbeats until it disconnects.

What is simplified. The filters of the lists, the texts and the columns of incidents are left
out; what a correlation does is a choice among all assignments of unlinked alerts to
incidents; a recurrence changes no row. `on` and `read` are what a handler keeps from one
step to a later one; the figures of an answer are forgotten once others have done more than
add rows (nothing is promised about them then). Producers of alerts state their origin
(`ViewsConstantsOK`, as every producer in the source does), and the inference that is left
for events without one is in `AlertNormalizer` only. An audit's findings reach sockets from
the database; a drill reaches every socket, as in the code. The bounds are `MaxAlerts`,
`MaxIncidents`, `PageSize` and the statuses that analysts set (`Triage`).

### BroadcastHub

`at` says how far the endpoint of each connection is, `active` is the registry. A broadcast is
the copy of the registry it has yet to go through and those whose send failed; sections
under the asyncio lock are single steps. Its definitions have names of their own (`HubInit`,
`HubSpec`), because `DeliveryProofs` extends it beside `MonitorPage`. `owed` and `sent` are history. A toggle may cancel
the broadcast of a loop, after which nobody is removed.

### MonitorPage

`call` holds the page's requests and whether their number is the last, `page` is
`SOC_STATE.monitoringState`, `beats` the heartbeats in flight. The server is reduced to what
it reports and who holds its lock. What the code does and the model shows: the simulation's
request carries no number, so its answer is always taken; a late heartbeat sets ACTIVE after
a pause; a focus during a toggle voids the toggle's answer, and the page then shows what the
status said, PAUSING perhaps, until somebody asks again. The property is that this heals.

## The runs

Deadlock is not checked in any run: after a shutdown, and once the calls of a behaviour are
used up, the system really stops; an audit ends; and a session store, a database or a hub may
be left alone.

| run | question | instance | distinct states |
|---|---|---|---|
| `lifecycle_safety` | Does a pause hold against threads and loops that outlive it, are the counters exact, and is PAUSED reported only when it is quiet? | 2 clients, 2 tasks, 2 workers, a manual client, a reader, 4 calls | 1,079,755 |
| `lifecycle_preferences` | Do both toggles survive failing saves, crashes and restarts? | 2 clients, 3 tasks, 1 worker, 4 calls, 3 starts | 208,660 |
| `lifecycle_liveness` | Do calls return, does monitoring go on, is a late pause confirmed? | 2 clients, 2 tasks, 2 workers, a manual client, a reader, 2 calls | 179,164 |
| `write_while_paused` | (violated) Does an automatic audit write after PAUSED? | 1 client, 2 tasks, 2 workers, a manual client, 3 calls | |
| `incident_store` | Do incidents, links, windows and counts of what is ingested agree, and is all of it recorded in one step? | 2 sessions, 4 alerts of a key, one a drill's, 2 incidents, cap 2, 1 deletion | 615,675 |
| `recurrence` | Does every event count at most once, and exactly once unless written over? | 1 upload, 2 audits, 5 events of 2 keys, 2 alerts, batches of 2 | 305,146 |
| `sensor` | Is what lasts stored, whatever is remembered, pruned, rolled back or cleared, and what becomes of a file that is known? | the loop's thread and a manual one, a process and a startup file, 2 events (one appears, is discarded, is cleared) | 596,436 |
| `host_audit` | Was every finding true, and is what lasted found? | 2 processes, 3 sockets, 2 interfaces, 2 log entries, 2 changes, 2 kinds of failing read | 976,688 |
| `session_store` | Do the bounds hold, and does every lockout end? | 2 requests, 1 browser, 3 tokens, 2 sessions at most, 1 attempt | 343,788 |
| `hub` | Is everybody who stays served exactly once? | 2 analysts, a guest, a loop and a request that broadcast | 735,648 |
| `views` | Do figures fit together, do guests see demonstrations only, and who changes rows? | a reader and a writer, 5 kinds of credentials, 2 alerts, 1 incident | 1,372,801 |
| `page` | Does the page wait for nothing, and follow the server? | 2 requests at once, another client, 1 socket, 2 clicks, 1 failure | 335,634 |

### Why the bounds are enough

* Two clients make a call wait for the lock while another is inside; four calls are a
  start, a pause that times out, a start and a pause. `MaxCalls` and `MaxBoots` bound only
  the generation counter and the number of starts. Two workers and two tasks are a cancelled
  loop with its thread and its successor with its thread. The theorems then cover all sizes.
* In `incident_store` the alerts are at 1, 2, 3 and 5 and the window is 2: the drill's, at 2,
  lies between the first two, and the last is adjacent to the one at 3 only. So incidents are
  created apart, merged into, and extended at both ends and out of order, and a drill's session
  can write a window that is too narrow (`EveryWindowCovers` is refuted here). One key puts all
  of it on one incident; a cap of 2 is reached and passed by three alerts. Two sessions are one
  that has read and one that writes; a third would wait for the lock like the second. One
  deletion falls between any two steps of both. The theorems cover any number of keys.
* `recurrence` has two audits, which may both have read one alert, and an upload of three
  events, which flushes a full batch and a rest; its events are adjacent in pairs only. Two
  alerts are one that recurs and one that is made beside it.
* `sensor` has the two conditions for which memory is hardest: a process is known by its id
  and by its signature, a startup file by its name alone. A listener, the firewall and a log
  entry are what a process is without the set of known ones. Two events put an appearance, a
  rollback and a clearing in every order in pairs, each beside expiry and pruning.
* `host_audit` has a listener whose tier depends on both interfaces and the firewall, and two
  changes: one between the two reads, one besides. Two states begin it.
* With two requests, one is always inside a method of `SessionStore` while the other runs
  from start to end. One browser makes them share a cookie, an address and its lockout.
  Three tokens fill a store for two and ask for one more place. One failed attempt locks the
  address out, which the other request, already past its check, then overruns.
* `hub` has one broadcast that a toggle may cancel and one that it may not, and one socket
  that is withheld from.
* `views` has one answer under way while any number of requests, one after another, commit
  beside it. Two alerts of different origin, one incident and a page of one row let every
  figure differ from every other. Drills, samples and audits by request add rows as the
  simulator and uploads do, and the lists are part of the dashboard, so the instance leaves
  them out.
* `page` has a request that is voided by another, a toggle by somebody else, and a request
  that fails.

### Fairness

`MonitorLifecycle!Fairness`: the event loop resumes what is ready (the calls, the loops'
wake-ups, the end of a broadcast), since every coroutine it runs gives it up; threads that
run a scan, a drill or a status request go on. Nothing is assumed about clients, crashes or
shutdowns; that a broadcast ends relies on a send being taken or failing.
`TimedOutPauseResolves` says in its own text what it needs besides: that the status keeps
being asked for, and manual scans end. In `SessionStore` time passes and a request that has
begun goes on. In `SensorSignatures` time passes, the loop ticks on (monitoring is on) and a
thread in an audit gets on with it; conditions, discards and clearings owe nothing. In
`MonitorPage` requests are served, answers and heartbeats arrive, and audits end; the service
of a toggle is strongly fair because the lifecycle lock is first in, first out; no user
clicks and no window gains focus by fairness, and `PageFollowsServer` says in its own text
that it needs focus again and again. The other modules state no fairness and have no
liveness property.

### What the violated run shows

`write_while_paused`: `run_full_audit` leaves the counter before `_audit_worker` calls
`correlate_alerts`, which commits, so PAUSED can be confirmed in between
(`host_sensor.py:1197`).

### What the documentation says besides, and the code does not do

These are stated next to the properties that do hold. TLC refutes each in the instance of the
run named, if it is added there.

* `OneAutomaticWorker` (`lifecycle_safety`): the guard of a start reads a counter which an
  audit raises only after its first check (`stream.py:304`), so two workers may run side by
  side. The older one notices that its generation is over and rolls back:
  `NoCommitAcrossResume` holds all the same.
* `OneIncidentPerAlert` (`incident_store`): two sessions read an alert that a drill has
  committed, before either links it (`correlator.py:44`). `OneIncidentPerIngested` holds.
* `NoOrphanLinks` (`incident_store`): all records are cleared between a drill's commit and the
  first write of its correlation; its links refer to alerts that are gone (`routes.py:784`).
  `IngestedLinksAreWhole` and `ImplementsLedger` hold.
* `EveryWindowCovers` (`incident_store`): `first_seen` and `last_seen` are the least and the
  greatest time of what the session has read and adds (`correlator.py:213-224`); a drill's
  session that read the incident before an upload widened it writes the narrower window over
  the wider. `WindowsCoverAlerts` holds of incidents without drills.
* `FullIncidentsDoNotGrow` (`incident_store`): `alert_count` is set after the flush. For the
  next cluster of the key the cached object is refused as full, and the query, which reads
  the table, returns the same incident (`correlator.py:243`).
* `EveryEventIsCounted` (`recurrence`): two sessions count one alert (`host_sensor.py:916`).
  `CountsAreEvents` holds.

## What is proved

| theorem | states | of |
|---|---|---|
| `TypeCorrect` | `TypeOK` | `MonitorLifecycle` |
| `NoCommitAcrossResumeHolds` | `NoCommitAcrossResume` | `MonitorLifecycle` |
| `CountersExact` | `CountersAreExact` | `MonitorLifecycle` |
| `MonitorLoopOwned` | `MonitorLoopIsOwned` | `MonitorLifecycle` |
| `PausingHeld` | `PausingIsHeld` (of no run) | `MonitorLifecycle` |
| `ChoiceDurable` | `ChoiceIsDurable` | `MonitorLifecycle` |
| `BroadcastCurrent` | `BroadcastIsCurrent` | `MonitorLifecycle` |
| `PausedReportQuiet` | `PausedReportIsQuiet` | `MonitorLifecycle` |
| `Refinement` | `ImplementsAuthority` | `MonitorLifecycle` |
| `SimulatorLoopOwned` | `SimulatorLoopIsOwned`, if no cancellation times out | `MonitorLifecycle` |
| `AuthorityIsCurrent` | `SealedIsCurrent`, of `AuditAuthority` over the lifecycle's audits | `AuditAuthority` |
| `SealedStaysCurrent` | `SealedIsCurrent`, of the lifecycle | `MonitorLifecycle` |
| `StoreTypes` | `StoreTypeOK` | `IncidentStore` |
| `IngestionIsAtomic` | `NothingIngestedIsLeftOut` | `IncidentStore` |
| `IngestedOnce` | `OneIncidentPerIngested` | `IncidentStore` |
| `IngestedLinksWhole` | `IngestedLinksAreWhole` (of no run: it follows from the ledger) | `IncidentStore` |
| `WindowsCover` | `WindowsCoverAlerts` | `IncidentStore` |
| `CountsAreOfLinks` | `CountsAreLinks` | `IncidentStore` |
| `ClosedStaysClosed` | `ClosedIncidentsDoNotGrow` | `IncidentStore` |
| `StoreImplementsLedger` | `ImplementsLedger` | `IncidentStore` |
| `LedgerKeepsEach` | `EachInItsIncident`, of `IncidentLedger` | `IncidentLedger` |
| `StoreKeepsEach` | `EachInItsIncident`, of the store | `IncidentStore` |
| `CountsAreOfEvents` | `CountsAreEvents` | `AlertRecurrence` |
| `WindowsEnclose` | `WindowsEncloseEvents` | `AlertRecurrence` |
| `ClosedDoNotRecur` | `ClosedAlertsDoNotRecur` | `AlertRecurrence` |
| `RepeatsSilenced` | `RepeatsAreSilenced` | `SensorSignatures` |
| `KnownFilesHeld` | `KnownFilesAreAccountedFor` | `SensorSignatures` |
| `SensorTypes` | `SensorTypeOK` (of no run) | `SensorSignatures` |
| `FindingsAreTrue` | `FindingsWereTrue` | `HostAudit` |
| `LastingIsFound` | `LastingIsReported` | `HostAudit` |
| `ListenersServed` | `ListenersAreServed` and the type invariant | `BroadcastHub` |
| `NobodyWaits` | `NobodyWaitsForNothing` | `MonitorPage` |
| `ChangesAuthorised` | `ChangesAreAuthorised` | `SocViews` |
| `GuestsSeeOnlyDemonstrations` | `GuestsSeeDemonstrations` | `SocViews` |
| `AnswersAgreeAlways` | `AnswersAgree` | `SocViews` |
| `ReportsAgree` | the report of any alerts adds up | `MitreReport` |
| `LimitsHold` | `StoreIsBounded` | `SessionStore` |
| `SessionTypes` | `SessionTypeOK` (of no run) | `SessionStore` |
| `FailuresBounded` | `FailuresAreBounded` | `SessionStore` |
| `LoginsHaveOneSession` | `OneSessionPerLogin` | `SessionStore` |
| `TicketsAreSingleUse` | `TicketsAdmitOnce` | `SessionStore` |
| `EvictionsAreFair` | `EvictionIsFair` | `SessionStore` |
| `ScoreIsInBounds` | a score is from 0 to 100, as the table of alerts demands | `RiskEngine` |
| `EvidenceNeverLowers` | more evidence lowers neither score nor severity | `RiskEngine` |

**The lifecycle**, for any number of clients, tasks, workers, manual clients, readers, calls
and starts. The assumption is `ConstantsOK`: the sets of workers and manual clients are
finite, `None` is neither a task nor a worker, the bounds are numbers and the switches
Boolean. The argument is one inductive invariant, `IInv`. None of the properties is inductive
alone:

* `NoCommitAcrossResume` needs that a worker about to commit is counted
  (`CountersAreExact`), so that `StartHost` finds the counter above zero, and that there is
  none when a boot switches monitoring on (`EmptyWhenDown`).
* `EmptyWhenDown` needs that nobody serves calls in a process that is stopping
  (`ServedOnlyWhenUp`).
* `PausingIsHeld` needs that the call inside the lock is the head of the queue
  (`HolderIsHead`), so that only one can show or clear PAUSING.
* `ChoiceIsDurable` needs that the manager's switches are what the calls asked for while the
  process serves calls (`FlagsAreChoice`), as each toggle saves both, and shutdown clears the
  switches without saving them.
* `BroadcastIsCurrent` needs that a broadcasting loop still has the worker whose findings
  it sends (`BroadcastHasWorker`), that no other loop awaits it (`AwaitsAreExclusive`), and
  that the loop is the one a pause cancels (`MonitorLoopIsOwned`).
* `PausedReportIsQuiet` needs that a loop that outlives its pause leaves the pause timed out
  (`SurvivorIsTimedOut`), besides `PausingIsHeld` and `MonitorLoopIsOwned`.

`SimulatorLoopIsOwned` is inductive beside `IInv`, but only if a cancelled loop ends within the
wait for it (`~CancelMayTimeOut`, the theorem's hypothesis): `stop_simulation` forgets its task
whether or not that has ended, and a later start makes another.

`MonitorLifecycleProofs` has a lemma for the step of each conjunct. `Refinement` maps every
action to an action of `AuditAuthority` or to a stutter: a refused start and every step of a
status reader stutter, `StartHost` and a `Boot` are `TurnOn` because no audit is sealed then,
`StopHost` and `Shutdown` are `TurnOff`, and the step of a worker that passes its last check
is `Seal`. `SealedIsCurrent` follows from the actions of `AuditAuthority` alone, and so holds of the
lifecycle (`SealedStaysCurrent`).

**The audit**, for any processes, sockets, interfaces and log, any number of changes and
failures, from `HostAuditConstantsOK`. The invariant adds that what has been read of the
interfaces lies between what was always and what was ever up (`LookIsWithin`). As the audit
goes on these bounds only widen (`BoundsWiden`), and the tier of a wildcard listener grows
with the interfaces (`TierMonotone`), so a tier once within its bounds stays there.
`LastingIsReported` has an invariant of its own: only what the audit reports, beside what it
began with, silences a finding (`SeenIsReported`), and in each phase whatever has been there
throughout is reported or still to be looked at, a listener perhaps half judged (`Progress`).
What is reported stays so, and a change of the host or a failed read can only make less
lasting (`ReportsLast`).

**The incident store**, for any number of sessions, alerts, incidents and keys, every window,
cap and number of deletions, and any set of drills, from `StoreConstantsOK` and `NoneIsNoRow`
(Python's `None` is neither a session nor an incident's id nor a row). One inductive
invariant (`IInv`) carries the seven theorems on properties. At its heart is that a session with an ingested
alert is the writer from the insertion to the end:

* It has all that is ingested and not yet linked (`WriterHasTheRest`), and every other session
  has drills only (`OutsidersHaveDrills`), so nothing is left out and nothing linked twice
  (`OneEach`). That its clusters share no alert (`ClustersApart`) takes that the clusters by time
  are a partition (`ClustersPartition`).
* Its objects are the rows as the draft has them, but for the count that is pending (`Fresh`),
  and its target is open, which gives the windows (`Covered`), the counts (`CountsHold`: every
  count is right or pending in the writer) and `ClosedIncidentsDoNotGrow` (`NewLinksAreOpen`).
  The objects of other sessions may be stale; what they write counts for an incident once a
  drill is linked to it.
* A deletion has found every link to an ingested alert (`DeletesFound`), so both ends go
  together (`Whole`).

The refinement (`StoreImplementsLedger`) maps the commit of a session to `Record`
(`CommitRecords`), `PatchIncident` to `Triage`, a deletion to `Delete` for an ingested alert
(`DeletionDeletes`), a clearing to `Clear`, and every other step to a stutter: it changes no row
that is committed. `IInv` is not enough for it, and `EntriesHold` is proved inductive beside it:
an incident that the writer has opened is open until it commits, ingested alerts are linked to
incidents of their key in the draft already, and a deletion is of one alert. That `Record` opens
only what is new and leaves other incidents alone is where the write lock is needed: what the
draft and the database differ in, the writer did. `LedgerKeepsEach` is proved of the ledger's
actions alone; with the refinement the store has it too (`StoreKeepsEach`).

The attempt showed that `WindowsCoverAlerts`, as it first stood, was no theorem: it held in an
instance whose drill had a key of its own, and fails when a drill shares one (see
`EveryWindowCovers` above). The property and the instance now say so.

**Recurrence**, for any uploads, audits, alerts and events, every window and batch, from
`RecurrenceConstantsOK` and `NoneIsNoRow`. An event is in one place: to be ingested, put on
alerts by one session, or committed (`EventsApart`), and an alert that a session has made is
known to no other (`AlertsApart`). `SessionsFollow` says what a session knows of an alert.
Before its first flush, its own events on top of what it read (`Reads`), which others may
change meanwhile; from then on it holds the lock, and the row is what it wrote (`Writes`),
unless it has overwritten somebody. `RowsAccount` is then `CountsAreEvents` and
`WindowsEncloseEvents` of what is committed, and `ClosedAreLeft` that a session has put
nothing on what it found closed.

**The signatures**, for any threads, conditions, windows and limits of the cache, from
`SensorConstantsOK`. A thread that has found nothing recent makes its finding whatever others
enter in between. So `RepeatsAreSilenced` is not inductive, but the findings of a condition and
the threads that are about to make another (`Marking`) are together never more than the threads
(`ReportsInv`); and what is not recent has not been reported in the window that is open.

A startup file is known as soon as it is listed, which is before it is found, and
`KnownFilesAreAccountedFor` says what becomes of it. That is not inductive either: an audit that
has the file to look up may find its signature recent and let go of it. So `FilesInv` adds that
a file with a recent signature is not merely at hand: it is in the database, its finding is in
an audit, or that finding was rolled back or deleted. An audit that lists files also has no
other kind of condition to look up (`InPlace`), so that a failure that drops the rest of the
event log drops no file. `FilesStep` says once what a step of one thread must keep of what it
had at hand, and each action is shown to be such a step. TLC has checked `FilesInv` and
`InPlace` with a process and with a log entry beside the file. `SensorTypes` takes in addition
that what is left of a plan is a suffix of it (`SuffixesOf`).

**The page**, for any requests, sockets, clicks, failures and clients, from `PageConstantsOK`.
At most one request has the last number (`AwaitedOnce`), an answer is a state of the server and
a toggle of the simulation has no number (`Sane`), and whoever holds the server's lock has not
been answered (`HolderIsHeld`).

**The hub**, for any sockets and broadcasters. The invariant counts the turns: who has been
let off a copy was sent the message once or withheld it (`CountsAreTurns`), and who failed is
gone (`DeadAreGone`), so that the removal at the end of a broadcast hits nobody who is there.

**The answers**, for any requests, credentials, sessions and bounds, from
`ViewsConstantsOK`. The invariant follows what is left of each script (`RequestInv`): if
there is a commit in it, the request is already permitted what it will do; and each row has
the origin its producer stated, with incidents linking rows that are there (`RowsInv`).
`AuthoriseInv` carries the decision to the handler, and `FewerSessions` says that a session
that ends takes no right away that was used; `DemonstrationsAreSimulated` is why the filter
by origin shows guests nothing else.

`AnswersAgree` speaks of answers that are ready. Beside `IInv` a second invariant, `AInv`,
speaks of those under way, and TLC has checked it on the instance of `views`: the database has
finitely many alerts, each of a known severity and status (`KnownRows`), and a request that has
done n steps of its script has the figures of those steps and no others (`StepsDone`). Each
figure is tied to the rows that are committed now (`FiguresHold`): equal to their number while
nothing was committed (`calm`), at most that number after others have added rows
(`FiguresHoldOfMore`, `GrowsAlerts`), forgotten after anything else. The relations between two
figures follow from the order of the queries, which `ScriptsAreOrdered` reads off the five
scripts: the dashboard that counts before it fills an empty database has no such order, and is
the mutant. That analysts are told of no incident without an alert rests on the links of
`RowsInv` (`IncidentsShownHaveAlerts`).

The figures by severity, status and tactic are sums over a set (`MapThenSumSet`), and a report
is sorted. Both are defined by a CHOOSE, and an induction over the set cannot be instantiated
here; so the lemmas name the function of all subsets that satisfies the sum's recursion
(`SumsOf`), show that two such functions differ on no smallest subset (`SmallestSet`,
`TotalIs`), and that the numbers of rows are such a function (`CountsAddUp`). That
there is a sorted sequence needs no induction: `SortedExists` breaks the ties of the key by a
numbering of the elements and gives each the place one after the number of elements below it,
which is a bijection onto the places; `SortedByIs` then says that `SortedBy` has each element
exactly once. `ReportsAgree` uses both: the tactics of a report, which are distinct
(`TacticsAreDistinct`) and all of the catalogue (`TacticsAreStandard`), each count their own
alerts.

**The session store**, for any requests, browsers, tokens and tickets, all limits and
lifetimes, from `SessionConstantsOK` and `NoneIsNoValue` (Python's `None` is neither a
session nor a number). `StoreIsBounded` alone is not inductive. A full store must have an
oldest session to evict, and a first ticket to expire, which takes that its entries are
sessions and times (`OldestExists`, `SoonestExists`), finitely many, and the limits at least
one; that a new entry is a session takes that whoever is to create one has been found to be
a user (`RequestsInv`). `RoomIs` says what a login at capacity leaves. `TicketsAdmitOnce`
needs that a ticket which has opened a connection is no longer in the store (`TicketsInv`),
and `OneSessionPerLogin` that a fresh token is not the login of a session that is there.
`FailuresAreBounded` needs that attempts are in the order they came (`InOrder`), that an address
which has reached the limit is locked out until the last of those attempts is out of the window
(`Outlasted`), and that its recent failures together with the requests that have passed the
check stay below the limit and the number of requests (`Fits`).

**The risk score** is arithmetic: each summand is a number within its bounds
(`SummandsAreNumbers`), and grows with the evidence (`FrequencyGrows`, `SeverityGrows`). It is in `SocViewsProofs`, because
`SocViews` scores the events it stores.

## What is only model-checked

Liveness is beyond TLAPS 1.4.5: `CallsReturn`, `MonitoringKeepsScanning`,
`TimedOutPauseResolves`, `LockoutsEnd`, `LastingConditionsAreStored`,
`StartupFilesAreStoredOrMissed` and `PageFollowsServer`.

Every invariant and every action property that a run checks is stated by a theorem.

The properties listed above that the code does not have are refuted by TLC, and are nobody's
theorem. The type invariants of `AlertRecurrence`, `MonitorPage`, `HostAudit` and `BroadcastHub`
are proved with the inductive invariants; those of `SensorSignatures` and `SessionStore` are
theorems of their own. None of them is a property of a run.

## What is not modelled

* The parsers, upload validation, remediation texts and log redaction turn text into text
  or records, without state. Of `mitre_mapper.py` the keywords by which `map_event` finds a
  technique and the wording of the reports are left out, of the browser client everything
  but the control of monitoring.
* The synchronous wrappers of the lifecycle, the background loop they start and cancellation
  across loops: the application calls the coroutines.
* The audit trail is a bounded buffer that is only appended to. Migrations and launcher run
  before anything else does; the benchmark and the evaluator measure over fixed data, offline.
* The commands of the operating systems, their output and `get_host_info`.

## Plan

1. An abstract specification of `AlertRecurrence`, as `IncidentLedger` is of the incident store:
   events are counted when their session commits.
2. `LoopOwnership`: the synchronous wrappers, the background loop and the owner lock.
3. The keywords of `map_event` against the catalogue of techniques: what an event maps to is
   a technique of the catalogue, and the order of the rules decides ties.
