------------------------------- MODULE SocViews -------------------------------
(***************************************************************************)
(* What requests are answered, and what they may change (app/main.py,      *)
(* app/api/routes.py, app/security/auth.py, app/security/simulator.py),    *)
(* over one database that all of them use at the same time.                *)
(*                                                                         *)
(* A request is a client's or the simulator's tick.  It is resolved to a   *)
(* user, passes or fails the check of its role, and runs the queries and   *)
(* commits of its handler one after the other; each query sees what is     *)
(* committed at its moment, so the figures of one answer belong to several *)
(* moments.  AlertNormalizer makes the alerts, Authorisation decides,      *)
(* MitreReport summarises.                                                 *)
(*                                                                         *)
(* The filters of the lists, the texts and the incidents' own columns are  *)
(* left out.  What a correlation and a recurrence do to the rows is a      *)
(* choice here; IncidentStore and AlertRecurrence have it in full, as      *)
(* SessionStore has tickets and BroadcastHub the order of the broadcasts.  *)
(***************************************************************************)
EXTENDS AlertNormalizer, Authorisation, MitreReport

CONSTANTS
  Requests,      \* places for requests that are under way
  Kinds,         \* what may be asked for at each of them
  Credentials,   \* the credentials that clients present for each kind
  RoleOf,        \* the role of each session
  ALLOWED_ORIGINS, Headers,  \* settings.ALLOWED_ORIGINS; the Origin headers that sockets bring
  Events,        \* the raw events that each kind of request may bring
  Triage,        \* bound: the statuses that analysts set
  MaxAlerts,     \* bound: alerts ever stored
  MaxIncidents,  \* bound: incidents ever opened
  PageSize       \* rows on a page

VARIABLES
  db,            \* the alerts and incidents that are committed
  live,          \* the sessions that have not ended
  authEnabled,   \* settings.AUTH_ENABLED
  demo,          \* settings.DEMO_MODE
  req            \* the requests under way

vars == <<db, live, authEnabled, demo, req>>

Statuses == {"OPEN", "INVESTIGATING", "RESOLVED", "FALSE_POSITIVE"}

\* Who is let in by get_current_user alone, and the role that require_role wants of the others.
Views == {"alerts", "alert", "incidents", "incident", "stats", "dashboard", "report", "host", "socket"}
Changes == {"upload", "samples", "audit", "drill", "set_alert", "set_incident", "delete", "clear"}
MinRole(kind) ==
  IF kind \in {"delete", "clear", "logs"} THEN "ADMIN" ELSE IF kind \in Changes THEN "ANALYST" ELSE "VIEWER"

\* Mutant: the dashboard counts its alerts before it fills an empty database.
CountedFirst(guest) ==
  IF guest THEN <<"list", "incidents", "total", "incident_total", "severities", "statuses">>
  ELSE <<"count", "total", "fill", "incident_total", "severities", "statuses", "list", "incidents">>

\* The queries of dashboard_view.  To those who have signed in an empty database is filled first.
Dashboard(guest) ==
  IF guest THEN <<"list", "incidents", "total", "incident_total", "severities", "statuses">>
  ELSE <<"count", "fill", "total", "incident_total", "severities", "statuses", "list", "incidents">>

\* The queries and commits of each handler, in their order.
ScriptOf ==
  [alerts |-> <<"list">>, alert |-> <<"find_alert">>, incidents |-> <<"incidents">>,
   incident |-> <<"find_incident", "members">>, report |-> <<"report">>, host |-> <<"host">>, logs |-> <<"logs">>,
   stats |-> <<"incident_total", "total", "severities", "statuses">>, socket |-> <<"ticket", "connect", "feed">>,
   upload |-> <<"upload">>, samples |-> <<"insert", "correlate">>, audit |-> <<"audit", "correlate">>,
   drill |-> <<"insert", "correlate", "total", "incident_total">>, set_alert |-> <<"find_alert", "set">>,
   set_incident |-> <<"find_incident", "members", "cascade">>, delete |-> <<"find_alert", "delete">>,
   clear |-> <<"clear", "audit", "correlate">>,
   simulate |-> <<"insert", "correlate", "total", "incident_total", "severities", "statuses">>]
Script(kind, guest) == IF kind = "dashboard" THEN Dashboard(guest) ELSE ScriptOf[kind]

\* The origin that each producer of alerts states in its events.
StatedOrigin == [simulate |-> "SIMULATED_DEMO", upload |-> "HISTORICAL_LOG", samples |-> "HISTORICAL_LOG",
                 audit |-> "HOST_TELEMETRY", drill |-> "SECURITY_DRILL"]

ASSUME ViewsConstantsOK ==
  /\ PageSize \in Nat /\ Triage \subseteq Statuses
  /\ \A r \in Requests : Kinds[r] \subseteq Views \cup Changes \cup {"logs", "simulate"}
  /\ \A s \in DOMAIN RoleOf : RoleOf[s] \in Role
  /\ \A by \in DOMAIN StatedOrigin : \A raw \in Events[by] : raw.origin = StatedOrigin[by]

Nobody == User("VIEWER", "nobody")
\* A request: what it asks for, who asks, where it is and what is left to do; what its handler
\* has read for its own use (read); and, for the properties, whose alerts a guest has been told of
\* (told), the figures of the answer so far, as long as they can be compared (figures), and what
\* others have committed since the first of them (since).
Asked(kind, cred, user, at, todo) ==
  [kind |-> kind, on |-> 0, cred |-> cred, user |-> user, at |-> at, todo |-> todo, read |-> {}, told |-> {},
   figures |-> <<>>, since |-> "calm"]
Idle == Asked("none", <<>>, Nobody, "idle", <<>>)

Init ==
  /\ db = [alerts |-> <<>>, members |-> <<>>, lastAlert |-> 0, lastIncident |-> 0]
  /\ live = DOMAIN RoleOf
  /\ authEnabled \in BOOLEAN /\ demo \in BOOLEAN
  /\ req = [r \in Requests |-> Idle]

Stored == DOMAIN db.alerts
Open == DOMAIN db.members
IsDemo(a) == db.alerts[a].origin = "SIMULATED_DEMO"

\* The rows behind the queries of a guest, of the simulator, and of somebody who has signed in.
GuestsAlerts == {a \in Stored : IsDemo(a)}
GuestsIncidents == {i \in Open : \A a \in db.members[i] : IsDemo(a)}
Guestlike(q) == IsGuest(q.user) \/ q.kind = "simulate"
Genuine(q) == q.kind = "stats" /\ ~demo
AlertsFor(q) ==
  IF Guestlike(q) THEN GuestsAlerts ELSE IF Genuine(q) THEN Stored \ GuestsAlerts ELSE Stored
IncidentsFor(q) ==
  IF Guestlike(q) THEN GuestsIncidents
  ELSE IF Genuine(q) THEN {i \in Open : \E a \in db.members[i] : ~IsDemo(a)} ELSE Open

\* The answers with more than one figure.
Compared(kind) == kind \in {"stats", "dashboard", "report", "simulate"}
CountBy(A, field, values) == [v \in values |-> Cardinality({a \in A : db.alerts[a][field] = v})]
Page(S) == {P \in SUBSET S : Cardinality(P) = Min({PageSize, Cardinality(S)})}
Makers(A) == {db.alerts[a].by : a \in A}

-----------------------------------------------------------------------------
(* Requests come, are resolved and are checked. *)

Becomes(r, q) == req' = [req EXCEPT ![r] = q] /\ UNCHANGED <<db, live, authEnabled, demo>>

\* get_current_user turns some clients away; a view needs nothing more.
Arrive(r, kind, cred) ==
  LET user == CurrentUser(cred, authEnabled, live, RoleOf) IN
  /\ req[r].at = "idle" /\ kind \in Kinds[r] \ {"simulate"}
  /\ user # Refused
  /\ Becomes(r, IF kind \in Views THEN Asked(kind, cred, user, "work", Script(kind, IsGuest(user)))
                ELSE Asked(kind, cred, user, "check", <<>>))

\* live_threat_simulator_loop: a tick has nobody to answer for.
Tick(r) ==
  /\ req[r].at = "idle" /\ "simulate" \in Kinds[r]
  /\ Becomes(r, Asked("simulate", <<>>, Nobody, "work", Script("simulate", TRUE)))

\* require_role.  Only requests that change something are asked for the CSRF token.
Authorise(r) ==
  LET q == req[r] IN
  /\ q.at = "check"
  /\ Becomes(r, IF /\ RoleSuffices(q.user, MinRole(q.kind))
                   /\ q.kind \in Changes => CsrfVerified(q.user, q.cred, live)
                THEN Asked(q.kind, q.cred, q.user, "work", Script(q.kind, FALSE)) ELSE Idle)

\* A session is ended by a logout, by its expiry or by a later login.
EndSession(s) ==
  /\ live' = live \ {s} /\ s \in live
  /\ UNCHANGED <<db, authEnabled, demo, req>>

-----------------------------------------------------------------------------
(* The queries of a handler. *)

At(r, step) == req[r].at = "work" /\ req[r].todo # <<>> /\ Head(req[r].todo) = step

\* The step is done: these figures are part of the answer, which tells of these alerts.  An
\* answer with something to look at waits to be looked at.
Added(part, figures) ==
  [f \in DOMAIN part \cup DOMAIN figures |-> IF f \in DOMAIN part THEN part[f] ELSE figures[f]]
Figures(q, part) == IF q.since = "changed" \/ ~Compared(q.kind) THEN <<>> ELSE Added(part, q.figures)
Goes(q, part, told) ==
  IF Len(q.todo) = 1 /\ q.kind \notin Views \cup {"simulate"} THEN Idle
  ELSE [kind |-> q.kind, on |-> q.on, cred |-> q.cred, user |-> q.user, read |-> q.read, since |-> q.since,
        at |-> IF Len(q.todo) = 1 THEN "answered" ELSE q.at, todo |-> Tail(q.todo),
        figures |-> Figures(q, part), told |-> IF Guestlike(q) THEN q.told \cup told ELSE {}]
Reply(r, part, A) == Becomes(r, Goes(req[r], part, Makers(A)))
\* The step reads something that a later step of the handler uses.
Knowing(q, read) == [q EXCEPT !.read = read]
Keep(r, read) == Becomes(r, Goes(Knowing(req[r], read), <<>>, {}))
Skip(r) == Reply(r, <<>>, {})

\* 404 and 401, and errors of the database.
Fail(r) == Becomes(r, Idle)

CountAll(r) == At(r, "count") /\ Keep(r, Stored)
CountAlerts(r) ==
  At(r, "total") /\ Reply(r, [total |-> Cardinality(AlertsFor(req[r]))], AlertsFor(req[r]))
CountIncidents(r) ==
  At(r, "incident_total") /\ Reply(r, [incident_total |-> Cardinality(IncidentsFor(req[r]))], {})
CountSeverities(r) ==
  LET A == AlertsFor(req[r])
  IN At(r, "severities") /\ Reply(r, [severities |-> CountBy(A, "severity", DOMAIN SEVERITY_ORDER)], A)

\* The dashboard does not show how many alerts are false positives.
CountStatuses(r) ==
  LET shown == IF req[r].kind = "stats" THEN Statuses ELSE Statuses \ {"FALSE_POSITIVE"}
      A == AlertsFor(req[r])
  IN At(r, "statuses") /\ Reply(r, [statuses |-> CountBy(A, "status", shown)], A)

ListAlerts(r) ==
  /\ At(r, "list")
  /\ \E P \in Page(AlertsFor(req[r])) : Reply(r, [listed |-> Cardinality(P)], P)
ListIncidents(r) ==
  /\ At(r, "incidents")
  /\ \E P \in Page(IncidentsFor(req[r])) : Reply(r, [incidents |-> Cardinality(P)], {})

\* Who has signed in may ask for the report of one origin.
Report(r) ==
  /\ At(r, "report")
  /\ \E wanted \in {Origins} \cup (IF IsGuest(req[r].user) THEN {} ELSE {{o} : o \in Origins}) :
       LET A == {a \in AlertsFor(req[r]) : db.alerts[a].origin \in wanted}
       IN Reply(r, [listed |-> Cardinality(A), summary |-> Summary([a \in A |-> db.alerts[a]])], A)

\* get_host_sensor_status: a guest is told of a host that does not exist, and whether monitoring is on.
TellOfHost(r) ==
  At(r, "host") /\ Becomes(r, Goes(req[r], <<>>, {IF Guestlike(req[r]) THEN "invented" ELSE "measured"}))
ReadLogs(r) == At(r, "logs") /\ Skip(r)

\* The alert or the incident that the path of the request names.
Named(q, id) == [q EXCEPT !.on = id]

\* One alert.  To a guest only one of the demonstration is shown.
FindAlert(r) ==
  /\ At(r, "find_alert")
  /\ \E a \in 1..MaxAlerts :
       IF a \in Stored /\ (Guestlike(req[r]) => IsDemo(a))
       THEN Becomes(r, Goes(Named(req[r], a), <<>>, Makers({a}))) ELSE Fail(r)

\* One incident, and then its alerts, which are looked up when they are first asked for and are
\* those that are shown.  By then the incident may be gone.
FindIncident(r) ==
  /\ At(r, "find_incident")
  /\ \E i \in 1..MaxIncidents : IF i \in Open THEN Becomes(r, Goes(Named(req[r], i), <<>>, {})) ELSE Fail(r)
MembersOf(r) == IF req[r].on \in Open THEN db.members[req[r].on] ELSE {}
Members(r) ==
  /\ At(r, "members")
  /\ IF Guestlike(req[r]) /\ (\E a \in MembersOf(r) : ~IsDemo(a)) THEN Fail(r)
     ELSE IF req[r].kind = "incident" THEN Reply(r, <<>>, MembersOf(r)) ELSE Keep(r, MembersOf(r))

-----------------------------------------------------------------------------
(* A browser that opens the socket: it asks for a ticket, connects with it, and listens. *)

\* request_websocket_ticket gives guests one in a demonstration only; who gets none connects without.
GiveTicket(r) ==
  At(r, "ticket") /\ Becomes(r, Goes(Named(req[r], IF IsGuest(req[r].user) /\ ~demo THEN 0 ELSE 1), <<>>, {}))

\* authenticate_websocket, for a ticket that still admits or one that is late.
As(q, user) == [q EXCEPT !.user = user]
Connect(r) ==
  LET q == req[r] IN
  /\ At(r, "connect")
  /\ \E origin \in Headers, held \in {<<>>} \cup (IF q.on = 1 THEN {<<q.user>>} ELSE {}) :
       LET user == SocketUser(origin, ALLOWED_ORIGINS, q.cred, held, authEnabled, demo, live, RoleOf)
       IN IF user = Refused THEN Fail(r) ELSE Becomes(r, As(Goes(q, <<>>, {}), user))

\* broadcast: what is genuine is for administrators and analysts; a heartbeat has a form for others.
Privileged(u) == ~IsGuest(u) /\ u.role \in {"ADMIN", "ANALYST"}
Telling(q, told) == [q EXCEPT !.told = told]
Hears(r, by) ==
  At(r, "feed") /\ Becomes(r, Telling(req[r], IF Privileged(req[r].user) THEN {} ELSE {by}))
HearAlert(r) ==
  \E a \in Stored : (db.alerts[a].origin = "HOST_TELEMETRY" => Privileged(req[r].user)) /\ Hears(r, db.alerts[a].by)
HearHeartbeat(r) == Hears(r, IF Privileged(req[r].user) THEN "measured" ELSE "invented")
Disconnect(r) == At(r, "feed") /\ Fail(r)

-----------------------------------------------------------------------------
(* The commits of a handler. *)

\* A commit of another request adds rows, or does more than that.
Grows(old, new) ==
  /\ DOMAIN old.alerts \subseteq DOMAIN new.alerts /\ \A a \in DOMAIN old.alerts : new.alerts[a] = old.alerts[a]
  /\ DOMAIN old.members \subseteq DOMAIN new.members
  /\ \A i \in DOMAIN old.members : old.members[i] \subseteq new.members[i]
Since(q, since) == [q EXCEPT !.since = since]
Forget(q) == [q EXCEPT !.figures = <<>>]
Beside(q, new) ==
  IF q.figures = <<>> \/ new = db THEN q
  ELSE IF Grows(db, new) THEN Since(q, "grown") ELSE Forget(Since(q, "changed"))

Commit(r, new) ==
  /\ db' = new
  /\ req' = [p \in Requests |-> IF p = r THEN Goes(req[r], <<>>, {}) ELSE Beside(req[p], new)]
  /\ UNCHANGED <<live, authEnabled, demo>>

Row(by, raw) ==
  LET n == Normalize(raw)
  IN [by |-> by, origin |-> n.origin, severity |-> n.severity, technique |-> n.technique, status |-> n.status]
With(row) ==
  LET n == db.lastAlert + 1
  IN [alerts |-> [a \in Stored \cup {n} |-> IF a = n THEN row ELSE db.alerts[a]], members |-> db.members,
      lastAlert |-> n, lastIncident |-> db.lastIncident]

\* correlate_alerts puts every alert without an incident into one, new or not; outside of a
\* demonstration it leaves the simulator's alone.
Unlinked(d) ==
  {a \in DOMAIN d.alerts : /\ demo \/ d.alerts[a].origin # "SIMULATED_DEMO"
                           /\ \A i \in DOMAIN d.members : a \notin d.members[i]}
Joined(d, f, last) ==
  [alerts |-> d.alerts, lastAlert |-> d.lastAlert, lastIncident |-> last,
   members |-> [i \in DOMAIN d.members \cup Range(f) |->
                  (IF i \in DOMAIN d.members THEN d.members[i] ELSE {}) \cup {a \in DOMAIN f : f[a] = i}]]
Correlated(d) ==
  UNION {{Joined(d, f, last) : f \in {g \in [Unlinked(d) -> DOMAIN d.members \cup (d.lastIncident + 1)..last] :
                                        (d.lastIncident + 1)..last \subseteq Range(g)}} :
         last \in d.lastIncident..MaxIncidents}

\* Samples, drills and the simulator commit their alert and correlate afterwards.
Stores(by) == {With(Row(by, raw)) : raw \in {e \in Events[by] : db.lastAlert < MaxAlerts}}
Insert(r) == At(r, "insert") /\ \E new \in Stores(req[r].kind) : Commit(r, new)
Correlate(r) == At(r, "correlate") /\ \E new \in Correlated(db) : Commit(r, new)

\* Uploads and audits commit alerts and incidents at once.  An upload correlates also if it only
\* repeats what is there; an audit that finds nothing does not.
Ingest(r, by) == \E new \in UNION {Correlated(d) : d \in Stores(by)} : Commit(r, new)
Upload(r) == At(r, "upload") /\ (Ingest(r, "upload") \/ \E new \in Correlated(db) : Commit(r, new))
Audit(r) == At(r, "audit") /\ (Ingest(r, "audit") \/ Skip(r))

\* The dashboard of an empty database runs an audit, if monitoring is on.
Fill(r) == At(r, "fill") /\ req[r].read = {} /\ Ingest(r, "audit")
FillNothing(r) == At(r, "fill") /\ Skip(r)

Holding(alerts, members) ==
  [alerts |-> alerts, members |-> members, lastAlert |-> db.lastAlert, lastIncident |-> db.lastIncident]
Clear(r) == At(r, "clear") /\ Commit(r, Holding(<<>>, <<>>))
\* Monitoring that is on scans anew, and correlates; monitoring that is paused does neither.
RescanPaused(r) == At(r, "audit") /\ req[r].kind = "clear" /\ Becomes(r, Idle)

\* A change of a row that has gone meanwhile is an error.
Relabelled(A, s) ==
  Holding([a \in Stored |-> IF a \in A THEN [db.alerts[a] EXCEPT !.status = s] ELSE db.alerts[a]], db.members)
SetAlert(r) ==
  /\ At(r, "set")
  /\ IF req[r].on \in Stored THEN \E s \in Triage : Commit(r, Relabelled({req[r].on}, s)) ELSE Fail(r)
DeleteAlert(r) ==
  LET a == req[r].on IN
  /\ At(r, "delete")
  /\ IF a \in Stored
     THEN Commit(r, Holding([b \in Stored \ {a} |-> db.alerts[b]], [i \in Open |-> db.members[i] \ {a}]))
     ELSE Fail(r)
Cascade(r) ==
  /\ At(r, "cascade")
  /\ IF req[r].on \in Open /\ req[r].read \subseteq Stored
     THEN \E s \in Triage : Commit(r, Relabelled(req[r].read, s)) ELSE Fail(r)

Answer(r) == req[r].at = "answered" /\ Fail(r)

-----------------------------------------------------------------------------

Request(r) ==
  \/ \E kind \in Kinds[r] \ {"simulate"} : \E cred \in Credentials[kind] : Arrive(r, kind, cred)
  \/ Tick(r) \/ Authorise(r)
  \/ CountAll(r) \/ CountAlerts(r) \/ CountIncidents(r) \/ CountSeverities(r) \/ CountStatuses(r)
  \/ ListAlerts(r) \/ ListIncidents(r) \/ Report(r) \/ TellOfHost(r) \/ ReadLogs(r)
  \/ FindAlert(r) \/ FindIncident(r) \/ Members(r)
  \/ GiveTicket(r) \/ Connect(r) \/ HearAlert(r) \/ HearHeartbeat(r) \/ Disconnect(r)
  \/ Insert(r) \/ Correlate(r) \/ Upload(r) \/ Audit(r) \/ Fill(r) \/ FillNothing(r)
  \/ Clear(r) \/ RescanPaused(r)
  \/ SetAlert(r) \/ DeleteAlert(r) \/ Cascade(r) \/ Answer(r)

Next == (\E r \in Requests : Request(r)) \/ (\E s \in live : EndSession(s))

Spec == Init /\ [][Next]_vars

-----------------------------------------------------------------------------
(* Properties. *)

\* What an answer tells a guest, and what the simulator broadcasts to guests, comes from alerts
\* that the simulator made, whatever words and marks are in the events of the others; and it is
\* never a measurement of the host.  What is broadcast to sockets whose users are no analysts is
\* never a finding or a measurement of the host, also when a ticket or a session ended before.
GuestsSeeDemonstrations ==
  \A r \in Requests :
    LET q == req[r] IN
    IF q.kind = "socket" THEN q.told \cap {"audit", "measured"} = {}
    ELSE q.told \subseteq {"simulate", "invented"}

Total(f) == MapThenSumSet(LAMBDA v : f[v], DOMAIN f)
TotalOf(tactics) == Total([i \in DOMAIN tactics |-> tactics[i].alert_count])

CountsAgree(a, all, calm) ==
  /\ Total(a.severities) >= a.total
  /\ calm => Total(a.severities) = a.total /\ Total(a.statuses) <= a.total
  /\ all => Total(a.statuses) >= Total(a.severities)

\* Outside of a demonstration an analyst is never told of incidents without alerts.
IncidentsHaveAlerts(a) == a.incident_total > 0 => a.total > 0

ListsAgree(a, guest, calm) ==
  /\ calm => a.listed = Min({PageSize, a.total}) /\ a.incidents = Min({PageSize, a.incident_total})
  /\ IF guest THEN a.listed <= a.total ELSE a.listed >= Min({PageSize, a.total})

SummaryAgrees(a) ==
  LET s == a.summary IN
  /\ s.total_alerts = a.listed /\ s.mapped_alerts + s.unmapped_alerts = s.total_alerts
  /\ TotalOf(s.tactics) = s.mapped_alerts /\ TotalOf(s.matrix_grid) = s.mapped_alerts
  /\ Len(s.top_techniques) <= 10 /\ (s.mapped_alerts > 0) = (s.highest_severity # "NONE")

\* The figures of one answer agree with each other: exactly, if nothing was committed by others
\* between its queries; and in the order of its queries, if what was committed only added rows.
AnswersAgree ==
  \A r \in Requests :
    LET q == req[r]  calm == q.since = "calm" IN
    q.at = "answered" /\ q.since # "changed" =>
      /\ q.kind \in {"stats", "dashboard", "simulate"} => CountsAgree(q.figures, q.kind = "stats", calm)
      /\ q.kind = "stats" /\ ~Guestlike(q) /\ ~demo => IncidentsHaveAlerts(q.figures)
      /\ q.kind = "dashboard" => ListsAgree(q.figures, IsGuest(q.user), calm)
      /\ q.kind = "report" => SummaryAgrees(q.figures)

Level(kind) == IF kind \in {"delete", "clear"} THEN 3 ELSE IF kind = "dashboard" THEN 1 ELSE 2

Permitted(q, enabled, alive) ==
  \/ q.kind = "simulate"
  \/ ~enabled /\ q.cred.local
  \/ enabled /\ q.cred.key \in Role /\ ROLE_HIERARCHY[q.cred.key] >= Level(q.kind)
  \/ /\ enabled /\ q.cred.key = "none" /\ q.user.by = "session"
     /\ ROLE_HIERARCHY[RoleOf[q.cred.cookie]] >= Level(q.kind)
     /\ q.kind = "dashboard" \/ q.cred.csrf \/ q.cred.cookie \notin alive

\* Rows change only by the simulator's hand or for a request whose client may change them: on the
\* loopback address without authentication, with a key of a sufficient role, or with a session of
\* a sufficient role that was there when the request came, and then with its token unless the
\* session ended under way.
ChangesAreAuthorised ==
  [][db' # db => \E r \in Requests : req'[r].todo # req[r].todo /\ Permitted(req[r], authEnabled, live)]_vars
=============================================================================
