---------------------------- MODULE SocViewsProofs ----------------------------
(***************************************************************************)
(* For any requests, credentials, sessions and events: rows change only    *)
(* for those who may change them, guests are told of demonstrations only,  *)
(* and the figures of an answer agree.  The inductive invariant follows    *)
(* what is left of each script: a request that has a commit before it has  *)
(* already passed the checks, and the rows of the database keep the origin *)
(* that their producer stated.  For the figures it is joined by a second   *)
(* one, of the figures that are there after each step of a script; it      *)
(* rests on what sums and sorted sequences over finite sets are, for which *)
(* the lemmas name the sum, or the order, and show that there is no other. *)
(* Last, for any event, what its score promises.                           *)
(***************************************************************************)
EXTENDS SocViews, SequenceTheorems, FiniteSetTheorems, WellFoundedInduction, TLAPS

\* The steps that commit, the others, and those of a socket; the producers of alerts also insert them.
Commits == {"correlate", "upload", "audit", "fill", "clear", "set", "delete", "cascade"}
Queries == {"list", "find_alert", "incidents", "find_incident", "members", "incident_total", "total", "severities",
            "statuses", "count", "report", "host", "logs"}
Listening == {"ticket", "connect", "feed"}
StepsOf(kind) ==
  IF kind = "socket" THEN Listening
  ELSE Queries \cup Commits \cup (IF kind \in DOMAIN StatedOrigin THEN {"insert"} ELSE {})

\* A client whose user was resolved from its credential.
Resolved(q, enabled) ==
  \/ q.user = User("ADMIN", "local") /\ ~enabled /\ q.cred.local
  \/ q.user = User(q.cred.key, "api_key") /\ enabled /\ q.cred.key \in Role
  \/ /\ q.user = User(RoleOf[q.cred.cookie], "session") /\ enabled /\ q.cred.key = "none"
     /\ RoleOf[q.cred.cookie] \in Role
  \/ q.user = Guest

RequestInv(q, enabled, alive) ==
  /\ DOMAIN q = DOMAIN Idle
  /\ q.todo \in Seq(StepsOf(q.kind))
  /\ q.at = "check" => q.kind \in Changes \cup {"logs"} /\ Resolved(q, enabled)
  /\ q.kind = "socket" \/ q.todo \in Seq(Queries) \/ Permitted(q, enabled, alive)
  /\ IF q.kind = "socket" THEN q.told \cap {"audit", "measured"} = {} ELSE q.told \subseteq {"simulate", "invented"}

\* Each row has the origin that its producer states, and incidents link alerts that are there.
RowInv(row) ==
  /\ DOMAIN row = {"by", "origin", "severity", "technique", "status"}
  /\ row.by \in DOMAIN StatedOrigin /\ row.origin = StatedOrigin[row.by]
RowsInv(d) ==
  /\ \A a \in DOMAIN d.alerts : RowInv(d.alerts[a])
  /\ \A i \in DOMAIN d.members : d.members[i] \subseteq DOMAIN d.alerts

IInv ==
  /\ live \subseteq DOMAIN RoleOf /\ DOMAIN req = Requests
  /\ RowsInv(db) /\ \A r \in Requests : RequestInv(req[r], authEnabled, live)

-----------------------------------------------------------------------------
(* Requests. *)

LEMMA FieldsOfAsked ==
  ASSUME NEW kind, NEW cred, NEW user, NEW at, NEW todo
  PROVE  LET q == Asked(kind, cred, user, at, todo) IN
         /\ DOMAIN q = DOMAIN Idle /\ q.kind = kind /\ q.cred = cred /\ q.user = user /\ q.at = at
         /\ q.todo = todo /\ q.told = {}
BY DEF Asked, Idle

LEMMA IdleInv == ASSUME NEW enabled, NEW alive PROVE RequestInv(Idle, enabled, alive)
<1>1. /\ Idle.kind = "none" /\ Idle.at = "idle" /\ Idle.todo = <<>> /\ Idle.told = {}
  BY DEF Idle, Asked
<1>2. \A S : <<>> \in Seq(S)
  BY EmptySeq
<1> QED BY <1>1, <1>2 DEF RequestInv

\* What a step leaves of its request.
LEMMA FieldsOfGoes ==
  ASSUME NEW q, NEW part, NEW told, DOMAIN q = DOMAIN Idle
  PROVE  LET n == Goes(q, part, told) IN
         \/ n = Idle
         \/ /\ DOMAIN n = DOMAIN Idle /\ n.kind = q.kind /\ n.cred = q.cred /\ n.user = q.user
            /\ n.at \in {q.at, "answered"} /\ n.todo = Tail(q.todo)
            /\ n.told = IF Guestlike(q) THEN q.told \cup told ELSE {}
<1>1. DOMAIN q = {"kind", "on", "cred", "user", "at", "todo", "read", "told", "figures", "since"}
  BY DEF Idle, Asked
<1> QED BY <1>1 DEF Goes

LEMMA Scripts ==
  /\ \A kind \in Views \ {"dashboard", "socket"} : ScriptOf[kind] \in Seq(Queries)
  /\ \A kind \in Changes \cup {"simulate"} : ScriptOf[kind] \in Seq(StepsOf(kind))
  /\ ScriptOf["logs"] \in Seq(Queries) /\ ScriptOf["socket"] \in Seq(Listening)
<1>1. ScriptOf["alerts"] \in Seq(Queries) /\ ScriptOf["alert"] \in Seq(Queries)
  BY DEF ScriptOf, Queries
<1>2. ScriptOf["incidents"] \in Seq(Queries) /\ ScriptOf["incident"] \in Seq(Queries)
  BY DEF ScriptOf, Queries
<1>3. ScriptOf["stats"] \in Seq(Queries)
  BY DEF ScriptOf, Queries
<1>4. ScriptOf["report"] \in Seq(Queries) /\ ScriptOf["host"] \in Seq(Queries)
  BY DEF ScriptOf, Queries
<1>5. ScriptOf["logs"] \in Seq(Queries)
  BY DEF ScriptOf, Queries
<1>6. ScriptOf["socket"] \in Seq(Listening)
  BY DEF ScriptOf, Listening
<1> DEFINE inserting == Queries \cup Commits \cup {"insert"}
<1>7. ScriptOf["upload"] \in Seq(inserting) /\ ScriptOf["samples"] \in Seq(inserting)
  BY DEF ScriptOf, Queries, Commits
<1>8. ScriptOf["audit"] \in Seq(inserting) /\ ScriptOf["drill"] \in Seq(inserting)
  BY DEF ScriptOf, Queries, Commits
<1>9. ScriptOf["simulate"] \in Seq(inserting)
  BY DEF ScriptOf, Queries, Commits
<1>10. ScriptOf["set_alert"] \in Seq(Queries \cup Commits) /\ ScriptOf["delete"] \in Seq(Queries \cup Commits)
  BY DEF ScriptOf, Queries, Commits
<1>11. ScriptOf["set_incident"] \in Seq(Queries \cup Commits)
  BY DEF ScriptOf, Queries, Commits
<1>12. ScriptOf["clear"] \in Seq(Queries \cup Commits)
  BY DEF ScriptOf, Queries, Commits
<1>13. \A kind \in {"upload", "samples", "audit", "drill", "simulate"} : StepsOf(kind) = inserting
  BY DEF StepsOf, StatedOrigin
<1>14. \A kind \in {"set_alert", "delete", "set_incident", "clear"} : StepsOf(kind) = Queries \cup Commits
  BY DEF StepsOf, StatedOrigin
<1> HIDE DEF inserting
<1>15. \A kind \in Changes \cup {"simulate"} : ScriptOf[kind] \in Seq(StepsOf(kind))
  BY <1>7, <1>8, <1>9, <1>10, <1>11, <1>12, <1>13, <1>14 DEF Changes
<1> QED BY <1>1, <1>2, <1>3, <1>4, <1>5, <1>6, <1>15 DEF Views

LEMMA ScriptSteps ==
  ASSUME NEW kind \in Views \cup Changes \cup {"logs", "simulate"}, NEW guest \in BOOLEAN
  PROVE  /\ Script(kind, guest) \in Seq(StepsOf(kind))
         /\ \/ kind = "socket" \/ Script(kind, guest) \in Seq(Queries)
            \/ kind \in Changes \cup {"simulate"}
            \/ kind = "dashboard" /\ ~guest
<1>1. CASE kind = "dashboard"
  <2>1. Dashboard(TRUE) \in Seq(Queries)
    BY DEF Dashboard, Queries
  <2>2. Dashboard(FALSE) \in Seq(Queries \cup Commits)
    BY DEF Dashboard, Queries, Commits
  <2>3. Script(kind, guest) = Dashboard(guest)
    BY <1>1 DEF Script
  <2>4. StepsOf(kind) = Queries \cup Commits
    BY <1>1 DEF StepsOf, StatedOrigin
  <2> QED BY <1>1, <2>1, <2>2, <2>3, <2>4, SeqMonotonic
<1>2. CASE kind # "dashboard"
  <2>1. Script(kind, guest) = ScriptOf[kind]
    BY <1>2 DEF Script
  <2>2. CASE kind \in (Views \ {"dashboard", "socket"}) \cup {"logs"}
    <3>1. Queries \subseteq StepsOf(kind) /\ ScriptOf[kind] \in Seq(Queries)
      BY <2>2, Scripts DEF StepsOf
    <3> QED BY <2>1, <3>1, SeqMonotonic
  <2>3. CASE kind = "socket"
    BY <2>1, <2>3, Scripts DEF StepsOf
  <2>4. CASE kind \in Changes \cup {"simulate"}
    BY <2>1, <2>4, Scripts
  <2> QED BY <1>2, <2>2, <2>3, <2>4
<1> QED BY <1>1, <1>2

\* A step whose request tells guests of nothing but demonstrations.
LEMMA GoesInv ==
  ASSUME NEW q, NEW enabled, NEW alive, RequestInv(q, enabled, alive), q.todo # <<>>, NEW part, NEW told,
         Guestlike(q) => told \subseteq {"simulate", "invented"}
  PROVE  RequestInv(Goes(q, part, told), enabled, alive) /\ Goes(q, part, told).todo # q.todo
<1> DEFINE n == Goes(q, part, told)
<1>1. CASE n = Idle
  <2>1. n.todo = <<>>
    BY <1>1 DEF Idle, Asked
  <2> QED BY <1>1, <2>1, IdleInv
<1>2. CASE n # Idle
  <2>1. /\ DOMAIN n = DOMAIN Idle /\ n.kind = q.kind /\ n.cred = q.cred /\ n.user = q.user
        /\ n.at \in {q.at, "answered"} /\ n.todo = Tail(q.todo)
        /\ n.told = IF Guestlike(q) THEN q.told \cup told ELSE {}
    BY <1>2, FieldsOfGoes DEF RequestInv
  <2>2. \A S : q.todo \in Seq(S) => Tail(q.todo) \in Seq(S)
    BY HeadTailProperties
  <2>3. Len(Tail(q.todo)) # Len(q.todo)
    BY HeadTailProperties, LenProperties DEF RequestInv
  <2>4. Permitted(q, enabled, alive) => Permitted(n, enabled, alive)
    BY <2>1 DEF Permitted
  <2>5. n.at = "check" /\ Resolved(q, enabled) => Resolved(n, enabled)
    BY <2>1 DEF Resolved
  <2>6. IF q.kind = "socket" THEN n.told \cap {"audit", "measured"} = {} ELSE n.told \subseteq {"simulate", "invented"}
    BY <2>1 DEF RequestInv
  <2> HIDE DEF n
  <2>7. RequestInv(n, enabled, alive)
    BY <2>1, <2>2, <2>4, <2>5, <2>6 DEF RequestInv
  <2>8. n.todo # q.todo
    BY <2>1, <2>3
  <2> QED BY <2>7, <2>8 DEF n
<1> QED BY <1>1, <1>2

LEMMA SameInv ==
  ASSUME NEW q, NEW n, NEW enabled, NEW alive, RequestInv(q, enabled, alive), DOMAIN n = DOMAIN q, n.kind = q.kind,
         n.cred = q.cred, n.user = q.user, n.at = q.at, n.todo = q.todo, n.told = q.told
  PROVE  RequestInv(n, enabled, alive)
BY DEF RequestInv, Permitted, Resolved

LEMMA FieldsOfEdited ==
  ASSUME NEW q, DOMAIN q = DOMAIN Idle, NEW v,
         NEW n \in {Named(q, v), Knowing(q, v), Since(q, v), Forget(q)}
  PROVE  /\ DOMAIN n = DOMAIN q /\ n.kind = q.kind /\ n.cred = q.cred /\ n.user = q.user
         /\ n.at = q.at /\ n.todo = q.todo /\ n.told = q.told
<1>1. DOMAIN q = {"kind", "on", "cred", "user", "at", "todo", "read", "told", "figures", "since"}
  BY DEF Idle, Asked
<1> QED BY <1>1 DEF Named, Knowing, Since, Forget

\* A session that ends takes no right away that a request has already used.
LEMMA FewerSessions ==
  ASSUME NEW q, NEW enabled, NEW alive, NEW fewer, fewer \subseteq alive, RequestInv(q, enabled, alive)
  PROVE  RequestInv(q, enabled, fewer)
BY DEF RequestInv, Permitted

-----------------------------------------------------------------------------
(* Steps that change no row. *)

LEMMA BecomesInv ==
  ASSUME IInv, NEW r \in Requests, NEW q, RequestInv(q, authEnabled, live), Becomes(r, q)
  PROVE  IInv' /\ db' = db
BY DEF IInv, Becomes

LEMMA GoesOnInv ==
  ASSUME IInv, NEW r \in Requests, NEW step, At(r, step), NEW part, NEW told,
         Guestlike(req[r]) => told \subseteq {"simulate", "invented"}, Becomes(r, Goes(req[r], part, told))
  PROVE  IInv' /\ db' = db
<1>1. RequestInv(Goes(req[r], part, told), authEnabled, live)
  BY GoesInv DEF IInv, At
<1> QED BY <1>1, BecomesInv

\* Also after it has noted the row it is about, or what it has read.
LEMMA NotesInv ==
  ASSUME IInv, NEW r \in Requests, NEW step, At(r, step), NEW v, NEW told,
         NEW q \in {Named(req[r], v), Knowing(req[r], v)},
         Guestlike(req[r]) => told \subseteq {"simulate", "invented"}, Becomes(r, Goes(q, <<>>, told))
  PROVE  IInv' /\ db' = db
<1>1. RequestInv(req[r], authEnabled, live) /\ req[r].todo # <<>>
  BY DEF IInv, At
<1>2. /\ DOMAIN q = DOMAIN req[r] /\ q.kind = req[r].kind /\ q.cred = req[r].cred /\ q.user = req[r].user
      /\ q.at = req[r].at /\ q.todo = req[r].todo /\ q.told = req[r].told
  <2>1. DOMAIN req[r] = DOMAIN Idle
    BY <1>1 DEF RequestInv
  <2>2. q \in {Named(req[r], v), Knowing(req[r], v), Since(req[r], v), Forget(req[r])}
    OBVIOUS
  <2> QED BY <2>1, <2>2, FieldsOfEdited
<1>3. RequestInv(q, authEnabled, live)
  BY <1>1, <1>2, SameInv
<1>4. Guestlike(q) <=> Guestlike(req[r])
  BY <1>2 DEF Guestlike
<1>5. RequestInv(Goes(q, <<>>, told), authEnabled, live)
  BY <1>1, <1>2, <1>3, <1>4, GoesInv
<1> QED BY <1>5, BecomesInv

LEMMA FailInv == ASSUME IInv, NEW r \in Requests, Becomes(r, Idle) PROVE IInv' /\ db' = db
BY IdleInv, BecomesInv

\* Demonstrations are the simulator's.
LEMMA DemonstrationsAreSimulated ==
  ASSUME RowsInv(db), NEW A \in SUBSET GuestsAlerts
  PROVE  Makers(A) \subseteq {"simulate"}
BY DEF RowsInv, RowInv, StatedOrigin, Makers, GuestsAlerts, IsDemo, Stored

LEMMA ArriveInv ==
  ASSUME IInv, NEW r \in Requests, NEW kind, NEW cred, Arrive(r, kind, cred)
  PROVE  IInv' /\ db' = db
<1> DEFINE user == CurrentUser(cred, authEnabled, live, RoleOf)
           viewed == Asked(kind, cred, user, "work", Script(kind, IsGuest(user)))
           checked == Asked(kind, cred, user, "check", <<>>)
<1>1. kind \in Views \cup Changes \cup {"logs"} /\ user # Refused
  BY ViewsConstantsOK DEF Arrive
<1>2. \/ user = User("ADMIN", "local") /\ ~authEnabled /\ cred.local
      \/ user = User(cred.key, "api_key") /\ authEnabled /\ cred.key \in Role
      \/ /\ user = User(RoleOf[cred.cookie], "session") /\ authEnabled /\ cred.key = "none"
         /\ RoleOf[cred.cookie] \in Role
      \/ user = Guest
  <2>1. live \subseteq DOMAIN RoleOf
    BY DEF IInv
  <2> QED BY <1>1, <2>1, ViewsConstantsOK DEF CurrentUser, LocalUser, KeyUser, SessionUser
<1> HIDE DEF user
<1>3. CASE kind \in Views
  <2>1. DOMAIN viewed = DOMAIN Idle /\ viewed.kind = kind /\ viewed.cred = cred /\ viewed.user = user
        /\ viewed.at = "work" /\ viewed.todo = Script(kind, IsGuest(user)) /\ viewed.told = {}
    BY FieldsOfAsked
  <2> HIDE DEF viewed
  <2>2. kind \notin Changes \cup {"simulate"} /\ IsGuest(user) \in BOOLEAN
    BY <1>3 DEF Views, Changes, IsGuest
  <2>3. kind = "dashboard" /\ ~IsGuest(user) => Permitted(viewed, authEnabled, live)
    BY <1>2, <2>1 DEF Permitted, Level, IsGuest, Guest, User, Role, ROLE_HIERARCHY
  <2>4. RequestInv(viewed, authEnabled, live)
    BY <1>1, <2>1, <2>2, <2>3, ScriptSteps DEF RequestInv
  <2>5. Becomes(r, viewed)
    BY <1>3 DEF Arrive, viewed, user
  <2> QED BY <2>4, <2>5, BecomesInv
<1>4. CASE kind \notin Views
  <2>1. DOMAIN checked = DOMAIN Idle /\ checked.kind = kind /\ checked.cred = cred /\ checked.user = user
        /\ checked.at = "check" /\ checked.todo = <<>> /\ checked.told = {}
    BY FieldsOfAsked
  <2> HIDE DEF checked
  <2>2. Resolved(checked, authEnabled)
    BY <1>2, <2>1 DEF Resolved
  <2>3. \A S : <<>> \in Seq(S)
    BY EmptySeq
  <2>4. RequestInv(checked, authEnabled, live)
    BY <1>1, <1>4, <2>1, <2>2, <2>3 DEF RequestInv
  <2>5. Becomes(r, checked)
    BY <1>4 DEF Arrive, checked, user
  <2> QED BY <2>4, <2>5, BecomesInv
<1> QED BY <1>3, <1>4

LEMMA TickInv == ASSUME IInv, NEW r \in Requests, Tick(r) PROVE IInv' /\ db' = db
<1> DEFINE ticked == Asked("simulate", <<>>, Nobody, "work", Script("simulate", TRUE))
<1>1. /\ DOMAIN ticked = DOMAIN Idle /\ ticked.kind = "simulate" /\ ticked.at = "work"
      /\ ticked.todo = Script("simulate", TRUE) /\ ticked.told = {}
  BY DEF Asked, Idle
<1>2. Becomes(r, ticked)
  BY DEF Tick
<1> HIDE DEF ticked
<1>3. Script("simulate", TRUE) \in Seq(StepsOf("simulate"))
  BY ScriptSteps
<1>4. RequestInv(ticked, authEnabled, live)
  BY <1>1, <1>3 DEF RequestInv, Permitted
<1> QED BY <1>2, <1>4, BecomesInv

\* Whoever passes the checks is permitted what the handler will do.
LEMMA AuthoriseInv == ASSUME IInv, NEW r \in Requests, Authorise(r) PROVE IInv' /\ db' = db
<1> DEFINE q == req[r]
           n == Asked(q.kind, q.cred, q.user, "work", Script(q.kind, FALSE))
           allowed == /\ RoleSuffices(q.user, MinRole(q.kind))
                      /\ q.kind \in Changes => CsrfVerified(q.user, q.cred, live)
<1>1. q.kind \in Changes \cup {"logs"} /\ Resolved(q, authEnabled) /\ live \subseteq DOMAIN RoleOf
  BY DEF Authorise, IInv, RequestInv
<1>2. Becomes(r, IF allowed THEN n ELSE Idle)
  BY DEF Authorise
<1>3. CASE ~allowed
  BY <1>2, <1>3, FailInv
<1>4. CASE allowed
  <2>1. /\ DOMAIN n = DOMAIN Idle /\ n.kind = q.kind /\ n.cred = q.cred /\ n.user = q.user
        /\ n.at = "work" /\ n.todo = Script(q.kind, FALSE) /\ n.told = {}
    BY DEF Asked, Idle
  <2>2. q.kind \notin {"socket", "dashboard", "simulate"} /\ MinRole(q.kind) # "VIEWER"
    BY <1>1 DEF Changes, MinRole
  <2>3. ASSUME q.kind \in Changes PROVE Permitted(n, authEnabled, live)
    <3>1. Level(q.kind) \in 2..3 /\ Level(q.kind) = ROLE_HIERARCHY[MinRole(q.kind)]
      BY <2>3 DEF Changes, Level, MinRole, ROLE_HIERARCHY
    <3>2. ROLE_HIERARCHY[q.user.role] >= Level(q.kind) /\ q.user # Guest
      BY <1>4, <2>2, <3>1 DEF RoleSuffices, IsGuest, Guest, User
    <3>3. q.user.by = "session" /\ q.cred.cookie \in live => q.cred.csrf
      BY <1>4, <2>3 DEF CsrfVerified
    <3>4. n.kind = q.kind /\ n.cred = q.cred /\ n.user = q.user
      BY <2>1
    <3> HIDE DEF n, q
    <3>5. CASE q.user = User("ADMIN", "local") /\ ~authEnabled /\ q.cred.local
      BY <3>4, <3>5 DEF Permitted
    <3>6. CASE q.user = User(q.cred.key, "api_key") /\ authEnabled /\ q.cred.key \in Role
      BY <3>2, <3>4, <3>6 DEF Permitted, User
    <3>7. CASE /\ q.user = User(RoleOf[q.cred.cookie], "session") /\ authEnabled /\ q.cred.key = "none"
               /\ RoleOf[q.cred.cookie] \in Role
      BY <3>2, <3>3, <3>4, <3>7 DEF Permitted, User
    <3> QED BY <1>1, <3>2, <3>5, <3>6, <3>7 DEF Resolved
  <2>4. Script(q.kind, FALSE) \in Seq(StepsOf(q.kind)) /\ (q.kind \in Changes \/ Script(q.kind, FALSE) \in Seq(Queries))
    BY <1>1, <2>2, ScriptSteps
  <2> HIDE DEF n, q
  <2>5. RequestInv(n, authEnabled, live)
    BY <2>1, <2>2, <2>3, <2>4 DEF RequestInv
  <2>6. Becomes(r, n)
    BY <1>2, <1>4
  <2> QED BY <2>5, <2>6, BecomesInv
<1> QED BY <1>3, <1>4

\* A handler's step: its request says how far it is.
LEMMA HeadOfTodo ==
  ASSUME IInv, NEW r \in Requests, NEW step, At(r, step)
  PROVE  /\ step \in StepsOf(req[r].kind)
         /\ req[r].kind = "socket" \/ step \in Queries \/ Permitted(req[r], authEnabled, live)
<1>1. RequestInv(req[r], authEnabled, live) /\ req[r].todo # <<>> /\ Head(req[r].todo) = step
  BY DEF IInv, At
<1>2. \A S : req[r].todo \in Seq(S) => Head(req[r].todo) \in S
  BY <1>1, HeadTailProperties
<1> QED BY <1>1, <1>2 DEF RequestInv

LEMMA OnlySockets ==
  ASSUME IInv, NEW r \in Requests, NEW step \in Listening, At(r, step)
  PROVE  req[r].kind = "socket"
BY HeadOfTodo DEF StepsOf, Listening, Queries, Commits

LEMMA ReplyInv ==
  ASSUME IInv, NEW r \in Requests, NEW step, At(r, step), NEW part, NEW A,
         Guestlike(req[r]) => A \subseteq GuestsAlerts, Reply(r, part, A)
  PROVE  IInv' /\ db' = db
<1>1. Guestlike(req[r]) => Makers(A) \subseteq {"simulate", "invented"}
  BY DemonstrationsAreSimulated DEF IInv
<1>2. Becomes(r, Goes(req[r], part, Makers(A)))
  BY DEF Reply
<1> QED BY <1>1, <1>2, GoesOnInv

LEMMA QuietInv ==
  ASSUME IInv, NEW r \in Requests, NEW step, At(r, step)
  PROVE  /\ Skip(r) => IInv' /\ db' = db
         /\ \A read : Keep(r, read) => IInv' /\ db' = db
<1>1. Skip(r) => IInv' /\ db' = db
  BY ReplyInv DEF Skip
<1>2. ASSUME NEW read, Keep(r, read) PROVE IInv' /\ db' = db
  BY <1>2, NotesInv DEF Keep
<1> QED BY <1>1, <1>2

\* The queries that count and list.
LEMMA ListingInv ==
  ASSUME IInv, NEW r \in Requests,
         \/ CountAll(r) \/ CountAlerts(r) \/ CountIncidents(r) \/ CountSeverities(r) \/ CountStatuses(r)
         \/ ListAlerts(r) \/ ListIncidents(r) \/ Report(r) \/ TellOfHost(r) \/ ReadLogs(r)
  PROVE  IInv' /\ db' = db
<1>1. Guestlike(req[r]) => AlertsFor(req[r]) = GuestsAlerts
  BY DEF AlertsFor
<1>2. CASE CountAll(r)
  BY <1>2, QuietInv DEF CountAll
<1>3. CASE CountAlerts(r)
  BY <1>1, <1>3, ReplyInv DEF CountAlerts
<1>4. CASE CountIncidents(r)
  BY <1>4, ReplyInv DEF CountIncidents
<1>5. CASE CountSeverities(r)
  <2>1. PICK part : At(r, "severities") /\ Reply(r, part, AlertsFor(req[r]))
    BY <1>5 DEF CountSeverities
  <2> QED BY <1>1, <2>1, ReplyInv
<1>6. CASE CountStatuses(r)
  <2>1. PICK part : At(r, "statuses") /\ Reply(r, part, AlertsFor(req[r]))
    BY <1>6 DEF CountStatuses
  <2> QED BY <1>1, <2>1, ReplyInv
<1>7. CASE ListAlerts(r)
  <2>1. PICK P \in Page(AlertsFor(req[r])) : At(r, "list") /\ Reply(r, [listed |-> Cardinality(P)], P)
    BY <1>7 DEF ListAlerts
  <2>2. P \subseteq AlertsFor(req[r])
    BY DEF Page
  <2> QED BY <1>1, <2>1, <2>2, ReplyInv
<1>8. CASE ListIncidents(r)
  <2>1. PICK P : At(r, "incidents") /\ Reply(r, [incidents |-> Cardinality(P)], {})
    BY <1>8 DEF ListIncidents
  <2> QED BY <2>1, ReplyInv
<1>9. CASE Report(r)
  <2>1. PICK part, A : At(r, "report") /\ A \subseteq AlertsFor(req[r]) /\ Reply(r, part, A)
    BY <1>9 DEF Report
  <2> QED BY <1>1, <2>1, ReplyInv
<1>10. CASE TellOfHost(r)
  BY <1>10, GoesOnInv DEF TellOfHost
<1>11. CASE ReadLogs(r)
  BY <1>11, QuietInv DEF ReadLogs
<1> QED BY <1>2, <1>3, <1>4, <1>5, <1>6, <1>7, <1>8, <1>9, <1>10, <1>11

\* The queries of one alert and of one incident.
LEMMA LookingUpInv ==
  ASSUME IInv, NEW r \in Requests, FindAlert(r) \/ FindIncident(r) \/ Members(r)
  PROVE  IInv' /\ db' = db
<1>1. CASE FindAlert(r)
  <2>1. At(r, "find_alert") /\ (Fail(r) \/ \E a \in Stored : /\ Guestlike(req[r]) => IsDemo(a)
                                                         /\ Becomes(r, Goes(Named(req[r], a), <<>>, Makers({a}))))
    BY <1>1 DEF FindAlert
  <2>2. CASE Fail(r)
    BY <2>2, FailInv DEF Fail
  <2>3. ASSUME NEW a \in Stored, Guestlike(req[r]) => IsDemo(a), Becomes(r, Goes(Named(req[r], a), <<>>, Makers({a})))
        PROVE  IInv' /\ db' = db
    <3>1. Guestlike(req[r]) => Makers({a}) \subseteq {"simulate", "invented"}
      BY <2>3, DemonstrationsAreSimulated DEF IInv, GuestsAlerts
    <3> QED BY <2>1, <2>3, <3>1, NotesInv
  <2> QED BY <2>1, <2>2, <2>3
<1>2. CASE FindIncident(r)
  <2>1. At(r, "find_incident") /\ (Fail(r) \/ \E i : Becomes(r, Goes(Named(req[r], i), <<>>, {})))
    BY <1>2 DEF FindIncident
  <2>2. CASE Fail(r)
    BY <2>2, FailInv DEF Fail
  <2>3. ASSUME NEW i, Becomes(r, Goes(Named(req[r], i), <<>>, {})) PROVE IInv' /\ db' = db
    BY <2>1, <2>3, NotesInv
  <2> QED BY <2>1, <2>2, <2>3
<1>3. CASE Members(r)
  <2>1. At(r, "members")
    BY <1>3 DEF Members
  <2>2. CASE Fail(r)
    BY <2>2, FailInv DEF Fail
  <2>3. CASE Keep(r, MembersOf(r))
    BY <2>1, <2>3, QuietInv
  <2>4. CASE Reply(r, <<>>, MembersOf(r)) /\ ~\E a \in MembersOf(r) : Guestlike(req[r]) /\ ~IsDemo(a)
    <3>1. MembersOf(r) \subseteq Stored
      BY DEF IInv, RowsInv, MembersOf, Open, Stored
    <3>2. Guestlike(req[r]) => MembersOf(r) \subseteq GuestsAlerts
      BY <2>4, <3>1 DEF GuestsAlerts
    <3> QED BY <2>1, <2>4, <3>2, ReplyInv
  <2> QED BY <1>3, <2>2, <2>3, <2>4 DEF Members
<1> QED BY <1>1, <1>2, <1>3

\* The steps of a socket.
LEMMA SocketInv ==
  ASSUME IInv, NEW r \in Requests, GiveTicket(r) \/ Connect(r) \/ HearAlert(r) \/ HearHeartbeat(r) \/ Disconnect(r)
  PROVE  IInv' /\ db' = db
<1>1. CASE GiveTicket(r)
  BY <1>1, NotesInv DEF GiveTicket
<1>2. CASE Connect(r)
  <2>1. At(r, "connect") /\ (Fail(r) \/ \E user : Becomes(r, As(Goes(req[r], <<>>, {}), user)))
    BY <1>2 DEF Connect
  <2>2. CASE Fail(r)
    BY <2>2, FailInv DEF Fail
  <2>3. ASSUME NEW user, Becomes(r, As(Goes(req[r], <<>>, {}), user)) PROVE IInv' /\ db' = db
    <3> DEFINE n == Goes(req[r], <<>>, {})
    <3>1. RequestInv(n, authEnabled, live)
      BY <2>1, GoesInv DEF IInv, At
    <3>2. n = Idle \/ (n.kind = "socket" /\ n.at # "check")
      <4>1. req[r].kind = "socket" /\ req[r].at = "work" /\ DOMAIN req[r] = DOMAIN Idle
        BY <2>1, OnlySockets DEF IInv, RequestInv, At, Listening
      <4> QED BY <4>1 DEF Goes
    <3>3. RequestInv(As(n, user), authEnabled, live)
      <4> HIDE DEF n
      <4>1. DOMAIN n = {"kind", "on", "cred", "user", "at", "todo", "read", "told", "figures", "since"}
        BY <3>1 DEF RequestInv, Idle, Asked
      <4>2. /\ DOMAIN As(n, user) = DOMAIN n /\ As(n, user).kind = n.kind /\ As(n, user).at = n.at
            /\ As(n, user).todo = n.todo /\ As(n, user).told = n.told
        BY <4>1 DEF As
      <4>3. n = Idle => n.kind = "none" /\ n.at = "idle" /\ n.todo = <<>>
        BY DEF Idle, Asked
      <4>4. \A S : <<>> \in Seq(S)
        BY EmptySeq
      <4> QED BY <3>1, <3>2, <4>2, <4>3, <4>4 DEF RequestInv
    <3> QED BY <2>3, <3>3, BecomesInv
  <2> QED BY <2>1, <2>2, <2>3
<1>3. ASSUME NEW by, Hears(r, by), by \in {"audit", "measured"} => Privileged(req[r].user)
      PROVE  IInv' /\ db' = db
  <2> DEFINE told == IF Privileged(req[r].user) THEN {} ELSE {by}
  <2>1. At(r, "feed") /\ Becomes(r, Telling(req[r], told))
    BY <1>3 DEF Hears
  <2>2. req[r].kind = "socket"
    BY <2>1, OnlySockets DEF Listening
  <2>3. told \cap {"audit", "measured"} = {}
    BY <1>3
  <2> HIDE DEF told
  <2>4. DOMAIN req[r] = {"kind", "on", "cred", "user", "at", "todo", "read", "told", "figures", "since"}
    BY DEF IInv, RequestInv, Idle, Asked
  <2> DEFINE n == Telling(req[r], told)
  <2>5. /\ DOMAIN n = DOMAIN req[r] /\ n.kind = req[r].kind /\ n.at = req[r].at
        /\ n.todo = req[r].todo /\ n.told = told
    BY <2>4 DEF Telling
  <2> HIDE DEF n
  <2>6. RequestInv(n, authEnabled, live)
    BY <2>1, <2>2, <2>3, <2>5 DEF IInv, RequestInv, At
  <2> QED BY <2>1, <2>6, BecomesInv DEF n
<1>4. CASE HearAlert(r)
  <2>1. PICK a \in Stored : /\ db.alerts[a].origin = "HOST_TELEMETRY" => Privileged(req[r].user)
                           /\ Hears(r, db.alerts[a].by)
    BY <1>4 DEF HearAlert
  <2>2. RowInv(db.alerts[a])
    BY DEF IInv, RowsInv, Stored
  <2>3. db.alerts[a].by \in {"audit", "measured"} => Privileged(req[r].user)
    BY <2>1, <2>2 DEF RowInv, StatedOrigin
  <2> QED BY <1>3, <2>1, <2>3
<1>5. CASE HearHeartbeat(r)
  BY <1>3, <1>5 DEF HearHeartbeat
<1>6. CASE Disconnect(r)
  BY <1>6, FailInv DEF Disconnect, Fail
<1> QED BY <1>1, <1>2, <1>4, <1>5, <1>6

-----------------------------------------------------------------------------
(* Steps that change rows. *)

LEMMA BesideInv ==
  ASSUME NEW q, NEW new, NEW enabled, NEW alive, RequestInv(q, enabled, alive)
  PROVE  RequestInv(Beside(q, new), enabled, alive)
<1>1. \A p, since : RequestInv(p, enabled, alive) =>
        RequestInv(Since(p, since), enabled, alive) /\ RequestInv(Forget(p), enabled, alive)
  <2> SUFFICES ASSUME NEW p, NEW since, RequestInv(p, enabled, alive),
                      NEW n \in {Named(p, since), Knowing(p, since), Since(p, since), Forget(p)}
               PROVE  RequestInv(n, enabled, alive)
    OBVIOUS
  <2>1. DOMAIN p = DOMAIN Idle
    BY DEF RequestInv
  <2> QED BY <2>1, FieldsOfEdited, SameInv
<1> QED BY <1>1 DEF Beside

\* A commit is made for a request that may, and by its step.
LEMMA CommitInv ==
  ASSUME IInv, NEW r \in Requests, NEW step \in Commits \cup {"insert"}, At(r, step), NEW new, RowsInv(new),
         Commit(r, new)
  PROVE  IInv' /\ Permitted(req[r], authEnabled, live) /\ req'[r].todo # req[r].todo
<1>1. \A p \in Requests : RequestInv(req[p], authEnabled, live)
  BY DEF IInv
<1>2. req[r].todo # <<>>
  BY DEF At
<1>3. /\ db' = new /\ live' = live /\ authEnabled' = authEnabled
      /\ req' = [p \in Requests |-> IF p = r THEN Goes(req[r], <<>>, {}) ELSE Beside(req[p], new)]
  BY DEF Commit
<1>4. RequestInv(Goes(req[r], <<>>, {}), authEnabled, live) /\ Goes(req[r], <<>>, {}).todo # req[r].todo
  BY <1>1, <1>2, GoesInv
<1>5. \A p \in Requests : RequestInv(Beside(req[p], new), authEnabled, live)
  BY <1>1, BesideInv
<1>6. IInv'
  BY <1>3, <1>4, <1>5 DEF IInv
<1>7. Permitted(req[r], authEnabled, live)
  BY HeadOfTodo DEF StepsOf, Listening, Queries, Commits
<1> QED BY <1>3, <1>4, <1>6, <1>7

\* What is stored has the origin that its producer states.
LEMMA StoresInv ==
  ASSUME RowsInv(db), NEW by \in DOMAIN StatedOrigin, NEW new \in Stores(by)
  PROVE  RowsInv(new)
<1>1. PICK raw \in Events[by] : new = With(Row(by, raw))
  BY DEF Stores
<1>2. StatedOrigin[by] # ""
  <2>1. StatedOrigin[by] \in {"SIMULATED_DEMO", "HISTORICAL_LOG", "HOST_TELEMETRY", "SECURITY_DRILL"}
    BY DEF StatedOrigin
  <2>2. "" \notin {"SIMULATED_DEMO", "HISTORICAL_LOG", "HOST_TELEMETRY", "SECURITY_DRILL"}
    OBVIOUS
  <2> QED BY <2>1, <2>2
<1>3. RowInv(Row(by, raw))
  BY <1>2, ViewsConstantsOK DEF RowInv, Row, Normalize, TelemetryOrigin
<1> DEFINE row == Row(by, raw)
<1> HIDE DEF row
<1>4. /\ new.alerts = [a \in Stored \cup {db.lastAlert + 1} |-> IF a = db.lastAlert + 1 THEN row ELSE db.alerts[a]]
      /\ new.members = db.members
  BY <1>1 DEF With, row
<1> QED BY <1>3, <1>4 DEF RowsInv, Stored, row

LEMMA CorrelatedInv ==
  ASSUME NEW d, RowsInv(d), NEW new \in Correlated(d)
  PROVE  RowsInv(new)
<1>1. PICK last, f : new = Joined(d, f, last) /\ DOMAIN f = Unlinked(d)
  BY DEF Correlated
<1>2. Unlinked(d) \subseteq DOMAIN d.alerts
  BY DEF Unlinked
<1>3. /\ new.alerts = d.alerts
      /\ new.members = [i \in DOMAIN d.members \cup Range(f) |->
                          (IF i \in DOMAIN d.members THEN d.members[i] ELSE {}) \cup {a \in DOMAIN f : f[a] = i}]
  BY <1>1 DEF Joined
<1> QED BY <1>1, <1>2, <1>3 DEF RowsInv

LEMMA TriageInv ==
  ASSUME RowsInv(db)
  PROVE  /\ RowsInv(Holding(<<>>, <<>>))
         /\ \A A, s : RowsInv(Relabelled(A, s))
         /\ \A a : RowsInv(Holding([b \in Stored \ {a} |-> db.alerts[b]], [i \in Open |-> db.members[i] \ {a}]))
<1>1. \A alerts, members : Holding(alerts, members).alerts = alerts /\ Holding(alerts, members).members = members
  BY DEF Holding
<1>2. RowsInv(Holding(<<>>, <<>>))
  <2>1. DOMAIN <<>> = {}
    OBVIOUS
  <2> QED BY <1>1, <2>1 DEF RowsInv
<1>3. ASSUME NEW A, NEW s PROVE RowsInv(Relabelled(A, s))
  <2> DEFINE alerts == [a \in Stored |-> IF a \in A THEN [db.alerts[a] EXCEPT !.status = s] ELSE db.alerts[a]]
  <2>1. Relabelled(A, s).alerts = alerts /\ Relabelled(A, s).members = db.members
    BY <1>1 DEF Relabelled
  <2>2. ASSUME NEW a \in Stored PROVE RowInv(alerts[a])
    BY DEF RowsInv, RowInv, Stored
  <2>3. DOMAIN alerts = Stored
    OBVIOUS
  <2> HIDE DEF alerts
  <2> QED BY <2>1, <2>2, <2>3 DEF RowsInv, Stored
<1>4. ASSUME NEW a
      PROVE  RowsInv(Holding([b \in Stored \ {a} |-> db.alerts[b]], [i \in Open |-> db.members[i] \ {a}]))
  BY <1>1 DEF RowsInv, Stored, Open
<1> QED BY <1>2, <1>3, <1>4

\* What a step of a request does: if it changes rows, it is a step of one that may.
Authorised(r) == db' # db => req'[r].todo # req[r].todo /\ Permitted(req[r], authEnabled, live)

LEMMA WritesInv ==
  ASSUME IInv, NEW r \in Requests,
         \/ Insert(r) \/ Correlate(r) \/ Upload(r) \/ Audit(r) \/ Fill(r) \/ FillNothing(r) \/ Clear(r)
         \/ RescanPaused(r) \/ SetAlert(r) \/ DeleteAlert(r) \/ Cascade(r)
  PROVE  IInv' /\ Authorised(r)
<1> USE DEF Authorised
<1>1. RowsInv(db) /\ RequestInv(req[r], authEnabled, live)
  BY DEF IInv
<1>2. ASSUME NEW step \in Commits \cup {"insert"}, At(r, step), NEW new, RowsInv(new), Commit(r, new)
      PROVE  IInv' /\ Authorised(r)
  BY <1>2, CommitInv
<1>3. ASSUME NEW step \in Commits, At(r, step), NEW by \in DOMAIN StatedOrigin, Ingest(r, by)
      PROVE  IInv' /\ Authorised(r)
  <2>1. PICK d \in Stores(by) : \E new \in Correlated(d) : Commit(r, new)
    BY <1>3 DEF Ingest
  <2> PICK new \in Correlated(d) : Commit(r, new)
    BY <2>1
  <2>2. RowsInv(new)
    BY <1>1, StoresInv, CorrelatedInv
  <2> QED BY <1>2, <1>3, <2>1, <2>2
<1>4. Fail(r) => IInv' /\ Authorised(r)
  BY FailInv DEF Fail
<1>5. ASSUME NEW step, At(r, step), Skip(r) PROVE IInv' /\ Authorised(r)
  BY <1>5, QuietInv
<1>6. CASE Correlate(r)
  BY <1>1, <1>2, <1>6, CorrelatedInv DEF Correlate, Commits
<1>7. CASE Upload(r)
  <2>1. At(r, "upload") /\ (Ingest(r, "upload") \/ \E new \in Correlated(db) : Commit(r, new))
    BY <1>7 DEF Upload
  <2>2. "upload" \in Commits /\ "upload" \in DOMAIN StatedOrigin
    BY DEF Commits, StatedOrigin
  <2> QED BY <1>1, <1>2, <1>3, <2>1, <2>2, CorrelatedInv
<1>8. CASE Audit(r)
  <2>1. "audit" \in Commits /\ "audit" \in DOMAIN StatedOrigin
    BY DEF Commits, StatedOrigin
  <2> QED BY <1>3, <1>5, <1>8, <2>1 DEF Audit
<1>9. CASE Fill(r)
  <2>1. "fill" \in Commits /\ "audit" \in DOMAIN StatedOrigin
    BY DEF Commits, StatedOrigin
  <2> QED BY <1>3, <1>9, <2>1 DEF Fill
<1>10. CASE FillNothing(r)
  BY <1>5, <1>10 DEF FillNothing
<1>11. CASE Clear(r)
  BY <1>1, <1>2, <1>11, TriageInv DEF Clear, Commits
<1>12. CASE RescanPaused(r)
  BY <1>12, FailInv DEF RescanPaused
<1>13. CASE SetAlert(r)
  BY <1>1, <1>2, <1>4, <1>13, TriageInv DEF SetAlert, Commits
<1>14. CASE DeleteAlert(r)
  BY <1>1, <1>2, <1>4, <1>14, TriageInv DEF DeleteAlert, Commits
<1>15. CASE Cascade(r)
  BY <1>1, <1>2, <1>4, <1>15, TriageInv DEF Cascade, Commits
<1>16. CASE Insert(r)
  <2>1. PICK new \in Stores(req[r].kind) : At(r, "insert") /\ Commit(r, new)
    BY <1>16 DEF Insert
  <2>2. req[r].kind \in DOMAIN StatedOrigin
    BY <2>1, HeadOfTodo DEF StepsOf, Listening, Queries, Commits
  <2>3. RowsInv(new)
    BY <1>1, <2>2, StoresInv
  <2> QED BY <1>2, <2>1, <2>3
<1> QED BY <1>6, <1>7, <1>8, <1>9, <1>10, <1>11, <1>12, <1>13, <1>14, <1>15, <1>16

-----------------------------------------------------------------------------
(* Every step. *)

LEMMA StepInv ==
  ASSUME IInv, [Next]_vars
  PROVE  IInv' /\ (db' # db => \E r \in Requests : Authorised(r))
<1>1. CASE UNCHANGED vars
  BY <1>1 DEF IInv, vars
<1>2. ASSUME NEW s \in live, EndSession(s) PROVE IInv' /\ db' = db
  <2>1. live' \subseteq live /\ UNCHANGED <<db, authEnabled, req>>
    BY <1>2 DEF EndSession
  <2>2. \A r \in Requests : RequestInv(req[r], authEnabled, live')
    BY <2>1, FewerSessions DEF IInv
  <2> QED BY <2>1, <2>2 DEF IInv
<1>3. ASSUME NEW r \in Requests, Request(r) PROVE IInv' /\ Authorised(r)
  <2> USE DEF Authorised
  <2>1. ASSUME NEW kind, NEW cred, Arrive(r, kind, cred) PROVE IInv' /\ db' = db
    BY <2>1, ArriveInv
  <2>2. CASE Tick(r) \/ Authorise(r)
    BY <2>2, TickInv, AuthoriseInv
  <2>3. CASE \/ CountAll(r) \/ CountAlerts(r) \/ CountIncidents(r) \/ CountSeverities(r) \/ CountStatuses(r)
             \/ ListAlerts(r) \/ ListIncidents(r) \/ Report(r) \/ TellOfHost(r) \/ ReadLogs(r)
    BY <2>3, ListingInv
  <2>4. CASE FindAlert(r) \/ FindIncident(r) \/ Members(r)
    BY <2>4, LookingUpInv
  <2>5. CASE GiveTicket(r) \/ Connect(r) \/ HearAlert(r) \/ HearHeartbeat(r) \/ Disconnect(r)
    BY <2>5, SocketInv
  <2>6. CASE \/ Insert(r) \/ Correlate(r) \/ Upload(r) \/ Audit(r) \/ Fill(r) \/ FillNothing(r) \/ Clear(r)
             \/ RescanPaused(r) \/ SetAlert(r) \/ DeleteAlert(r) \/ Cascade(r)
    BY <2>6, WritesInv
  <2>7. CASE Answer(r)
    BY <2>7, FailInv DEF Answer, Fail
  <2> HIDE DEF Authorised
  <2> QED BY <1>3, <2>1, <2>2, <2>3, <2>4, <2>5, <2>6, <2>7 DEF Request, Authorised
<1> QED BY <1>1, <1>2, <1>3 DEF Next, vars

LEMMA Invariance == Spec => []IInv
<1>1. Init => IInv
  BY IdleInv DEF Init, IInv, RowsInv
<1>2. IInv /\ [Next]_vars => IInv'
  BY StepInv
<1> QED BY <1>1, <1>2, PTL DEF Spec

\* The rows of the database change only by the simulator's hand or for a request whose client was
\* let through by get_current_user, require_role and verify_csrf (app/security/auth.py).
THEOREM ChangesAuthorised == Spec => ChangesAreAuthorised
<1>1. IInv /\ [Next]_vars =>
        [db' # db => \E r \in Requests : req'[r].todo # req[r].todo /\ Permitted(req[r], authEnabled, live)]_vars
  BY StepInv DEF Authorised
<1> QED BY <1>1, Invariance, PTL DEF Spec, ChangesAreAuthorised

\* No answer to a guest and no broadcast to a socket tells of what is not theirs to see: the
\* filters of the views and of broadcast, with the origins that normalize() keeps.
THEOREM GuestsSeeOnlyDemonstrations == Spec => []GuestsSeeDemonstrations
<1>1. IInv => GuestsSeeDemonstrations
  BY DEF IInv, RequestInv, GuestsSeeDemonstrations
<1> QED BY <1>1, Invariance, PTL

-----------------------------------------------------------------------------
(* Sums over finite sets, and sorting. *)

\* A set of numbers has an element below the others.
LEMMA LeastBy ==
  ASSUME NEW T, T \subseteq Nat, T # {}, NEW R, IsWellFoundedOn(R, Nat),
         \A x, y \in Nat : x < y => <<x, y>> \in R
  PROVE  \E x \in T : \A y \in T : x <= y
<1>1. PICK x \in T : \A y \in T : ~ (<<y, x>> \in R)
  BY WFMin, ZenonT(60)
<1>2. ASSUME NEW y \in T PROVE x <= y
  <2>1. x \in Nat /\ y \in Nat
    OBVIOUS
  <2>2. ~ (y < x)
    BY <1>1, <2>1
  <2> QED BY <2>1, <2>2
<1> QED BY <1>2

LEMMA LeastNatural ==
  ASSUME NEW S, S \subseteq Nat, S # {}
  PROVE  \E x \in S : \A y \in S : x <= y
<1>1. IsWellFoundedOn(OpToRel(<, Nat), Nat)
  BY NatLessThanWellFounded
<1>2. \A x, y \in Nat : x < y => <<x, y>> \in OpToRel(<, Nat)
  BY DEF OpToRel
<1> QED BY <1>1, <1>2, LeastBy

\* A family of finite sets has a smallest one.
LEMMA SmallestSet ==
  ASSUME NEW F, F # {}, \A s \in F : IsFiniteSet(s)
  PROVE  \E s \in F : \A t \in F : Cardinality(s) <= Cardinality(t)
<1> DEFINE sizes == {Cardinality(s) : s \in F}
<1>1. sizes \subseteq Nat /\ sizes # {}
  BY FS_CardinalityType
<1>2. PICK n \in sizes : \A m \in sizes : n <= m
  <2> HIDE DEF sizes
  <2> QED BY <1>1, LeastNatural
<1> QED BY <1>2

\* A sum is what takes off one summand after the other.
One(s) == CHOOSE x \in s : TRUE
SumsOf(f, sum) == sum = [s \in SUBSET DOMAIN f |-> IF s = {} THEN 0 ELSE f[One(s)] + sum[s \ {One(s)}]]

LEMMA TotalIs ==
  ASSUME NEW f, IsFiniteSet(DOMAIN f), NEW sum, SumsOf(f, sum)
  PROVE  Total(f) = sum[DOMAIN f]
<1> DEFINE it == CHOOSE g : SumsOf(f, g)
           wrong == {s \in SUBSET DOMAIN f : it[s] # sum[s]}
<1>1. Total(f) = it[DOMAIN f]
  BY Zenon DEF Total, MapThenSumSet, MapThenFoldSet, SumsOf, One
<1>2. SumsOf(f, it)
  OBVIOUS
<1> HIDE DEF it
<1>3. \A g, s : SumsOf(f, g) /\ s \in SUBSET DOMAIN f => g[s] = IF s = {} THEN 0 ELSE f[One(s)] + g[s \ {One(s)}]
  BY DEF SumsOf
<1>4. ASSUME NEW s \in SUBSET DOMAIN f, s # {}
      PROVE  /\ One(s) \in s /\ s \ {One(s)} \in SUBSET DOMAIN f /\ IsFiniteSet(s)
             /\ ~ Cardinality(s) <= Cardinality(s \ {One(s)})
  <2>1. One(s) \in s
    BY <1>4 DEF One
  <2>2. IsFiniteSet(s) /\ Cardinality(s) \in Nat
    BY FS_Subset, FS_CardinalityType
  <2>3. Cardinality(s \ {One(s)}) = Cardinality(s) - 1
    BY <2>1, <2>2, FS_RemoveElement
  <2> QED BY <2>1, <2>2, <2>3
<1>5. wrong = {}
  <2> SUFFICES ASSUME wrong # {} PROVE FALSE
    OBVIOUS
  <2>1. \A s \in wrong : IsFiniteSet(s)
    BY FS_Subset
  <2>2. PICK s \in wrong : \A t \in wrong : Cardinality(s) <= Cardinality(t)
    <3> HIDE DEF wrong
    <3> QED BY <2>1, SmallestSet
  <2>3. s # {}
    BY <1>2, <1>3
  <2>4. s \ {One(s)} \notin wrong
    BY <1>4, <2>2, <2>3
  <2>5. it[s] = sum[s]
    BY <1>2, <1>3, <1>4, <2>3, <2>4
  <2> QED BY <2>5
<1> QED BY <1>1, <1>5

\* What is counted for each of some values adds up to all that has one of them.
LEMMA CountsAddUp ==
  ASSUME NEW f, IsFiniteSet(DOMAIN f), NEW A, IsFiniteSet(A), NEW value,
         \A v \in DOMAIN f : f[v] = Cardinality({a \in A : value[a] = v})
  PROVE  Total(f) = Cardinality({a \in A : value[a] \in DOMAIN f})
<1> DEFINE among(s) == {a \in A : value[a] \in s}
           sum == [s \in SUBSET DOMAIN f |-> Cardinality(among(s))]
<1>1. ASSUME NEW s \in SUBSET DOMAIN f, s # {}
      PROVE  sum[s] = f[One(s)] + sum[s \ {One(s)}]
  <2> DEFINE x == One(s)  here == {a \in A : value[a] = x}  rest == among(s \ {x})
  <2>1. x \in s
    BY <1>1 DEF One
  <2> HIDE DEF x
  <2>2. IsFiniteSet(here) /\ IsFiniteSet(rest)
    BY FS_Subset
  <2>3. among(s) = here \cup rest /\ here \cap rest = {}
    BY <2>1
  <2>4. f[x] = Cardinality(here) /\ sum[s \ {x}] = Cardinality(rest) /\ sum[s] = Cardinality(here \cup rest)
    BY <2>1, <2>3
  <2> HIDE DEF here, rest, sum
  <2>5. Cardinality(here \cup rest) = Cardinality(here) + Cardinality(rest) - 0
    BY <2>2, <2>3, FS_Union, FS_EmptySet
  <2>6. Cardinality(here) \in Nat /\ Cardinality(rest) \in Nat
    BY <2>2, FS_CardinalityType
  <2> QED BY <2>4, <2>5, <2>6 DEF x
<1>2. sum[{}] = 0
  <2>1. among({}) = {}
    OBVIOUS
  <2> QED BY <2>1, FS_EmptySet
<1>3. SumsOf(f, sum)
  <2>1. DOMAIN sum = SUBSET DOMAIN f
    OBVIOUS
  <2>2. \A s \in SUBSET DOMAIN f : sum[s] = IF s = {} THEN 0 ELSE f[One(s)] + sum[s \ {One(s)}]
    BY <1>1, <1>2
  <2>3. sum = [s \in SUBSET DOMAIN f |-> sum[s]]
    OBVIOUS
  <2> HIDE DEF sum
  <2> QED BY <2>2, <2>3 DEF SumsOf
<1>4. Total(f) = sum[DOMAIN f]
  BY <1>3, TotalIs
<1> QED BY <1>4

\* Finitely many elements can be sorted by numbers.
InOrder(s, S, key) ==
  \A i, j \in 1..Cardinality(S) : i < j => s[i] # s[j] /\ key[s[i]] <= key[s[j]]

LEMMA SortedExists ==
  ASSUME NEW S, IsFiniteSet(S), NEW key, \A x \in S : key[x] \in Int
  PROVE  \E s \in [1..Cardinality(S) -> S] : InOrder(s, S, key)
<1> DEFINE n == Cardinality(S)
<1>1. n \in Nat /\ ExistsBijection(S, 1..n)
  <2>1. n \in Nat /\ IsFiniteSet(1..n) /\ Cardinality(1..n) = n
    BY FS_CardinalityType, FS_Interval
  <2> QED BY <2>1, FS_SameCardinalityBij
<1>2. PICK b \in [S -> 1..n] : \A x, y \in S : x # y => b[x] # b[y]
  BY <1>1 DEF ExistsBijection, Bijection, Injection, IsInjective
<1> DEFINE Less(x, y) == key[x] < key[y] \/ (key[x] = key[y] /\ b[x] < b[y])
           below(x) == {y \in S : Less(y, x)}
           rank == [x \in S |-> 1 + Cardinality(below(x))]
<1>3. \A x \in S : b[x] \in Int /\ key[x] \in Int
  BY <1>1, <1>2
<1>4. \A x, y \in S : x # y => Less(x, y) \/ Less(y, x)
  BY <1>2, <1>3
<1>5. \A x, y, z \in S : ~Less(x, x) /\ (Less(x, y) /\ Less(y, z) => Less(x, z))
  BY <1>3
<1> HIDE DEF Less
<1>6. ASSUME NEW x \in S PROVE IsFiniteSet(below(x)) /\ rank[x] \in 1..n
  <2>1. below(x) \in SUBSET (S \ {x})
    BY <1>5
  <2>2. IsFiniteSet(S \ {x}) /\ Cardinality(S \ {x}) = n - 1
    BY FS_RemoveElement
  <2>3. IsFiniteSet(below(x)) /\ Cardinality(below(x)) <= n - 1 /\ Cardinality(below(x)) \in Nat
    BY <2>1, <2>2, FS_Subset, FS_CardinalityType
  <2> QED BY <1>1, <2>3
<1>7. ASSUME NEW x \in S, NEW y \in S, Less(x, y) PROVE rank[x] < rank[y]
  <2>1. below(x) \in SUBSET (below(y) \ {x}) /\ x \in below(y)
    BY <1>5, <1>7
  <2>2. IsFiniteSet(below(y) \ {x}) /\ Cardinality(below(y) \ {x}) = Cardinality(below(y)) - 1
    BY <1>6, <2>1, FS_RemoveElement
  <2>3. Cardinality(below(x)) <= Cardinality(below(y)) - 1
    BY <2>1, <2>2, FS_Subset
  <2>4. Cardinality(below(x)) \in Nat /\ Cardinality(below(y)) \in Nat
    BY <1>6, FS_CardinalityType
  <2> QED BY <2>3, <2>4
<1>8. rank \in Surjection(S, 1..n)
  <2>1. rank \in [S -> 1..n]
    BY <1>6
  <2> HIDE DEF rank
  <2>2. \A x, y \in S : rank[x] = rank[y] => x = y
    <3>1. \A x \in S : rank[x] \in Int
      BY <2>1
    <3> QED BY <1>4, <1>7, <3>1
  <2>3. rank \in Injection(S, 1..n)
    BY <2>1, <2>2 DEF Injection, IsInjective
  <2>4. IsFiniteSet(1..n) /\ Cardinality(1..n) = n
    BY <1>1, FS_Interval
  <2> QED BY <2>3, <2>4, FS_Injection
<1> HIDE DEF rank
<1>9. \A i \in 1..n : \E x \in S : rank[x] = i
  BY <1>8 DEF Surjection
<1> DEFINE s == [i \in 1..n |-> CHOOSE x \in S : rank[x] = i]
<1>10. \A i \in 1..n : s[i] \in S /\ rank[s[i]] = i
  BY <1>9
<1>11. s \in [1..n -> S]
  BY <1>10
<1>12. ASSUME NEW i \in 1..n, NEW j \in 1..n, i < j PROVE s[i] # s[j] /\ key[s[i]] <= key[s[j]]
  <2>1. s[i] \in S /\ s[j] \in S /\ rank[s[i]] = i /\ rank[s[j]] = j
    BY <1>10
  <2> HIDE DEF s
  <2>2. ~Less(s[j], s[i])
    BY <1>7, <1>12, <2>1
  <2>3. ~ key[s[j]] < key[s[i]]
    BY <2>2 DEF Less
  <2> QED BY <1>3, <1>12, <2>1, <2>3
<1> HIDE DEF s
<1> QED BY <1>11, <1>12 DEF InOrder

LEMMA SortedByIs ==
  ASSUME NEW S, IsFiniteSet(S), NEW key, \A x \in S : key[x] \in Int
  PROVE  LET s == SortedBy(S, key) IN
         /\ s \in [1..Cardinality(S) -> S] /\ \A i, j \in 1..Cardinality(S) : i # j => s[i] # s[j]
         /\ \A x \in S : \E i \in 1..Cardinality(S) : s[i] = x
<1> DEFINE n == Cardinality(S)
           s == SortedBy(S, key)
<1>1. s \in [1..n -> S] /\ InOrder(s, S, key)
  BY SortedExists DEF SortedBy, InOrder
<1>2. n \in Nat /\ IsFiniteSet(1..n) /\ Cardinality(1..n) = n
  BY FS_CardinalityType, FS_Interval
<1> HIDE DEF s
<1>3. \A i, j \in 1..n : i # j => s[i] # s[j]
  <2>1. \A i, j \in 1..n : i # j => i < j \/ j < i
    BY <1>2
  <2> QED BY <1>1, <2>1 DEF InOrder
<1>4. s \in Injection(1..n, S)
  BY <1>1, <1>3 DEF Injection, IsInjective
<1>5. s \in Surjection(1..n, S)
  BY <1>2, <1>4, FS_Injection
<1> QED BY <1>1, <1>3, <1>5 DEF Surjection, s

LEMMA LesserOfTwo == ASSUME NEW m \in Nat, NEW n \in Nat PROVE Min({m, n}) = IF m <= n THEN m ELSE n
<1> DEFINE least == IF m <= n THEN m ELSE n
<1>1. least \in {m, n} /\ \A k \in {m, n} : least <= k
  OBVIOUS
<1>2. Min({m, n}) \in {m, n} /\ \A k \in {m, n} : Min({m, n}) <= k
  BY <1>1 DEF Min
<1> QED BY <1>2

-----------------------------------------------------------------------------
(* Reports. *)

Tactic == ToSet(MITRE_TACTICS)

LEMMA TacticsAre ==
  /\ Len(MITRE_TACTICS) = 14 /\ DOMAIN MITRE_TACTICS = 1..14
  /\ MITRE_TACTICS[1] = "Reconnaissance" /\ MITRE_TACTICS[2] = "Resource_Development"
  /\ MITRE_TACTICS[3] = "Initial_Access" /\ MITRE_TACTICS[4] = "Execution"
  /\ MITRE_TACTICS[5] = "Persistence" /\ MITRE_TACTICS[6] = "Privilege_Escalation"
  /\ MITRE_TACTICS[7] = "Defense_Evasion" /\ MITRE_TACTICS[8] = "Credential_Access"
  /\ MITRE_TACTICS[9] = "Discovery" /\ MITRE_TACTICS[10] = "Lateral_Movement"
  /\ MITRE_TACTICS[11] = "Collection" /\ MITRE_TACTICS[12] = "Command_and_Control"
  /\ MITRE_TACTICS[13] = "Exfiltration" /\ MITRE_TACTICS[14] = "Impact"
BY DEF MITRE_TACTICS

LEMMA TacticsAreDistinct ==
  /\ \A i, j \in 1..14 : i # j => MITRE_TACTICS[i] # MITRE_TACTICS[j]
  /\ \A i \in 1..14 : MITRE_TACTICS[i] \in Tactic
  /\ \A t \in Tactic : \E i \in 1..14 : MITRE_TACTICS[i] = t
<1>1. ASSUME NEW i \in 1..14, NEW j \in 1..14, i # j PROVE MITRE_TACTICS[i] # MITRE_TACTICS[j]
  BY <1>1, TacticsAre
<1> QED BY <1>1, TacticsAre DEF Tactic, ToSet

\* The tactic of a technique is one of the matrix.
LEMMA TacticsAreStandard ==
  ASSUME NEW t \in DOMAIN MITRE_TECHNIQUES
  PROVE  PrimaryTactic(t) \in Tactic
<1> DEFINE parts == MITRE_TECHNIQUES[t]
<1>2. /\ "Credential_Access" \in Tactic /\ "Lateral_Movement" \in Tactic /\ "Command_and_Control" \in Tactic
      /\ "Defense_Evasion" \in Tactic /\ "Execution" \in Tactic /\ "Impact" \in Tactic /\ "Discovery" \in Tactic
      /\ "Persistence" \in Tactic /\ "Privilege_Escalation" \in Tactic /\ "Initial_Access" \in Tactic
      /\ "Reconnaissance" \in Tactic
  BY TacticsAre, TacticsAreDistinct
<1>3. \A entry \in Catalogue : Len(entry[2]) \in Nat /\ Len(entry[2]) >= 1 /\ entry[2][1] \in Tactic
  <2> SUFFICES ASSUME NEW entry \in Catalogue
               PROVE  Len(entry[2]) \in Nat /\ Len(entry[2]) >= 1 /\ entry[2][1] \in Tactic
    OBVIOUS
  <2>1. \A p, T : entry \in Under(p, T) => entry[2] = p
    BY DEF Under
  <2>2. entry[2] \in {<<"Credential_Access">>, <<"Lateral_Movement">>, <<"Command_and_Control">>, <<"Defense_Evasion">>,
                      <<"Execution">>, <<"Impact">>, <<"Discovery">>, <<"Defense_Evasion", "Initial_Access">>,
                      <<"Persistence", "Privilege_Escalation">>, <<"Execution", "Persistence">>, <<"Persistence">>,
                      <<"Privilege_Escalation">>, <<"Initial_Access">>, <<"Reconnaissance">>}
    BY <2>1, Zenon DEF Catalogue
  <2>3. \E p \in Tactic : \E q : entry[2] = <<p>> \/ entry[2] = <<p, q>>
    BY <1>2, <2>2, Zenon
  <2>4. PICK p \in Tactic : \E q : entry[2] = <<p>> \/ entry[2] = <<p, q>>
    BY <2>3
  <2>5. CASE entry[2] = <<p>>
    BY <2>5
  <2>6. ASSUME NEW q, entry[2] = <<p, q>> PROVE Len(entry[2]) = 2 /\ entry[2][1] = p
    BY <2>6
  <2> QED BY <2>4, <2>5, <2>6
<1>4. Len(parts) \in Nat /\ Len(parts) >= 1 /\ parts[1] \in Tactic
  <2>1. PICK entry \in Catalogue : entry[1] = t
    BY DEF MITRE_TECHNIQUES
  <2>2. parts = (CHOOSE e \in Catalogue : e[1] = t)[2]
    BY DEF MITRE_TECHNIQUES
  <2>3. (CHOOSE e \in Catalogue : e[1] = t) \in Catalogue
    BY <2>1
  <2> QED BY <1>3, <2>2, <2>3
<1> DEFINE standard == {i \in 1..Len(parts) : parts[i] \in Tactic}
<1>5. 1 \in standard /\ \A j \in standard : 1 <= j
  BY <1>4
<1>6. (CHOOSE i \in standard : \A j \in standard : i <= j) \in standard
  BY <1>5
<1>7. PrimaryTactic(t) = parts[CHOOSE i \in standard : \A j \in standard : i <= j]
  BY <1>5 DEF PrimaryTactic, Tactic
<1> QED BY <1>6, <1>7

LEMMA OrderIsNumber == \A t : TacticOrder(t) \in Int
<1> SUFFICES ASSUME NEW t PROVE TacticOrder(t) \in Int
  OBVIOUS
<1>1. CASE t \in Tactic
  <2>1. \E i \in 1..Len(MITRE_TACTICS) : MITRE_TACTICS[i] = t
    BY <1>1, TacticsAre, TacticsAreDistinct
  <2>2. (CHOOSE i \in 1..Len(MITRE_TACTICS) : MITRE_TACTICS[i] = t) \in 1..Len(MITRE_TACTICS)
    BY <2>1
  <2>3. TacticOrder(t) = CHOOSE i \in 1..Len(MITRE_TACTICS) : MITRE_TACTICS[i] = t
    BY <1>1, Zenon DEF TacticOrder, Tactic
  <2>4. 1..Len(MITRE_TACTICS) \subseteq Int
    BY TacticsAre
  <2> QED BY <2>2, <2>3, <2>4, Zenon
<1>2. CASE t \notin Tactic
  BY <1>2 DEF TacticOrder, Tactic
<1> QED BY <1>1, <1>2

\* The records of a report are as many as their sources at most.
LEMMA ImageIsFinite ==
  ASSUME NEW A, IsFiniteSet(A), NEW g, DOMAIN g = A
  PROVE  IsFiniteSet({g[a] : a \in A})
<1> DEFINE T == {g[a] : a \in A}  h == [a \in A |-> g[a]]
<1>1. h \in Surjection(A, T)
  BY DEF Surjection
<1> HIDE DEF h, T
<1> QED BY <1>1, FS_Surjection DEF T

\* The tactics of a report have all its mapped alerts, each once.
LEMMA TacticsAddUp ==
  ASSUME NEW alerts, IsFiniteSet(DOMAIN alerts)
  PROVE  TotalOf(Tactics(alerts)) = Cardinality(MappedAlerts(alerts))
<1> DEFINE mapped == MappedAlerts(alerts)
           tactic(a) == PrimaryTactic(alerts[a].technique)
           g == [a \in mapped |-> TacticRecord(alerts, tactic(a))]
           records == {TacticRecord(alerts, tactic(a)) : a \in mapped}
           key == [r \in records |-> TacticOrder(r.tactic)]
           s == Tactics(alerts)
           n == Cardinality(records)
           f == [i \in DOMAIN s |-> s[i].alert_count]
           place == [a \in mapped |-> CHOOSE i \in 1..n : s[i].tactic = tactic(a)]
<1>1. IsFiniteSet(mapped)
  BY FS_Subset DEF MappedAlerts
<1>2. IsFiniteSet(records)
  <2>1. records = {g[a] : a \in mapped} /\ DOMAIN g = mapped
    OBVIOUS
  <2> HIDE DEF g, records, mapped
  <2> QED BY <1>1, <2>1, ImageIsFinite
<1>3. s = SortedBy(records, key)
  BY DEF Tactics
<1>4. \A t : /\ TacticRecord(alerts, t).tactic = t
             /\ TacticRecord(alerts, t).alert_count = Cardinality({a \in mapped : tactic(a) = t})
  BY DEF TacticRecord, TacticAlerts
<1>5. /\ s \in [1..n -> records] /\ \A i, j \in 1..n : i # j => s[i] # s[j]
      /\ \A x \in records : \E i \in 1..n : s[i] = x
  <2>1. \A x \in records : key[x] \in Int
    BY OrderIsNumber
  <2> HIDE DEF records, key, s
  <2> QED BY <1>2, <1>3, <2>1, SortedByIs
<1> HIDE DEF s
<1>6. \A i \in 1..n : s[i] = TacticRecord(alerts, s[i].tactic)
  BY <1>4, <1>5
<1>7. ASSUME NEW a \in mapped
      PROVE  place[a] \in 1..n /\ \A i \in 1..n : place[a] = i <=> s[i].tactic = tactic(a)
  <2>1. TacticRecord(alerts, tactic(a)) \in records
    OBVIOUS
  <2>2. \E i \in 1..n : s[i].tactic = tactic(a)
    <3>1. \A t : TacticRecord(alerts, t).tactic = t
      BY <1>4
    <3>2. \A x \in records : \E i \in 1..n : s[i] = x
      BY <1>5
    <3> HIDE DEF records, n, tactic
    <3>3. PICK i \in 1..n : s[i] = TacticRecord(alerts, tactic(a))
      BY <2>1, <3>2
    <3> QED BY <3>1, <3>3
  <2>3. place[a] \in 1..n /\ s[place[a]].tactic = tactic(a)
    <3>1. place[a] = CHOOSE i \in 1..n : s[i].tactic = tactic(a)
      OBVIOUS
    <3> HIDE DEF place, tactic, n
    <3> QED BY <2>2, <3>1, Zenon
  <2> HIDE DEF place, tactic, n
  <2> QED BY <1>5, <1>6, <2>3
<1>8. \A i \in 1..n : f[i] = Cardinality({a \in mapped : place[a] = i})
  <2> SUFFICES ASSUME NEW i \in 1..n PROVE f[i] = Cardinality({a \in mapped : place[a] = i})
    OBVIOUS
  <2>1. {a \in mapped : place[a] = i} = {a \in mapped : tactic(a) = s[i].tactic}
    <3> HIDE DEF place, tactic, mapped, n
    <3> QED BY <1>7
  <2>2. f[i] = s[i].alert_count
    BY <1>5
  <2>3. TacticRecord(alerts, s[i].tactic).alert_count = Cardinality({a \in mapped : tactic(a) = s[i].tactic})
    BY <1>4
  <2> HIDE DEF f, place, tactic, mapped
  <2> QED BY <1>6, <2>1, <2>2, <2>3
<1>9. n \in Nat /\ DOMAIN f = 1..n /\ IsFiniteSet(1..n)
  BY <1>2, <1>5, FS_CardinalityType, FS_Interval
<1>10. Total(f) = Cardinality({a \in mapped : place[a] \in 1..n})
  <2>1. IsFiniteSet(DOMAIN f) /\ \A i \in DOMAIN f : f[i] = Cardinality({a \in mapped : place[a] = i})
    BY <1>8, <1>9
  <2> HIDE DEF f, place, mapped, n
  <2>2. Total(f) = Cardinality({a \in mapped : place[a] \in DOMAIN f})
    BY <1>1, <2>1, CountsAddUp
  <2> QED BY <1>9, <2>2
<1>11. {a \in mapped : place[a] \in 1..n} = mapped
  BY <1>7
<1>12. TotalOf(s) = Total(f)
  BY DEF TotalOf
<1> HIDE DEF f, place
<1> QED BY <1>10, <1>11, <1>12 DEF s

\* So has the matrix, as every technique's tactic is in it.
LEMMA MatrixAddsUp ==
  ASSUME NEW alerts, IsFiniteSet(DOMAIN alerts)
  PROVE  TotalOf(MatrixGrid(alerts)) = Cardinality(MappedAlerts(alerts))
<1> DEFINE mapped == MappedAlerts(alerts)
           tactic(a) == PrimaryTactic(alerts[a].technique)
           s == MatrixGrid(alerts)
           f == [i \in DOMAIN s |-> s[i].alert_count]
           place == [a \in mapped |-> CHOOSE i \in 1..14 : MITRE_TACTICS[i] = tactic(a)]
<1>1. IsFiniteSet(mapped)
  BY FS_Subset DEF MappedAlerts
<1>2. /\ \A i, j \in 1..14 : i # j => MITRE_TACTICS[i] # MITRE_TACTICS[j]
      /\ \A t \in Tactic : \E i \in 1..14 : MITRE_TACTICS[i] = t
      /\ Len(MITRE_TACTICS) = 14
  BY TacticsAreDistinct, TacticsAre
<1>3. \A i \in 1..14 : f[i] = Cardinality({a \in mapped : tactic(a) = MITRE_TACTICS[i]})
  BY <1>2 DEF MatrixGrid, TacticAlerts
<1>4. DOMAIN f = 1..14 /\ IsFiniteSet(1..14)
  <2>1. DOMAIN s = 1..14
    BY <1>2 DEF MatrixGrid
  <2>2. DOMAIN f = DOMAIN s
    <3> HIDE DEF s
    <3> QED OBVIOUS
  <2>3. \A m \in Int : IsFiniteSet(1..m)
    BY FS_Interval
  <2>4. 14 \in Int
    OBVIOUS
  <2>5. IsFiniteSet(1..14)
    BY <2>3, <2>4, Zenon
  <2> HIDE DEF f, s
  <2> QED BY <2>1, <2>2, <2>5, Zenon
<1>5. ASSUME NEW a \in mapped
      PROVE  place[a] \in 1..14 /\ \A i \in 1..14 : place[a] = i <=> MITRE_TACTICS[i] = tactic(a)
  <2>1. tactic(a) \in Tactic
    BY TacticsAreStandard DEF MappedAlerts
  <2>2. place[a] \in 1..14 /\ MITRE_TACTICS[place[a]] = tactic(a)
    BY <1>2, <2>1
  <2> HIDE DEF place, tactic
  <2> QED BY <1>2, <2>2
<1>6. \A i \in 1..14 : f[i] = Cardinality({a \in mapped : place[a] = i})
  <2> SUFFICES ASSUME NEW i \in 1..14 PROVE f[i] = Cardinality({a \in mapped : place[a] = i})
    OBVIOUS
  <2>1. {a \in mapped : place[a] = i} = {a \in mapped : tactic(a) = MITRE_TACTICS[i]}
    <3> HIDE DEF place, tactic, mapped
    <3> QED BY <1>5
  <2> HIDE DEF f, place, tactic, mapped
  <2> QED BY <1>3, <2>1
<1>7. Total(f) = Cardinality({a \in mapped : place[a] \in 1..14})
  <2>1. IsFiniteSet(DOMAIN f) /\ \A i \in DOMAIN f : f[i] = Cardinality({a \in mapped : place[a] = i})
    BY <1>4, <1>6
  <2> HIDE DEF f, place, mapped
  <2>2. Total(f) = Cardinality({a \in mapped : place[a] \in DOMAIN f})
    BY <1>1, <2>1, CountsAddUp
  <2> QED BY <1>4, <2>2
<1>8. {a \in mapped : place[a] \in 1..14} = mapped
  BY <1>5
<1>9. TotalOf(s) = Total(f)
  BY DEF TotalOf
<1> HIDE DEF f, place, s
<1> QED BY <1>7, <1>8, <1>9 DEF s

\* The techniques that lead a report are ten at most.
LEMMA TopTechniques ==
  ASSUME NEW alerts, IsFiniteSet(DOMAIN alerts), NEW A \in SUBSET DOMAIN alerts
  PROVE  LET board == Techniques(alerts, A) IN Len(SubSeq(board, 1, Min({10, Len(board)}))) <= 10
<1> DEFINE g == [a \in A |-> TechniqueRecord(alerts, alerts[a].technique)]
           records == {TechniqueRecord(alerts, alerts[a].technique) : a \in A}
           key == [r \in records |-> -r.alert_count]
           n == Cardinality(records)
           board == Techniques(alerts, A)
<1>1. IsFiniteSet(records)
  <2>1. records = {g[a] : a \in A} /\ DOMAIN g = A /\ IsFiniteSet(A)
    BY FS_Subset
  <2> HIDE DEF g, records
  <2> QED BY <2>1, ImageIsFinite
<1>2. \A r \in records : key[r] \in Int
  <2> SUFFICES ASSUME NEW a \in A PROVE -TechniqueRecord(alerts, alerts[a].technique).alert_count \in Int
    OBVIOUS
  <2> DEFINE alike == {b \in DOMAIN alerts : alerts[b].technique = alerts[a].technique}
  <2>1. Cardinality(alike) \in Nat
    BY FS_Subset, FS_CardinalityType
  <2>2. TechniqueRecord(alerts, alerts[a].technique).alert_count = Cardinality(alike)
    BY DEF TechniqueRecord
  <2> HIDE DEF alike
  <2> QED BY <2>1, <2>2
<1>3. n \in Nat /\ board \in [1..n -> records]
  <2>1. board = SortedBy(records, key)
    BY DEF Techniques
  <2> HIDE DEF records, key, board
  <2> QED BY <1>1, <1>2, <2>1, SortedByIs, FS_CardinalityType
<1> HIDE DEF n, records, board
<1>4. Len(board) = n /\ board \in Seq(records)
  BY <1>3
<1>5. Min({10, n}) \in Nat /\ Min({10, n}) <= 10 /\ Min({10, n}) <= n
  BY <1>3, LesserOfTwo
<1>6. Len(SubSeq(board, 1, Min({10, n}))) = IF 1 <= Min({10, n}) THEN Min({10, n}) - 1 + 1 ELSE 0
  BY <1>3, <1>4, <1>5, SubSeqProperties
<1> QED BY <1>4, <1>5, <1>6 DEF board

\* Some alert is the most severe.
LEMMA MostSevere ==
  ASSUME NEW alerts, NEW A, A # {}, \A a \in A : alerts[a].severity \in DOMAIN SEVERITY_ORDER
  PROVE  HighestSeverity(alerts, A) \in DOMAIN SEVERITY_ORDER
<1> DEFINE rank(a) == SEVERITY_ORDER[alerts[a].severity]
<1>1. \A a \in A : rank(a) \in 1..4
  BY DEF SEVERITY_ORDER
<1>2. \E a \in A : \A b \in A : rank(a) >= rank(b)
  <2> HIDE DEF rank
  <2>1. CASE \E a \in A : rank(a) = 4
    BY <1>1, <2>1
  <2>2. CASE ~(\E a \in A : rank(a) = 4) /\ \E a \in A : rank(a) = 3
    BY <1>1, <2>2
  <2>3. CASE ~(\E a \in A : rank(a) >= 3) /\ \E a \in A : rank(a) = 2
    BY <1>1, <2>3
  <2>4. CASE \A a \in A : rank(a) < 2
    BY <1>1, <2>4
  <2> QED BY <1>1, <2>1, <2>2, <2>3, <2>4
<1>3. (CHOOSE a \in A : \A b \in A : rank(a) >= rank(b)) \in A
  <2> HIDE DEF rank
  <2> QED BY <1>2
<1> QED BY <1>3 DEF HighestSeverity

\* The report that generate_summary_report makes of any alerts agrees with itself and with their
\* number: each mapped alert is counted under one of the tactics it lists and in one cell of the
\* matrix, the leaderboard has at most ten, and there is a severity if an alert is mapped.
THEOREM ReportsAgree ==
  ASSUME NEW alerts, IsFiniteSet(DOMAIN alerts),
         \A a \in DOMAIN alerts : alerts[a].severity \in DOMAIN SEVERITY_ORDER,
         NEW a, a.listed = Cardinality(DOMAIN alerts), a.summary = Summary(alerts)
  PROVE  SummaryAgrees(a)
<1> DEFINE all == DOMAIN alerts
           mapped == MappedAlerts(alerts)
           board == Techniques(alerts, mapped)
           s == Summary(alerts)
<1>1. /\ s.total_alerts = Cardinality(all) /\ s.mapped_alerts = Cardinality(mapped)
      /\ s.unmapped_alerts = Cardinality(all \ mapped)
      /\ s.highest_severity = IF mapped = {} THEN "NONE" ELSE HighestSeverity(alerts, all)
      /\ s.tactics = Tactics(alerts) /\ s.matrix_grid = MatrixGrid(alerts)
      /\ s.top_techniques = SubSeq(board, 1, Min({10, Len(board)}))
  BY DEF Summary
<1>2. mapped \in SUBSET all /\ IsFiniteSet(mapped) /\ Cardinality(mapped) \in Nat
  <2>1. mapped \in SUBSET all
    BY DEF MappedAlerts
  <2> QED BY <2>1, FS_Subset, FS_CardinalityType
<1>3. Cardinality(all \ mapped) = Cardinality(all) - Cardinality(mapped) /\ Cardinality(all) \in Nat
  <2>1. all \cap mapped = mapped
    BY <1>2
  <2>2. IsFiniteSet(all)
    OBVIOUS
  <2> HIDE DEF mapped, all
  <2>3. Cardinality(all \ mapped) = Cardinality(all) - Cardinality(all \cap mapped)
    BY <2>2, FS_Difference
  <2>4. Cardinality(all) \in Nat
    BY <2>2, FS_CardinalityType
  <2> QED BY <2>1, <2>3, <2>4
<1>4. (Cardinality(mapped) > 0) = (s.highest_severity # "NONE")
  <2>1. Cardinality(mapped) = 0 <=> mapped = {}
    BY <1>2, FS_EmptySet
  <2>2. ASSUME mapped # {} PROVE HighestSeverity(alerts, all) # "NONE"
    <3>1. HighestSeverity(alerts, all) \in DOMAIN SEVERITY_ORDER
      BY <1>2, <2>2, MostSevere
    <3> QED BY <3>1 DEF SEVERITY_ORDER
  <2> HIDE DEF s, mapped
  <2> QED BY <1>1, <1>2, <2>1, <2>2
<1>5. TotalOf(s.tactics) = Cardinality(mapped) /\ TotalOf(s.matrix_grid) = Cardinality(mapped)
  BY <1>1, TacticsAddUp, MatrixAddsUp
<1>6. Len(s.top_techniques) <= 10
  <2> HIDE DEF s, mapped
  <2> QED BY <1>1, <1>2, TopTechniques
<1>7. a.summary = s /\ a.listed = Cardinality(all)
  OBVIOUS
<1> HIDE DEF s, mapped, all
<1>8. s.mapped_alerts + s.unmapped_alerts = s.total_alerts
  BY <1>1, <1>2, <1>3
<1> QED BY <1>1, <1>4, <1>5, <1>6, <1>7, <1>8, Zenon DEF SummaryAgrees

-----------------------------------------------------------------------------
(* The figures of an answer, one query after the other.                    *)

\* The alerts and the incidents behind the queries of a request, in any database.
Demonstrated(d) == {a \in DOMAIN d.alerts : d.alerts[a].origin = "SIMULATED_DEMO"}
GenuineIn(q, dm) == q.kind = "stats" /\ ~Guestlike(q) /\ ~dm
AlertsIn(d, q, dm) ==
  IF Guestlike(q) THEN Demonstrated(d)
  ELSE IF GenuineIn(q, dm) THEN DOMAIN d.alerts \ Demonstrated(d) ELSE DOMAIN d.alerts
OfDemonstrations(d, i) == \A a \in d.members[i] : d.alerts[a].origin = "SIMULATED_DEMO"
IncidentsIn(d, q, dm) ==
  IF Guestlike(q) THEN {i \in DOMAIN d.members : OfDemonstrations(d, i)}
  ELSE IF GenuineIn(q, dm) THEN {i \in DOMAIN d.members : ~OfDemonstrations(d, i)} ELSE DOMAIN d.members

\* The database holds finitely many alerts, each with one of the four severities and statuses.
KnownRows(d) ==
  /\ IsFiniteSet(DOMAIN d.alerts)
  /\ \A a \in DOMAIN d.alerts : d.alerts[a].severity \in DOMAIN SEVERITY_ORDER /\ d.alerts[a].status \in Statuses

\* The figures that a step adds, and those of the first n steps of a script.
Counts == {"total", "incident_total", "severities", "statuses", "incidents"}
FiguresOf(step) ==
  IF step = "list" THEN {"listed"} ELSE IF step = "report" THEN {"listed", "summary"}
  ELSE IF step \in Counts THEN {step} ELSE {}
FiguresBy(S, n) == UNION {FiguresOf(S[m]) : m \in 1..n}

\* Figures that were taken of fewer alerts than now, or of as many if nothing was committed, and
\* each of no more than those that were taken after it.
FiguresHold(kind, guest, genuine, f, calm, alerts, incidents) ==
  LET D == DOMAIN f IN
  /\ "total" \in D => f.total \in Nat /\ f.total <= alerts /\ (calm => f.total = alerts)
  /\ "severities" \in D => /\ Total(f.severities) \in Nat /\ Total(f.severities) <= alerts
                           /\ calm => Total(f.severities) = alerts
  /\ "statuses" \in D => Total(f.statuses) \in Nat /\ (calm => Total(f.statuses) <= alerts)
  /\ "total" \in D /\ "severities" \in D => f.total <= Total(f.severities)
  /\ kind = "stats" /\ "severities" \in D /\ "statuses" \in D => Total(f.severities) <= Total(f.statuses)
  /\ "incident_total" \in D => /\ calm => f.incident_total = incidents
                               /\ genuine /\ f.incident_total > 0 => alerts > 0
  /\ genuine /\ "incident_total" \in D /\ "total" \in D => (f.incident_total > 0 => f.total > 0)
  /\ "incidents" \in D => (calm => f.incidents = Min({PageSize, incidents}))
  /\ kind = "dashboard" /\ "listed" \in D => /\ f.listed \in Nat /\ f.listed <= alerts
                                             /\ calm => f.listed = Min({PageSize, alerts})
  /\ kind = "dashboard" /\ "listed" \in D /\ "total" \in D =>
       IF guest THEN f.listed <= f.total ELSE f.listed >= Min({PageSize, f.total})
  /\ kind = "report" /\ "summary" \in D => SummaryAgrees(f)

\* The request has done n steps of its script and has these figures.
StepsDone(q, d, dm, n, figures) ==
  /\ DOMAIN figures = FiguresBy(Script(q.kind, IsGuest(q.user)), n)
  /\ FiguresHold(q.kind, IsGuest(q.user), GenuineIn(q, dm), figures, q.since = "calm",
                 Cardinality(AlertsIn(d, q, dm)), Cardinality(IncidentsIn(d, q, dm)))

AnswerInv(q, d, dm) ==
  LET S == Script(q.kind, IsGuest(q.user)) IN
  Compared(q.kind) =>
    /\ q.since \in {"calm", "grown", "changed"} /\ (q.since = "changed" => q.figures = <<>>)
    /\ \E n \in 0..Len(S) :
         /\ q.todo = SubSeq(S, n + 1, Len(S)) /\ (q.at = "answered" => n = Len(S))
         /\ q.since # "changed" => StepsDone(q, d, dm, n, q.figures)

AInv == KnownRows(db) /\ \A r \in Requests : AnswerInv(req[r], db, demo)

\* How many alerts each severity has, and each status.
LEMMA CountsOfRows ==
  ASSUME KnownRows(db), NEW A \in SUBSET Stored
  PROVE  /\ IsFiniteSet(A) /\ Cardinality(A) \in Nat
         /\ Total(CountBy(A, "severity", DOMAIN SEVERITY_ORDER)) = Cardinality(A)
         /\ Total(CountBy(A, "status", Statuses)) = Cardinality(A)
         /\ Total(CountBy(A, "status", Statuses \ {"FALSE_POSITIVE"})) \in Nat
         /\ Total(CountBy(A, "status", Statuses \ {"FALSE_POSITIVE"})) <= Cardinality(A)
<1>1. IsFiniteSet(A) /\ Cardinality(A) \in Nat
  BY FS_Subset, FS_CardinalityType DEF KnownRows, Stored
<1>2. IsFiniteSet(DOMAIN SEVERITY_ORDER) /\ IsFiniteSet(Statuses) /\ IsFiniteSet(Statuses \ {"FALSE_POSITIVE"})
  <2>1. DOMAIN SEVERITY_ORDER = {"CRITICAL", "HIGH", "MEDIUM", "LOW"}
    BY DEF SEVERITY_ORDER
  <2>2. \A s, t, u, v : IsFiniteSet({s, t, u, v})
    <3> SUFFICES ASSUME NEW s, NEW t, NEW u, NEW v PROVE IsFiniteSet({s, t, u, v})
      OBVIOUS
    <3>1. IsFiniteSet({s}) /\ IsFiniteSet({s} \cup {t})
      BY FS_Singleton, FS_AddElement
    <3>2. IsFiniteSet(({s} \cup {t}) \cup {u})
      BY <3>1, FS_AddElement
    <3>3. IsFiniteSet((({s} \cup {t}) \cup {u}) \cup {v})
      BY <3>2, FS_AddElement
    <3>4. {s, t, u, v} = (({s} \cup {t}) \cup {u}) \cup {v}
      OBVIOUS
    <3> QED BY <3>3, <3>4
  <2>3. IsFiniteSet(Statuses)
    BY <2>2 DEF Statuses
  <2> QED BY <2>1, <2>2, <2>3, FS_Subset
<1>3. ASSUME NEW field, NEW values, IsFiniteSet(values)
      PROVE  Total(CountBy(A, field, values)) = Cardinality({a \in A : db.alerts[a][field] \in values})
  <2> DEFINE value == [a \in A |-> db.alerts[a][field]]
             f == CountBy(A, field, values)
  <2>1. DOMAIN f = values
    BY DEF CountBy
  <2>2. \A v \in DOMAIN f : f[v] = Cardinality({a \in A : value[a] = v})
    <3> SUFFICES ASSUME NEW v \in values PROVE f[v] = Cardinality({a \in A : value[a] = v})
      BY <2>1
    <3>1. {a \in A : value[a] = v} = {a \in A : db.alerts[a][field] = v}
      OBVIOUS
    <3>2. f[v] = Cardinality({a \in A : db.alerts[a][field] = v})
      BY DEF CountBy
    <3> QED BY <3>1, <3>2
  <2>3. {a \in A : value[a] \in DOMAIN f} = {a \in A : db.alerts[a][field] \in values}
    BY <2>1
  <2> HIDE DEF f, value
  <2>4. Total(f) = Cardinality({a \in A : value[a] \in DOMAIN f})
    BY <1>1, <1>3, <2>1, <2>2, CountsAddUp
  <2> QED BY <2>3, <2>4 DEF f
<1>4. Total(CountBy(A, "severity", DOMAIN SEVERITY_ORDER)) = Cardinality(A)
  <2>1. {a \in A : db.alerts[a]["severity"] \in DOMAIN SEVERITY_ORDER} = A
    BY DEF KnownRows, Stored
  <2> QED BY <1>2, <1>3, <2>1
<1>5. Total(CountBy(A, "status", Statuses)) = Cardinality(A)
  <2>1. {a \in A : db.alerts[a]["status"] \in Statuses} = A
    BY DEF KnownRows, Stored
  <2> QED BY <1>2, <1>3, <2>1
<1>6. /\ Total(CountBy(A, "status", Statuses \ {"FALSE_POSITIVE"})) \in Nat
      /\ Total(CountBy(A, "status", Statuses \ {"FALSE_POSITIVE"})) <= Cardinality(A)
  <2> DEFINE shown == {a \in A : db.alerts[a]["status"] \in Statuses \ {"FALSE_POSITIVE"}}
  <2>1. Total(CountBy(A, "status", Statuses \ {"FALSE_POSITIVE"})) = Cardinality(shown)
    BY <1>2, <1>3
  <2>2. shown \subseteq A
    OBVIOUS
  <2> HIDE DEF shown
  <2> QED BY <1>1, <2>1, <2>2, FS_Subset, FS_CardinalityType
<1> QED BY <1>1, <1>4, <1>5, <1>6

\* What is read now is what is in the database now.
LEMMA WhatIsRead ==
  ASSUME NEW q
  PROVE  AlertsFor(q) = AlertsIn(db, q, demo) /\ IncidentsFor(q) = IncidentsIn(db, q, demo)
<1>1. GuestsAlerts = Demonstrated(db)
  BY DEF GuestsAlerts, IsDemo, Demonstrated, Stored
<1>2. AlertsFor(q) = AlertsIn(db, q, demo)
  BY <1>1 DEF AlertsFor, AlertsIn, GenuineIn, Genuine, Stored
<1>3. \A i : OfDemonstrations(db, i) <=> \A a \in db.members[i] : IsDemo(a)
  BY DEF OfDemonstrations, IsDemo
<1>4. IncidentsFor(q) = IncidentsIn(db, q, demo)
  BY <1>3 DEF IncidentsFor, IncidentsIn, GenuineIn, Genuine, GuestsIncidents, Open
<1> QED BY <1>2, <1>4

LEMMA FieldsOfAdded ==
  ASSUME NEW part, NEW f
  PROVE  LET g == Added(part, f) IN
         /\ DOMAIN g = DOMAIN part \cup DOMAIN f
         /\ \A x \in DOMAIN part : g[x] = part[x]
         /\ \A x \in DOMAIN f \ DOMAIN part : g[x] = f[x]
BY DEF Added

\* Each figure is one more that holds.
LEMMA TotalHolds ==
  ASSUME NEW kind, kind # "report", NEW guest, NEW genuine, NEW f, NEW calm, NEW a \in Nat, NEW i,
         FiguresHold(kind, guest, genuine, f, calm, a, i), "severities" \notin DOMAIN f,
         kind = "dashboard" /\ ~guest => "listed" \notin DOMAIN f
  PROVE  FiguresHold(kind, guest, genuine, Added([total |-> a], f), calm, a, i)
<1> DEFINE part == [total |-> a]
           g == Added(part, f)
<1>1. DOMAIN part = {"total"} /\ part["total"] = a
  OBVIOUS
<1> HIDE DEF part
<1>2. /\ DOMAIN g = {"total"} \cup DOMAIN f /\ g["total"] = a
      /\ \A x \in DOMAIN f \ {"total"} : g[x] = f[x]
  <2>1. /\ DOMAIN g = DOMAIN part \cup DOMAIN f /\ \A x \in DOMAIN part : g[x] = part[x]
        /\ \A x \in DOMAIN f \ DOMAIN part : g[x] = f[x]
    BY FieldsOfAdded
  <2> HIDE DEF g
  <2> QED BY <1>1, <2>1
<1> HIDE DEF g
<1>3. /\ "listed" \in DOMAIN f => g.listed = f.listed
      /\ "statuses" \in DOMAIN f => g.statuses = f.statuses
      /\ "incident_total" \in DOMAIN f => g.incident_total = f.incident_total
      /\ "incidents" \in DOMAIN f => g.incidents = f.incidents
      /\ g.total = a
  BY <1>2
<1>4. FiguresHold(kind, guest, genuine, g, calm, a, i)
  BY <1>2, <1>3 DEF FiguresHold
<1> QED BY <1>4 DEF g, part

LEMMA SeveritiesHold ==
  ASSUME NEW kind, kind # "report", NEW guest, NEW genuine, NEW f, NEW calm, NEW a \in Nat, NEW i,
         FiguresHold(kind, guest, genuine, f, calm, a, i), kind = "stats" => "statuses" \notin DOMAIN f,
         NEW counts, Total(counts) = a
  PROVE  FiguresHold(kind, guest, genuine, Added([severities |-> counts], f), calm, a, i)
<1> DEFINE part == [severities |-> counts]
           g == Added(part, f)
<1>1. DOMAIN part = {"severities"} /\ part["severities"] = counts
  OBVIOUS
<1> HIDE DEF part
<1>2. /\ DOMAIN g = {"severities"} \cup DOMAIN f /\ g["severities"] = counts
      /\ \A x \in DOMAIN f \ {"severities"} : g[x] = f[x]
  <2>1. /\ DOMAIN g = DOMAIN part \cup DOMAIN f /\ \A x \in DOMAIN part : g[x] = part[x]
        /\ \A x \in DOMAIN f \ DOMAIN part : g[x] = f[x]
    BY FieldsOfAdded
  <2> HIDE DEF g
  <2> QED BY <1>1, <2>1
<1> HIDE DEF g
<1>3. /\ "listed" \in DOMAIN f => g.listed = f.listed
      /\ "statuses" \in DOMAIN f => g.statuses = f.statuses
      /\ "incident_total" \in DOMAIN f => g.incident_total = f.incident_total
      /\ "incidents" \in DOMAIN f => g.incidents = f.incidents
      /\ "total" \in DOMAIN f => g.total = f.total
      /\ Total(g.severities) = a
  BY <1>2
<1>4. FiguresHold(kind, guest, genuine, g, calm, a, i)
  BY <1>2, <1>3 DEF FiguresHold
<1> QED BY <1>4 DEF g, part

LEMMA StatusesHold ==
  ASSUME NEW kind, kind # "report", NEW guest, NEW genuine, NEW f, NEW calm, NEW a \in Nat, NEW i,
         FiguresHold(kind, guest, genuine, f, calm, a, i),
         NEW counts, Total(counts) \in Nat, Total(counts) <= a, kind = "stats" => Total(counts) = a
  PROVE  FiguresHold(kind, guest, genuine, Added([statuses |-> counts], f), calm, a, i)
<1> DEFINE part == [statuses |-> counts]
           g == Added(part, f)
<1>1. DOMAIN part = {"statuses"} /\ part["statuses"] = counts
  OBVIOUS
<1> HIDE DEF part
<1>2. /\ DOMAIN g = {"statuses"} \cup DOMAIN f /\ g["statuses"] = counts
      /\ \A x \in DOMAIN f \ {"statuses"} : g[x] = f[x]
  <2>1. /\ DOMAIN g = DOMAIN part \cup DOMAIN f /\ \A x \in DOMAIN part : g[x] = part[x]
        /\ \A x \in DOMAIN f \ DOMAIN part : g[x] = f[x]
    BY FieldsOfAdded
  <2> HIDE DEF g
  <2> QED BY <1>1, <2>1
<1> HIDE DEF g
<1>3. /\ "listed" \in DOMAIN f => g.listed = f.listed
      /\ "severities" \in DOMAIN f => g.severities = f.severities
      /\ "incident_total" \in DOMAIN f => g.incident_total = f.incident_total
      /\ "incidents" \in DOMAIN f => g.incidents = f.incidents
      /\ "total" \in DOMAIN f => g.total = f.total
      /\ Total(g.statuses) = Total(counts)
  BY <1>2
<1>4. FiguresHold(kind, guest, genuine, g, calm, a, i)
  BY <1>2, <1>3 DEF FiguresHold
<1> QED BY <1>4 DEF g, part

LEMMA IncidentTotalHolds ==
  ASSUME NEW kind, kind # "report", NEW guest, NEW genuine, NEW f, NEW calm, NEW a \in Nat, NEW i,
         FiguresHold(kind, guest, genuine, f, calm, a, i),
         genuine => "total" \notin DOMAIN f, genuine /\ i > 0 => a > 0
  PROVE  FiguresHold(kind, guest, genuine, Added([incident_total |-> i], f), calm, a, i)
<1> DEFINE part == [incident_total |-> i]
           g == Added(part, f)
<1>1. DOMAIN part = {"incident_total"} /\ part["incident_total"] = i
  OBVIOUS
<1> HIDE DEF part
<1>2. /\ DOMAIN g = {"incident_total"} \cup DOMAIN f /\ g["incident_total"] = i
      /\ \A x \in DOMAIN f \ {"incident_total"} : g[x] = f[x]
  <2>1. /\ DOMAIN g = DOMAIN part \cup DOMAIN f /\ \A x \in DOMAIN part : g[x] = part[x]
        /\ \A x \in DOMAIN f \ DOMAIN part : g[x] = f[x]
    BY FieldsOfAdded
  <2> HIDE DEF g
  <2> QED BY <1>1, <2>1
<1> HIDE DEF g
<1>3. /\ "listed" \in DOMAIN f => g.listed = f.listed
      /\ "severities" \in DOMAIN f => g.severities = f.severities
      /\ "statuses" \in DOMAIN f => g.statuses = f.statuses
      /\ "incidents" \in DOMAIN f => g.incidents = f.incidents
      /\ "total" \in DOMAIN f => g.total = f.total
      /\ g.incident_total = i
  BY <1>2
<1>4. FiguresHold(kind, guest, genuine, g, calm, a, i)
  BY <1>2, <1>3 DEF FiguresHold
<1> QED BY <1>4 DEF g, part

LEMMA ListedHolds ==
  ASSUME NEW kind, kind # "report", NEW guest, NEW genuine, NEW f, NEW calm, NEW a \in Nat, NEW i,
         FiguresHold(kind, guest, genuine, f, calm, a, i), guest => "total" \notin DOMAIN f
  PROVE  FiguresHold(kind, guest, genuine, Added([listed |-> Min({PageSize, a})], f), calm, a, i)
<1> DEFINE m == Min({PageSize, a})
           part == [listed |-> m]
           g == Added(part, f)
<1>1. DOMAIN part = {"listed"} /\ part["listed"] = m
  OBVIOUS
<1> HIDE DEF part
<1>2. /\ DOMAIN g = {"listed"} \cup DOMAIN f /\ g["listed"] = m
      /\ \A x \in DOMAIN f \ {"listed"} : g[x] = f[x]
  <2>1. /\ DOMAIN g = DOMAIN part \cup DOMAIN f /\ \A x \in DOMAIN part : g[x] = part[x]
        /\ \A x \in DOMAIN f \ DOMAIN part : g[x] = f[x]
    BY FieldsOfAdded
  <2> HIDE DEF g
  <2> QED BY <1>1, <2>1
<1> HIDE DEF g
<1>3. /\ "incidents" \in DOMAIN f => g.incidents = f.incidents
      /\ "severities" \in DOMAIN f => g.severities = f.severities
      /\ "statuses" \in DOMAIN f => g.statuses = f.statuses
      /\ "incident_total" \in DOMAIN f => g.incident_total = f.incident_total
      /\ "total" \in DOMAIN f => g.total = f.total
      /\ g.listed = m
  BY <1>2
<1>4. m \in Nat /\ m <= a /\ \A k \in Nat : k <= a => Min({PageSize, k}) <= m
  BY LesserOfTwo, ViewsConstantsOK
<1> HIDE DEF m
<1>5. "total" \in DOMAIN f => f.total \in Nat /\ Min({PageSize, f.total}) <= m /\ Min({PageSize, f.total}) \in Nat
  BY <1>4, LesserOfTwo, ViewsConstantsOK DEF FiguresHold
<1>6. m = Min({PageSize, a})
  BY DEF m
<1>7. FiguresHold(kind, guest, genuine, g, calm, a, i)
  BY <1>2, <1>3, <1>4, <1>5, <1>6 DEF FiguresHold
<1> QED BY <1>7 DEF g, part, m

LEMMA IncidentsHold ==
  ASSUME NEW kind, kind # "report", NEW guest, NEW genuine, NEW f, NEW calm, NEW a \in Nat, NEW i,
         FiguresHold(kind, guest, genuine, f, calm, a, i)
  PROVE  FiguresHold(kind, guest, genuine, Added([incidents |-> Min({PageSize, i})], f), calm, a, i)
<1> DEFINE m == Min({PageSize, i})
           part == [incidents |-> m]
           g == Added(part, f)
<1>1. DOMAIN part = {"incidents"} /\ part["incidents"] = m
  OBVIOUS
<1> HIDE DEF part
<1>2. /\ DOMAIN g = {"incidents"} \cup DOMAIN f /\ g["incidents"] = m
      /\ \A x \in DOMAIN f \ {"incidents"} : g[x] = f[x]
  <2>1. /\ DOMAIN g = DOMAIN part \cup DOMAIN f /\ \A x \in DOMAIN part : g[x] = part[x]
        /\ \A x \in DOMAIN f \ DOMAIN part : g[x] = f[x]
    BY FieldsOfAdded
  <2> HIDE DEF g
  <2> QED BY <1>1, <2>1
<1> HIDE DEF g
<1>3. /\ "listed" \in DOMAIN f => g.listed = f.listed
      /\ "severities" \in DOMAIN f => g.severities = f.severities
      /\ "statuses" \in DOMAIN f => g.statuses = f.statuses
      /\ "incident_total" \in DOMAIN f => g.incident_total = f.incident_total
      /\ "total" \in DOMAIN f => g.total = f.total
      /\ g.incidents = m
  BY <1>2
<1>4. FiguresHold(kind, guest, genuine, g, calm, a, i)
  BY <1>2, <1>3 DEF FiguresHold
<1> QED BY <1>4 DEF g, part, m

\* A report is one figure.
LEMMA ReportHolds ==
  ASSUME KnownRows(db), NEW A \in SUBSET Stored, NEW f, DOMAIN f = {}, NEW guest, NEW genuine, NEW calm, NEW a, NEW i
  PROVE  LET part == [listed |-> Cardinality(A), summary |-> Summary([x \in A |-> db.alerts[x]])]
         IN FiguresHold("report", guest, genuine, Added(part, f), calm, a, i)
<1> DEFINE alerts == [x \in A |-> db.alerts[x]]
           part == [listed |-> Cardinality(A), summary |-> Summary(alerts)]
           g == Added(part, f)
<1>1. DOMAIN alerts = A /\ \A x \in DOMAIN alerts : alerts[x].severity \in DOMAIN SEVERITY_ORDER
  BY DEF KnownRows, Stored
<1>2. IsFiniteSet(DOMAIN alerts)
  BY <1>1, CountsOfRows
<1> HIDE DEF alerts
<1>3. /\ DOMAIN part = {"listed", "summary"} /\ part["listed"] = Cardinality(DOMAIN alerts)
      /\ part["summary"] = Summary(alerts)
  BY <1>1
<1> HIDE DEF part
<1>4. DOMAIN g = {"listed", "summary"} /\ g.listed = Cardinality(DOMAIN alerts) /\ g.summary = Summary(alerts)
  <2>1. DOMAIN g = DOMAIN part \cup DOMAIN f /\ \A x \in DOMAIN part : g[x] = part[x]
    BY FieldsOfAdded
  <2> QED BY <1>3, <2>1
<1> HIDE DEF g
<1>5. SummaryAgrees(g)
  BY <1>1, <1>2, <1>4, ReportsAgree
<1>6. FiguresHold("report", guest, genuine, g, calm, a, i)
  BY <1>4, <1>5 DEF FiguresHold
<1> QED BY <1>6 DEF g, part, alerts

\* What is committed beside only adds alerts: what holds of fewer, holds of more.
LEMMA FiguresHoldOfMore ==
  ASSUME NEW kind, NEW guest, NEW genuine, NEW f, NEW calm, NEW a \in Nat, NEW i, NEW b \in Nat, a <= b, NEW j,
         FiguresHold(kind, guest, genuine, f, calm, a, i)
  PROVE  FiguresHold(kind, guest, genuine, f, FALSE, b, j)
BY DEF FiguresHold

\* An answer without figures.
LEMMA NothingHolds ==
  ASSUME NEW kind, NEW guest, NEW genuine, NEW f, DOMAIN f = {}, NEW calm, NEW a, NEW i
  PROVE  FiguresHold(kind, guest, genuine, f, calm, a, i)
BY DEF FiguresHold

\* Which queries come first, in the handlers whose answers have more than one figure.
Quiet == {"count", "fill", "insert", "correlate"}
Ordered(S, kind, guest) ==
  /\ \A n \in 1..Len(S) :
       /\ S[n] \in Quiet \cup Counts \cup {"list", "report"}
       /\ S[n] = "list" => kind = "dashboard"
       /\ S[n] = "report" <=> kind = "report"
       /\ kind = "report" => n = 1
       /\ \A m \in 1..(n - 1) :
            /\ S[n] \in Quiet => S[m] \in Quiet
            /\ S[n] = "total" => S[m] # "severities" /\ (kind = "dashboard" /\ ~guest => S[m] # "list")
            /\ S[n] = "severities" /\ kind = "stats" => S[m] # "statuses"
            /\ S[n] = "incident_total" /\ kind = "stats" => S[m] # "total"
            /\ S[n] = "list" /\ guest => S[m] # "total"
  /\ kind = "report" => \E n \in 1..Len(S) : S[n] = "report"
  /\ kind = "dashboard" => (\E n \in 1..Len(S) : S[n] = "list") /\ (\E n \in 1..Len(S) : S[n] = "incidents")
  /\ kind # "report" => /\ \E n \in 1..Len(S) : S[n] = "total"
                        /\ \E n \in 1..Len(S) : S[n] = "severities"
                        /\ \E n \in 1..Len(S) : S[n] = "incident_total"
                        /\ \E n \in 1..Len(S) : S[n] = "statuses"

LEMMA ScriptsAreOrdered ==
  ASSUME NEW kind, Compared(kind), NEW guest \in BOOLEAN
  PROVE  LET S == Script(kind, guest) IN Len(S) \in Nat /\ Ordered(S, kind, guest)
<1>1. CASE kind = "stats"
  <2> DEFINE S == <<"incident_total", "total", "severities", "statuses">>
  <2>1. Script(kind, guest) = S
    BY <1>1 DEF Script, ScriptOf
  <2>2. Len(S) = 4
    OBVIOUS
  <2>3. S[1] = "incident_total" /\ S[2] = "total" /\ S[3] = "severities" /\ S[4] = "statuses"
    OBVIOUS
  <2> HIDE DEF S
  <2>4. Ordered(S, "stats", guest)
    BY <2>2, <2>3 DEF Ordered, Quiet, Counts
  <2> QED BY <1>1, <2>1, <2>2, <2>4
<1>2. CASE kind = "report"
  <2> DEFINE S == <<"report">>
  <2>1. Script(kind, guest) = S
    BY <1>2 DEF Script, ScriptOf
  <2>2. Len(S) = 1 /\ S[1] = "report"
    OBVIOUS
  <2> HIDE DEF S
  <2>3. Ordered(S, "report", guest)
    BY <2>2 DEF Ordered, Quiet, Counts
  <2> QED BY <1>2, <2>1, <2>2, <2>3
<1>3. CASE kind = "simulate"
  <2> DEFINE S == <<"insert", "correlate", "total", "incident_total", "severities", "statuses">>
  <2>1. Script(kind, guest) = S
    BY <1>3 DEF Script, ScriptOf
  <2>2. Len(S) = 6
    OBVIOUS
  <2>3. /\ S[1] = "insert" /\ S[2] = "correlate" /\ S[3] = "total" /\ S[4] = "incident_total"
        /\ S[5] = "severities" /\ S[6] = "statuses"
    OBVIOUS
  <2> HIDE DEF S
  <2>4. Ordered(S, "simulate", guest)
    BY <2>2, <2>3 DEF Ordered, Quiet, Counts
  <2> QED BY <1>3, <2>1, <2>2, <2>4
<1>4. CASE kind = "dashboard" /\ guest
  <2> DEFINE S == <<"list", "incidents", "total", "incident_total", "severities", "statuses">>
  <2>1. Script(kind, guest) = S
    BY <1>4 DEF Script, Dashboard
  <2>2. Len(S) = 6
    OBVIOUS
  <2>3. /\ S[1] = "list" /\ S[2] = "incidents" /\ S[3] = "total" /\ S[4] = "incident_total"
        /\ S[5] = "severities" /\ S[6] = "statuses"
    OBVIOUS
  <2> HIDE DEF S
  <2>4. Ordered(S, "dashboard", guest)
    BY <1>4, <2>2, <2>3 DEF Ordered, Quiet, Counts
  <2>5. Script(kind, guest) = S /\ kind = "dashboard"
    BY <1>4, <2>1
  <2> QED BY <2>2, <2>4, <2>5
<1>5. CASE kind = "dashboard" /\ ~guest
  <2> DEFINE S == <<"count", "fill", "total", "incident_total", "severities", "statuses", "list", "incidents">>
  <2>1. Script(kind, guest) = S
    BY <1>5 DEF Script, Dashboard
  <2>2. Len(S) = 8
    OBVIOUS
  <2>3. /\ S[1] = "count" /\ S[2] = "fill" /\ S[3] = "total" /\ S[4] = "incident_total"
        /\ S[5] = "severities" /\ S[6] = "statuses" /\ S[7] = "list" /\ S[8] = "incidents"
    OBVIOUS
  <2> HIDE DEF S
  <2>4. Ordered(S, "dashboard", guest)
    BY <1>5, <2>2, <2>3 DEF Ordered, Quiet, Counts
  <2>5. Script(kind, guest) = S /\ kind = "dashboard"
    BY <1>5, <2>1
  <2> QED BY <2>2, <2>4, <2>5
<1> QED BY <1>1, <1>2, <1>3, <1>4, <1>5 DEF Compared

\* The figures of the steps that are done.
LEMMA FiguresOfSteps ==
  ASSUME NEW S, NEW n \in Nat, n < Len(S), Len(S) \in Nat
  PROVE  /\ FiguresBy(S, n + 1) = FiguresOf(S[n + 1]) \cup FiguresBy(S, n)
         /\ FiguresBy(S, 0) = {}
         /\ \A x \in Counts, m \in Nat : x \in FiguresBy(S, m) <=> \E k \in 1..m : S[k] = x
         /\ \A m \in Nat : "listed" \in FiguresBy(S, m) <=> \E k \in 1..m : S[k] = "list" \/ S[k] = "report"
<1>1. \A x : \A m \in Nat : x \in FiguresBy(S, m) <=> \E k \in 1..m : x \in FiguresOf(S[k])
  BY DEF FiguresBy
<1>2. FiguresBy(S, n + 1) = FiguresOf(S[n + 1]) \cup FiguresBy(S, n)
  <2>1. 1..(n + 1) = 1..n \cup {n + 1}
    OBVIOUS
  <2> QED BY <1>1, <2>1
<1>3. FiguresBy(S, 0) = {}
  BY <1>1
<1>4. \A step : \A x \in Counts : x \in FiguresOf(step) <=> step = x
  BY DEF FiguresOf, Counts
<1>5. \A step : "listed" \in FiguresOf(step) <=> step = "list" \/ step = "report"
  BY DEF FiguresOf, Counts
<1>6. \A x \in Counts, m \in Nat : x \in FiguresBy(S, m) <=> \E k \in 1..m : S[k] = x
  BY <1>1, <1>4
<1>7. \A m \in Nat : "listed" \in FiguresBy(S, m) <=> \E k \in 1..m : S[k] = "list" \/ S[k] = "report"
  BY <1>1, <1>5
<1> QED BY <1>2, <1>3, <1>6, <1>7

LEMMA SameSteps ==
  ASSUME NEW q, NEW g, g.kind = q.kind, g.user = q.user, g.since = q.since, NEW d, NEW dm, NEW n, NEW f
  PROVE  StepsDone(g, d, dm, n, f) <=> StepsDone(q, d, dm, n, f)
<1>1. (Guestlike(g) <=> Guestlike(q)) /\ (GenuineIn(g, dm) <=> GenuineIn(q, dm))
  BY DEF Guestlike, GenuineIn
<1>2. AlertsIn(d, g, dm) = AlertsIn(d, q, dm) /\ IncidentsIn(d, g, dm) = IncidentsIn(d, q, dm)
  BY <1>1 DEF AlertsIn, IncidentsIn
<1>3. GenuineIn(g, dm) = GenuineIn(q, dm)
  BY <1>1 DEF GenuineIn
<1> QED BY <1>2, <1>3 DEF StepsDone

LEMMA SameAnswer ==
  ASSUME NEW q, NEW g, g.kind = q.kind, g.user = q.user, g.since = q.since, g.figures = q.figures, g.todo = q.todo,
         g.at = q.at, NEW d, NEW dm, AnswerInv(q, d, dm)
  PROVE  AnswerInv(g, d, dm)
<1>1. \A n, f : StepsDone(g, d, dm, n, f) <=> StepsDone(q, d, dm, n, f)
  BY SameSteps
<1> QED BY <1>1 DEF AnswerInv

\* The request is about to do the step after its first n.
Placed(q, n) ==
  LET S == Script(q.kind, IsGuest(q.user)) IN n \in Nat /\ Len(S) \in Nat /\ n < Len(S) /\ S[n + 1] = Head(q.todo)

LEMMA OneMoreStep ==
  ASSUME NEW q, DOMAIN q = DOMAIN Idle, Compared(q.kind), q.todo # <<>>, NEW d, NEW e, NEW dm, AnswerInv(q, d, dm),
         NEW part, NEW told,
         \A n : Placed(q, n) /\ q.since # "changed" /\ StepsDone(q, d, dm, n, q.figures)
                  => StepsDone(q, e, dm, n + 1, Added(part, q.figures))
  PROVE  AnswerInv(Goes(q, part, told), e, dm)
<1> DEFINE S == Script(q.kind, IsGuest(q.user))
           g == Goes(q, part, told)
<1>1. Len(S) \in Nat
  BY ScriptsAreOrdered DEF IsGuest
<1>2. S \in Seq(StepsOf(q.kind))
  <2>1. q.kind \in Views \cup Changes \cup {"logs", "simulate"} /\ IsGuest(q.user) \in BOOLEAN
    BY DEF Compared, Views, IsGuest
  <2> QED BY <2>1, ScriptSteps
<1>3. PICK n \in 0..Len(S) :
        /\ q.todo = SubSeq(S, n + 1, Len(S)) /\ (q.at = "answered" => n = Len(S))
        /\ q.since # "changed" => StepsDone(q, d, dm, n, q.figures)
  BY DEF AnswerInv
<1> HIDE DEF S
<1>4. /\ n < Len(S) /\ Head(q.todo) = S[n + 1] /\ Tail(q.todo) = SubSeq(S, n + 2, Len(S))
      /\ Len(q.todo) = Len(S) - n
  <2>1. n < Len(S)
    BY <1>1, <1>2, <1>3
  <2> QED BY <1>1, <1>2, <1>3, <2>1
<1>5. Placed(q, n)
  BY <1>1, <1>4 DEF Placed, S
<1>6. /\ g.kind = q.kind /\ g.user = q.user /\ g.since = q.since /\ g.todo = Tail(q.todo)
      /\ g.at = IF Len(q.todo) = 1 THEN "answered" ELSE q.at
      /\ g.figures = IF q.since = "changed" THEN <<>> ELSE Added(part, q.figures)
  <2>1. q.kind \in Views \cup {"simulate"}
    BY DEF Compared, Views
  <2> QED BY <2>1 DEF Goes, Figures
<1> HIDE DEF g
<1>7. g.since # "changed" => StepsDone(g, e, dm, n + 1, g.figures)
  <2>1. q.since # "changed" => StepsDone(q, e, dm, n + 1, Added(part, q.figures))
    BY <1>3, <1>5
  <2>2. \A f : StepsDone(g, e, dm, n + 1, f) <=> StepsDone(q, e, dm, n + 1, f)
    BY <1>6, SameSteps
  <2> QED BY <1>6, <2>1, <2>2
<1>8. /\ g.since \in {"calm", "grown", "changed"} /\ (g.since = "changed" => g.figures = <<>>)
  BY <1>6 DEF AnswerInv
<1>9. n + 1 \in 0..Len(S) /\ g.todo = SubSeq(S, (n + 1) + 1, Len(S)) /\ (g.at = "answered" => n + 1 = Len(S))
  BY <1>1, <1>3, <1>4, <1>6
<1>10. S = Script(g.kind, IsGuest(g.user))
  BY <1>6 DEF S
<1>11. AnswerInv(g, e, dm)
  BY <1>7, <1>8, <1>9, <1>10, Zenon DEF AnswerInv
<1> QED BY <1>11 DEF g

\* What is known at each query: which figures are there already.
LEMMA AtPlace ==
  ASSUME NEW q, Compared(q.kind), NEW n, Placed(q, n), NEW d, NEW dm, StepsDone(q, d, dm, n, q.figures)
  PROVE  LET step == Head(q.todo)  D == DOMAIN q.figures  guest == IsGuest(q.user) IN
         /\ step \in Quiet \cup Counts \cup {"list", "report"}
         /\ FiguresBy(Script(q.kind, guest), n + 1) = FiguresOf(step) \cup D
         /\ step = "list" => q.kind = "dashboard" /\ (guest => "total" \notin D)
         /\ step = "report" <=> q.kind = "report"
         /\ step \in Quiet \cup {"report"} => D = {}
         /\ step = "total" => "severities" \notin D /\ (q.kind = "dashboard" /\ ~guest => "listed" \notin D)
         /\ step = "severities" /\ q.kind = "stats" => "statuses" \notin D
         /\ step = "incident_total" /\ q.kind = "stats" => "total" \notin D
<1> DEFINE S == Script(q.kind, IsGuest(q.user))
           guest == IsGuest(q.user)
           D == DOMAIN q.figures
<1>1. n \in Nat /\ Len(S) \in Nat /\ n < Len(S) /\ S[n + 1] = Head(q.todo)
  BY DEF Placed
<1>2. guest \in BOOLEAN
  BY DEF IsGuest
<1>3. Ordered(S, q.kind, guest)
  BY <1>2, ScriptsAreOrdered
<1>4. D = FiguresBy(S, n)
  BY DEF StepsDone
<1> HIDE DEF S, guest, D
<1>5. n + 1 \in 1..Len(S) /\ 1..((n + 1) - 1) = 1..n
  BY <1>1
<1>6. /\ S[n + 1] \in Quiet \cup Counts \cup {"list", "report"}
      /\ S[n + 1] = "list" => q.kind = "dashboard"
      /\ S[n + 1] = "report" <=> q.kind = "report"
      /\ q.kind = "report" => n + 1 = 1
      /\ \A m \in 1..n :
           /\ S[n + 1] \in Quiet => S[m] \in Quiet
           /\ S[n + 1] = "total" => S[m] # "severities" /\ (q.kind = "dashboard" /\ ~guest => S[m] # "list")
           /\ S[n + 1] = "severities" /\ q.kind = "stats" => S[m] # "statuses"
           /\ S[n + 1] = "incident_total" /\ q.kind = "stats" => S[m] # "total"
           /\ S[n + 1] = "list" /\ guest => S[m] # "total"
  BY <1>3, <1>5 DEF Ordered
<1>7. /\ FiguresBy(S, n + 1) = FiguresOf(S[n + 1]) \cup D
      /\ \A x \in Counts : x \in D <=> \E k \in 1..n : S[k] = x
      /\ "listed" \in D <=> \E k \in 1..n : S[k] = "list" \/ S[k] = "report"
  BY <1>1, <1>4, FiguresOfSteps
<1>8. q.kind = "dashboard" => \A m \in 1..n : S[m] # "report"
  <2>1. \A m \in 1..Len(S) : S[m] = "report" <=> q.kind = "report"
    BY <1>3 DEF Ordered
  <2> QED BY <1>1, <2>1
<1>9. S[n + 1] \in Quiet \cup {"report"} => D = {}
  <2>1. S[n + 1] = "report" => n = 0
    BY <1>1, <1>6
  <2>2. n = 0 => D = {}
    BY <1>1, <1>4, FiguresOfSteps
  <2>3. \A step \in Quiet : FiguresOf(step) = {}
    BY DEF FiguresOf, Quiet, Counts
  <2>4. S[n + 1] \in Quiet => D = {}
    BY <1>4, <1>6, <2>3 DEF FiguresBy
  <2> QED BY <2>1, <2>2, <2>4
<1>10. /\ S[n + 1] = "list" => q.kind = "dashboard" /\ (guest => "total" \notin D)
       /\ S[n + 1] = "total" => "severities" \notin D /\ (q.kind = "dashboard" /\ ~guest => "listed" \notin D)
       /\ S[n + 1] = "severities" /\ q.kind = "stats" => "statuses" \notin D
       /\ S[n + 1] = "incident_total" /\ q.kind = "stats" => "total" \notin D
  <2>1. {"total", "severities", "statuses"} \subseteq Counts
    BY DEF Counts
  <2> QED BY <1>6, <1>7, <1>8, <2>1
<1> QED BY <1>1, <1>6, <1>7, <1>9, <1>10 DEF S, guest, D

\* A query that adds a figure, when the figure is right.
LEMMA FigureStep ==
  ASSUME NEW q, DOMAIN q = DOMAIN Idle, Compared(q.kind), q.todo # <<>>, NEW d, NEW dm, AnswerInv(q, d, dm),
         NEW part, DOMAIN part = FiguresOf(Head(q.todo)), NEW told,
         \A n : Placed(q, n) /\ StepsDone(q, d, dm, n, q.figures) =>
                  FiguresHold(q.kind, IsGuest(q.user), GenuineIn(q, dm), Added(part, q.figures), q.since = "calm",
                              Cardinality(AlertsIn(d, q, dm)), Cardinality(IncidentsIn(d, q, dm)))
  PROVE  AnswerInv(Goes(q, part, told), d, dm)
<1> SUFFICES ASSUME NEW n, Placed(q, n), StepsDone(q, d, dm, n, q.figures)
             PROVE  StepsDone(q, d, dm, n + 1, Added(part, q.figures))
  BY OneMoreStep
<1>1. DOMAIN Added(part, q.figures) = DOMAIN part \cup DOMAIN q.figures
  BY FieldsOfAdded
<1>2. FiguresBy(Script(q.kind, IsGuest(q.user)), n + 1) = FiguresOf(Head(q.todo)) \cup DOMAIN q.figures
  BY AtPlace
<1> QED BY <1>1, <1>2 DEF StepsDone

\* A step that only writes, before any figure, or reads for a later one.
LEMMA QuietStep ==
  ASSUME NEW q, DOMAIN q = DOMAIN Idle, Compared(q.kind), q.todo # <<>>, NEW d, NEW e, NEW dm, AnswerInv(q, d, dm),
         Head(q.todo) \in Quiet, NEW told
  PROVE  AnswerInv(Goes(q, <<>>, told), e, dm)
<1> SUFFICES ASSUME NEW n, Placed(q, n), StepsDone(q, d, dm, n, q.figures)
             PROVE  StepsDone(q, e, dm, n + 1, Added(<<>>, q.figures))
  BY OneMoreStep
<1>1. FiguresOf(Head(q.todo)) = {}
  BY DEF FiguresOf, Quiet, Counts
<1>2. FiguresBy(Script(q.kind, IsGuest(q.user)), n + 1) = {} /\ DOMAIN q.figures = {}
  BY <1>1, AtPlace
<1>3. DOMAIN Added(<<>>, q.figures) = {}
  <2>1. DOMAIN Added(<<>>, q.figures) = DOMAIN <<>> \cup DOMAIN q.figures
    BY FieldsOfAdded
  <2>2. DOMAIN <<>> = {}
    OBVIOUS
  <2> QED BY <1>2, <2>1, <2>2
<1> QED BY <1>2, <1>3, NothingHolds DEF StepsDone

\* The steps of the requests whose answers have more than one figure.
LEMMA ComparedSteps ==
  ASSUME NEW q, Compared(q.kind), q.todo # <<>>, NEW d, NEW dm, AnswerInv(q, d, dm)
  PROVE  Head(q.todo) \in Quiet \cup Counts \cup {"list", "report"}
<1> DEFINE S == Script(q.kind, IsGuest(q.user))
<1>1. Len(S) \in Nat /\ Ordered(S, q.kind, IsGuest(q.user))
  BY ScriptsAreOrdered DEF IsGuest
<1>2. S \in Seq(StepsOf(q.kind))
  <2>1. q.kind \in Views \cup Changes \cup {"logs", "simulate"} /\ IsGuest(q.user) \in BOOLEAN
    BY DEF Compared, Views, IsGuest
  <2> QED BY <2>1, ScriptSteps
<1>3. PICK n \in 0..Len(S) : q.todo = SubSeq(S, n + 1, Len(S))
  BY DEF AnswerInv
<1> HIDE DEF S
<1>4. n + 1 \in 1..Len(S) /\ Head(q.todo) = S[n + 1]
  BY <1>1, <1>2, <1>3
<1> QED BY <1>1, <1>4 DEF Ordered

LEMMA OthersAnswer ==
  ASSUME NEW q, NEW d, NEW dm, ~Compared(q.kind)
  PROVE  AnswerInv(q, d, dm)
BY DEF AnswerInv

LEMMA IdleAnswer == \A d, dm : AnswerInv(Idle, d, dm)
<1>1. ~Compared(Idle.kind)
  BY DEF Idle, Asked, Compared
<1> QED BY <1>1, OthersAnswer

LEMMA KindStays ==
  ASSUME NEW q, NEW part, NEW told
  PROVE  Goes(q, part, told) = Idle \/ Goes(q, part, told).kind = q.kind
BY DEF Goes

LEMMA OthersGoOn ==
  ASSUME NEW q, ~Compared(q.kind), NEW d, NEW dm, NEW part, NEW told
  PROVE  AnswerInv(Goes(q, part, told), d, dm) /\ ~Compared(Goes(q, part, told).kind)
<1>1. ~Compared(Idle.kind)
  BY DEF Idle, Asked, Compared
<1>2. ~Compared(Goes(q, part, told).kind)
  BY <1>1, KindStays
<1> QED BY <1>2, OthersAnswer

LEMMA BecomesAnswer ==
  ASSUME AInv, NEW r \in Requests, NEW g, AnswerInv(g, db, demo), Becomes(r, g)
  PROVE  AInv'
<1>1. db' = db /\ demo' = demo /\ req' = [req EXCEPT ![r] = g]
  BY DEF Becomes
<1>2. KnownRows(db')
  BY <1>1 DEF AInv
<1>3. ASSUME NEW p \in Requests PROVE AnswerInv(req'[p], db', demo')
  BY <1>1 DEF AInv
<1> QED BY <1>2, <1>3 DEF AInv

\* A request arrives without figures, and has done nothing of its script.
LEMMA AskedAnswer ==
  ASSUME NEW kind, NEW cred, NEW user, NEW d, NEW dm
  PROVE  AnswerInv(Asked(kind, cred, user, "work", Script(kind, IsGuest(user))), d, dm)
<1> DEFINE S == Script(kind, IsGuest(user))
           g == Asked(kind, cred, user, "work", S)
<1>1. /\ g.kind = kind /\ g.user = user /\ g.at = "work" /\ g.todo = S /\ g.figures = <<>> /\ g.since = "calm"
  BY DEF Asked
<1> HIDE DEF g
<1> SUFFICES ASSUME Compared(kind) PROVE AnswerInv(g, d, dm)
  BY <1>1, OthersAnswer DEF g
<1>2. Len(S) \in Nat
  BY ScriptsAreOrdered DEF IsGuest
<1>3. S \in Seq(StepsOf(kind))
  <2>1. kind \in Views \cup Changes \cup {"logs", "simulate"} /\ IsGuest(user) \in BOOLEAN
    BY DEF Compared, Views, IsGuest
  <2> QED BY <2>1, ScriptSteps
<1>4. S = SubSeq(S, 0 + 1, Len(S))
  BY <1>2, <1>3
<1>5. DOMAIN g.figures = {} /\ FiguresBy(S, 0) = {}
  <2>1. FiguresBy(S, 0) = {}
    BY DEF FiguresBy
  <2> QED BY <1>1, <2>1
<1>6. StepsDone(g, d, dm, 0, g.figures)
  BY <1>1, <1>5, NothingHolds DEF StepsDone
<1>7. 0 \in 0..Len(S) /\ "work" # "answered" /\ "calm" # "changed"
  BY <1>2
<1> QED BY <1>1, <1>4, <1>6, <1>7 DEF AnswerInv

LEMMA ArriveAnswer ==
  ASSUME AInv, NEW r \in Requests, NEW kind, NEW cred, Arrive(r, kind, cred)
  PROVE  AInv'
<1> DEFINE user == CurrentUser(cred, authEnabled, live, RoleOf)
           viewed == Asked(kind, cred, user, "work", Script(kind, IsGuest(user)))
           checked == Asked(kind, cred, user, "check", <<>>)
<1>1. Becomes(r, IF kind \in Views THEN viewed ELSE checked) /\ kind # "simulate"
  BY DEF Arrive
<1>2. AnswerInv(viewed, db, demo)
  BY AskedAnswer
<1>3. kind \notin Views => AnswerInv(checked, db, demo)
  <2>1. checked.kind = kind
    BY DEF Asked
  <2>2. kind \notin Views => ~Compared(kind)
    BY <1>1 DEF Compared, Views
  <2> QED BY <2>1, <2>2, OthersAnswer
<1> HIDE DEF viewed, checked
<1> QED BY <1>1, <1>2, <1>3, BecomesAnswer

LEMMA TickAnswer == ASSUME AInv, NEW r \in Requests, Tick(r) PROVE AInv'
<1>1. Script("simulate", TRUE) = Script("simulate", IsGuest(Nobody))
  BY DEF Script
<1> DEFINE g == Asked("simulate", <<>>, Nobody, "work", Script("simulate", IsGuest(Nobody)))
<1>2. Becomes(r, g)
  BY <1>1 DEF Tick
<1>3. AnswerInv(g, db, demo)
  BY AskedAnswer
<1> HIDE DEF g
<1> QED BY <1>2, <1>3, BecomesAnswer

LEMMA AuthoriseAnswer == ASSUME IInv, AInv, NEW r \in Requests, Authorise(r) PROVE AInv'
<1> DEFINE q == req[r]
           g == Asked(q.kind, q.cred, q.user, "work", Script(q.kind, FALSE))
<1>1. ~Compared(q.kind)
  BY DEF Authorise, IInv, RequestInv, Compared, Changes
<1>2. g.kind = q.kind
  BY DEF Asked
<1>3. AnswerInv(g, db, demo) /\ AnswerInv(Idle, db, demo)
  BY <1>1, <1>2, OthersAnswer, IdleAnswer
<1>4. Becomes(r, g) \/ Becomes(r, Idle)
  BY DEF Authorise
<1> HIDE DEF g
<1> QED BY <1>3, <1>4, BecomesAnswer

\* A request at one of its steps.
LEMMA Working ==
  ASSUME IInv, AInv, NEW r \in Requests, NEW step, At(r, step)
  PROVE  LET q == req[r] IN
         /\ DOMAIN q = DOMAIN Idle /\ q.todo # <<>> /\ Head(q.todo) = step /\ AnswerInv(q, db, demo)
         /\ Compared(q.kind) => step \in Quiet \cup Counts \cup {"list", "report"}
<1>1. DOMAIN req[r] = DOMAIN Idle /\ req[r].todo # <<>> /\ Head(req[r].todo) = step /\ AnswerInv(req[r], db, demo)
  BY DEF IInv, RequestInv, AInv, At
<1> QED BY <1>1, ComparedSteps

LEMMA FigureAnswer ==
  ASSUME IInv, AInv, NEW r \in Requests, NEW step, At(r, step), NEW part, DOMAIN part = FiguresOf(step), NEW A,
         Reply(r, part, A),
         LET q == req[r] IN
         \A n : Compared(q.kind) /\ Placed(q, n) /\ StepsDone(q, db, demo, n, q.figures) =>
                  FiguresHold(q.kind, IsGuest(q.user), GenuineIn(q, demo), Added(part, q.figures), q.since = "calm",
                              Cardinality(AlertsFor(q)), Cardinality(IncidentsFor(q)))
  PROVE  AInv'
<1> DEFINE q == req[r]
<1>1. DOMAIN q = DOMAIN Idle /\ q.todo # <<>> /\ Head(q.todo) = step /\ AnswerInv(q, db, demo)
  BY Working
<1>2. AlertsFor(q) = AlertsIn(db, q, demo) /\ IncidentsFor(q) = IncidentsIn(db, q, demo)
  BY WhatIsRead
<1>3. Compared(q.kind) => AnswerInv(Goes(q, part, Makers(A)), db, demo)
  <2> SUFFICES ASSUME Compared(q.kind) PROVE AnswerInv(Goes(q, part, Makers(A)), db, demo)
    OBVIOUS
  <2>1. \A n : Placed(q, n) /\ StepsDone(q, db, demo, n, q.figures) =>
          FiguresHold(q.kind, IsGuest(q.user), GenuineIn(q, demo), Added(part, q.figures), q.since = "calm",
                      Cardinality(AlertsIn(db, q, demo)), Cardinality(IncidentsIn(db, q, demo)))
    BY <1>2
  <2> HIDE DEF q
  <2> QED BY <1>1, <2>1, FigureStep
<1>4. ~Compared(q.kind) => AnswerInv(Goes(q, part, Makers(A)), db, demo)
  BY <1>1, OthersGoOn
<1>5. Becomes(r, Goes(q, part, Makers(A)))
  BY DEF Reply
<1> HIDE DEF q
<1> QED BY <1>3, <1>4, <1>5, BecomesAnswer

LEMMA QuietAnswer ==
  ASSUME IInv, AInv, NEW r \in Requests, NEW step \in Quiet, At(r, step), NEW g,
         g \in {req[r], Knowing(req[r], Stored)}, Becomes(r, Goes(g, <<>>, {}))
  PROVE  AInv'
<1>1. DOMAIN req[r] = DOMAIN Idle /\ req[r].todo # <<>> /\ Head(req[r].todo) = step /\ AnswerInv(req[r], db, demo)
  BY Working
<1>2. DOMAIN req[r] = {"kind", "on", "cred", "user", "at", "todo", "read", "told", "figures", "since"}
  BY <1>1 DEF Idle, Asked
<1>3. /\ DOMAIN g = DOMAIN req[r] /\ g.kind = req[r].kind /\ g.user = req[r].user /\ g.at = req[r].at
      /\ g.todo = req[r].todo /\ g.figures = req[r].figures /\ g.since = req[r].since
  BY <1>2 DEF Knowing
<1>4. AnswerInv(g, db, demo)
  BY <1>1, <1>3, SameAnswer
<1>5. AnswerInv(Goes(g, <<>>, {}), db, demo)
  <2>1. CASE Compared(g.kind)
    BY <1>1, <1>3, <1>4, <2>1, QuietStep
  <2>2. CASE ~Compared(g.kind)
    BY <1>1, <1>3, <2>2, OthersGoOn
  <2> QED BY <2>1, <2>2
<1> QED BY <1>5, BecomesAnswer

\* The steps of other requests.
LEMMA OtherAnswer ==
  ASSUME IInv, AInv, NEW r \in Requests, NEW step, At(r, step), step \notin Quiet \cup Counts \cup {"list", "report"},
         NEW g, g.kind \in {req[r].kind, "none"}, Becomes(r, g)
  PROVE  AInv'
<1>1. ~Compared(req[r].kind) /\ ~Compared("none")
  BY Working DEF Compared
<1> QED BY <1>1, OthersAnswer, BecomesAnswer

LEMMA AlertsAreStored == \A q : AlertsFor(q) \subseteq Stored
BY DEF AlertsFor, GuestsAlerts

\* How many alerts there are, and how many of each severity and status.
LEMMA CountingAnswer ==
  ASSUME IInv, AInv, NEW r \in Requests, CountAlerts(r) \/ CountSeverities(r) \/ CountStatuses(r)
  PROVE  AInv'
<1> DEFINE q == req[r]
           A == AlertsFor(q)
           guest == IsGuest(q.user)
           genuine == GenuineIn(q, demo)
           i == Cardinality(IncidentsFor(q))
           calm == q.since = "calm"
<1>1. KnownRows(db) /\ A \in SUBSET Stored
  BY AlertsAreStored DEF AInv
<1>2. /\ Cardinality(A) \in Nat
      /\ Total(CountBy(A, "severity", DOMAIN SEVERITY_ORDER)) = Cardinality(A)
      /\ Total(CountBy(A, "status", Statuses)) = Cardinality(A)
      /\ Total(CountBy(A, "status", Statuses \ {"FALSE_POSITIVE"})) \in Nat
      /\ Total(CountBy(A, "status", Statuses \ {"FALSE_POSITIVE"})) <= Cardinality(A)
  BY <1>1, CountsOfRows
<1>3. ASSUME NEW n, Compared(q.kind), Placed(q, n), StepsDone(q, db, demo, n, q.figures)
      PROVE  FiguresHold(q.kind, guest, genuine, q.figures, calm, Cardinality(A), i)
  BY <1>3, WhatIsRead DEF StepsDone
<1>4. CASE CountAlerts(r)
  <2> DEFINE part == [total |-> Cardinality(A)]
  <2>1. At(r, "total") /\ Reply(r, part, A)
    BY <1>4 DEF CountAlerts
  <2>2. DOMAIN part = FiguresOf("total")
    BY DEF FiguresOf, Counts
  <2>3. ASSUME NEW n, Compared(q.kind), Placed(q, n), StepsDone(q, db, demo, n, q.figures)
        PROVE  FiguresHold(q.kind, guest, genuine, Added(part, q.figures), calm, Cardinality(A), i)
    <3>1. Head(q.todo) = "total"
      BY <2>1 DEF At
    <3>2. /\ q.kind # "report" /\ "severities" \notin DOMAIN q.figures
          /\ q.kind = "dashboard" /\ ~guest => "listed" \notin DOMAIN q.figures
      BY <2>3, <3>1, AtPlace
    <3> HIDE DEF q, A, guest, genuine, i, calm
    <3> QED BY <1>2, <1>3, <2>3, <3>2, TotalHolds
  <2> HIDE DEF part
  <2> QED BY <2>1, <2>2, <2>3, FigureAnswer
<1>5. CASE CountSeverities(r)
  <2> DEFINE counts == CountBy(A, "severity", DOMAIN SEVERITY_ORDER)
             part == [severities |-> counts]
  <2>1. At(r, "severities") /\ Reply(r, part, A)
    BY <1>5 DEF CountSeverities
  <2>2. DOMAIN part = FiguresOf("severities")
    BY DEF FiguresOf, Counts
  <2>3. ASSUME NEW n, Compared(q.kind), Placed(q, n), StepsDone(q, db, demo, n, q.figures)
        PROVE  FiguresHold(q.kind, guest, genuine, Added(part, q.figures), calm, Cardinality(A), i)
    <3>1. Head(q.todo) = "severities"
      BY <2>1 DEF At
    <3>2. q.kind # "report" /\ (q.kind = "stats" => "statuses" \notin DOMAIN q.figures)
      BY <2>3, <3>1, AtPlace
    <3>3. Total(counts) = Cardinality(A)
      BY <1>2
    <3> HIDE DEF q, A, guest, genuine, i, calm, counts
    <3> QED BY <1>2, <1>3, <2>3, <3>2, <3>3, SeveritiesHold
  <2> HIDE DEF part
  <2> QED BY <2>1, <2>2, <2>3, FigureAnswer
<1>6. CASE CountStatuses(r)
  <2> DEFINE shown == IF q.kind = "stats" THEN Statuses ELSE Statuses \ {"FALSE_POSITIVE"}
             counts == CountBy(A, "status", shown)
             part == [statuses |-> counts]
  <2>1. At(r, "statuses") /\ Reply(r, part, A)
    BY <1>6 DEF CountStatuses
  <2>2. DOMAIN part = FiguresOf("statuses")
    BY DEF FiguresOf, Counts
  <2>3. ASSUME NEW n, Compared(q.kind), Placed(q, n), StepsDone(q, db, demo, n, q.figures)
        PROVE  FiguresHold(q.kind, guest, genuine, Added(part, q.figures), calm, Cardinality(A), i)
    <3>1. Head(q.todo) = "statuses"
      BY <2>1 DEF At
    <3>2. q.kind # "report"
      BY <2>3, <3>1, AtPlace
    <3>3. /\ Total(counts) \in Nat /\ Total(counts) <= Cardinality(A)
          /\ q.kind = "stats" => Total(counts) = Cardinality(A)
      <4> HIDE DEF A
      <4>1. CASE q.kind = "stats"
        BY <1>2, <4>1
      <4>2. CASE q.kind # "stats"
        BY <1>2, <4>2
      <4> QED BY <4>1, <4>2
    <3> HIDE DEF q, A, guest, genuine, i, calm, counts
    <3> QED BY <1>2, <1>3, <2>3, <3>2, <3>3, StatusesHold
  <2> HIDE DEF part
  <2> QED BY <2>1, <2>2, <2>3, FigureAnswer
<1> QED BY <1>4, <1>5, <1>6

\* Outside of a demonstration an incident that is shown has an alert that is shown.
LEMMA IncidentsShownHaveAlerts ==
  ASSUME RowsInv(db), KnownRows(db), NEW q, GenuineIn(q, demo), Cardinality(IncidentsFor(q)) > 0
  PROVE  Cardinality(AlertsFor(q)) > 0
<1>1. Genuine(q) /\ ~Guestlike(q)
  BY DEF GenuineIn, Genuine
<1>2. /\ IncidentsFor(q) = {i \in Open : \E a \in db.members[i] : ~IsDemo(a)}
      /\ AlertsFor(q) = Stored \ GuestsAlerts
  BY <1>1 DEF IncidentsFor, AlertsFor
<1>3. IncidentsFor(q) # {}
  BY FS_EmptySet
<1>4. AlertsFor(q) # {}
  BY <1>2, <1>3 DEF RowsInv, Open, Stored, GuestsAlerts
<1>5. IsFiniteSet(AlertsFor(q)) /\ Cardinality(AlertsFor(q)) \in Nat
  BY AlertsAreStored, CountsOfRows
<1>6. Cardinality(AlertsFor(q)) # 0
  BY <1>4, <1>5, FS_EmptySet
<1> QED BY <1>5, <1>6

\* The lists, and how many incidents there are.
LEMMA ListingAnswer ==
  ASSUME IInv, AInv, NEW r \in Requests, CountIncidents(r) \/ ListAlerts(r) \/ ListIncidents(r) \/ Report(r)
  PROVE  AInv'
<1> DEFINE q == req[r]
           A == AlertsFor(q)
           guest == IsGuest(q.user)
           genuine == GenuineIn(q, demo)
           i == Cardinality(IncidentsFor(q))
           calm == q.since = "calm"
<1>1. KnownRows(db) /\ A \in SUBSET Stored /\ RowsInv(db)
  BY AlertsAreStored DEF AInv, IInv
<1>2. Cardinality(A) \in Nat
  BY <1>1, CountsOfRows
<1>3. ASSUME NEW n, Compared(q.kind), Placed(q, n), StepsDone(q, db, demo, n, q.figures)
      PROVE  FiguresHold(q.kind, guest, genuine, q.figures, calm, Cardinality(A), i)
  BY <1>3, WhatIsRead DEF StepsDone
<1>4. CASE CountIncidents(r)
  <2> DEFINE part == [incident_total |-> i]
  <2>1. At(r, "incident_total") /\ Reply(r, part, {})
    BY <1>4 DEF CountIncidents
  <2>2. DOMAIN part = FiguresOf("incident_total")
    BY DEF FiguresOf, Counts
  <2>3. ASSUME NEW n, Compared(q.kind), Placed(q, n), StepsDone(q, db, demo, n, q.figures)
        PROVE  FiguresHold(q.kind, guest, genuine, Added(part, q.figures), calm, Cardinality(A), i)
    <3>1. Head(q.todo) = "incident_total"
      BY <2>1 DEF At
    <3>2. q.kind # "report" /\ (q.kind = "stats" => "total" \notin DOMAIN q.figures)
      BY <2>3, <3>1, AtPlace
    <3>3. genuine => q.kind = "stats"
      BY DEF GenuineIn
    <3>4. genuine /\ i > 0 => Cardinality(A) > 0
      BY <1>1, IncidentsShownHaveAlerts
    <3> HIDE DEF q, A, guest, genuine, i, calm
    <3> QED BY <1>2, <1>3, <2>3, <3>2, <3>3, <3>4, IncidentTotalHolds
  <2> HIDE DEF part
  <2> QED BY <2>1, <2>2, <2>3, FigureAnswer
<1>5. CASE ListAlerts(r)
  <2> DEFINE part == [listed |-> Min({PageSize, Cardinality(A)})]
  <2>1. PICK P : At(r, "list") /\ Reply(r, part, P)
    <3>1. PICK P \in Page(A) : At(r, "list") /\ Reply(r, [listed |-> Cardinality(P)], P)
      BY <1>5 DEF ListAlerts
    <3>2. Cardinality(P) = Min({PageSize, Cardinality(A)})
      BY DEF Page
    <3> QED BY <3>1, <3>2
  <2>2. DOMAIN part = FiguresOf("list")
    BY DEF FiguresOf, Counts
  <2>3. ASSUME NEW n, Compared(q.kind), Placed(q, n), StepsDone(q, db, demo, n, q.figures)
        PROVE  FiguresHold(q.kind, guest, genuine, Added(part, q.figures), calm, Cardinality(A), i)
    <3>1. Head(q.todo) = "list"
      BY <2>1 DEF At
    <3>2. q.kind # "report" /\ (guest => "total" \notin DOMAIN q.figures)
      BY <2>3, <3>1, AtPlace
    <3> HIDE DEF q, A, guest, genuine, i, calm
    <3> QED BY <1>2, <1>3, <2>3, <3>2, ListedHolds
  <2> HIDE DEF part
  <2> QED BY <2>1, <2>2, <2>3, FigureAnswer
<1>6. CASE ListIncidents(r)
  <2> DEFINE part == [incidents |-> Min({PageSize, i})]
  <2>1. At(r, "incidents") /\ Reply(r, part, {})
    <3>1. PICK P \in Page(IncidentsFor(q)) : At(r, "incidents") /\ Reply(r, [incidents |-> Cardinality(P)], {})
      BY <1>6 DEF ListIncidents
    <3>2. Cardinality(P) = Min({PageSize, i})
      BY DEF Page
    <3> QED BY <3>1, <3>2
  <2>2. DOMAIN part = FiguresOf("incidents")
    BY DEF FiguresOf, Counts
  <2>3. ASSUME NEW n, Compared(q.kind), Placed(q, n), StepsDone(q, db, demo, n, q.figures)
        PROVE  FiguresHold(q.kind, guest, genuine, Added(part, q.figures), calm, Cardinality(A), i)
    <3>1. Head(q.todo) = "incidents"
      BY <2>1 DEF At
    <3>2. q.kind # "report"
      BY <2>3, <3>1, AtPlace
    <3> HIDE DEF q, A, guest, genuine, i, calm
    <3> QED BY <1>2, <1>3, <2>3, <3>2, IncidentsHold
  <2> HIDE DEF part
  <2> QED BY <2>1, <2>2, <2>3, FigureAnswer
<1>7. CASE Report(r)
  <2>1. PICK wanted :
          LET W == {a \in A : db.alerts[a].origin \in wanted}
          IN /\ At(r, "report")
             /\ Reply(r, [listed |-> Cardinality(W), summary |-> Summary([a \in W |-> db.alerts[a]])], W)
    BY <1>7 DEF Report
  <2> DEFINE W == {a \in A : db.alerts[a].origin \in wanted}
             part == [listed |-> Cardinality(W), summary |-> Summary([a \in W |-> db.alerts[a]])]
  <2>2. At(r, "report") /\ Reply(r, part, W)
    BY <2>1
  <2>3. DOMAIN part = FiguresOf("report")
    BY DEF FiguresOf, Counts
  <2>4. W \in SUBSET Stored
    BY <1>1
  <2> HIDE DEF W
  <2>5. ASSUME NEW n, Compared(q.kind), Placed(q, n), StepsDone(q, db, demo, n, q.figures)
        PROVE  FiguresHold(q.kind, guest, genuine, Added(part, q.figures), calm, Cardinality(A), i)
    <3>1. Head(q.todo) = "report"
      BY <2>2 DEF At
    <3>2. q.kind = "report" /\ DOMAIN q.figures = {}
      BY <2>5, <3>1, AtPlace
    <3> HIDE DEF q, A, guest, genuine, i, calm
    <3>3. FiguresHold("report", guest, genuine, Added(part, q.figures), calm, Cardinality(A), i)
      BY <1>1, <2>4, <3>2, ReportHolds
    <3> QED BY <3>2, <3>3
  <2> HIDE DEF part
  <2> QED BY <2>2, <2>3, <2>5, FigureAnswer
<1> QED BY <1>4, <1>5, <1>6, <1>7

LEMMA KindOfGoes ==
  ASSUME NEW q, DOMAIN q = DOMAIN Idle, NEW v, NEW g \in {q, Named(q, v), Knowing(q, v)}, NEW part, NEW told
  PROVE  Goes(g, part, told).kind \in {q.kind, "none"}
<1>1. g.kind = q.kind
  <2>1. "kind" \in DOMAIN q
    BY DEF Idle, Asked
  <2> QED BY <2>1 DEF Named, Knowing
<1>2. Idle.kind = "none"
  BY DEF Idle, Asked
<1>3. Goes(g, part, told) = Idle \/ Goes(g, part, told).kind = g.kind
  BY KindStays
<1> QED BY <1>1, <1>2, <1>3

\* The other queries, and the steps of a socket.
LEMMA OtherQueriesAnswer ==
  ASSUME IInv, AInv, NEW r \in Requests,
         \/ CountAll(r) \/ TellOfHost(r) \/ ReadLogs(r) \/ FindAlert(r) \/ FindIncident(r) \/ Members(r)
         \/ GiveTicket(r) \/ Connect(r) \/ HearAlert(r) \/ HearHeartbeat(r) \/ Disconnect(r)
  PROVE  AInv'
<1> DEFINE q == req[r]
           others == {"host", "logs", "find_alert", "find_incident", "members", "ticket", "connect", "feed"}
<1>1. others \cap (Quiet \cup Counts \cup {"list", "report"}) = {}
  BY DEF Quiet, Counts
<1>2. ASSUME NEW step \in others, At(r, step), NEW g, g.kind \in {q.kind, "none"}, Becomes(r, g) PROVE AInv'
  BY <1>1, <1>2, OtherAnswer
<1>3. DOMAIN q = DOMAIN Idle
  BY DEF IInv, RequestInv
<1>4. ASSUME NEW step \in others, At(r, step), Fail(r) PROVE AInv'
  BY <1>4, IdleAnswer, BecomesAnswer DEF Fail
<1>5. ASSUME NEW step \in others, At(r, step), NEW v, NEW g \in {q, Named(q, v), Knowing(q, v)}, NEW part, NEW told,
             Becomes(r, Goes(g, part, told))
      PROVE  AInv'
  BY <1>2, <1>3, <1>5, KindOfGoes
<1>6. CASE CountAll(r)
  <2>1. "count" \in Quiet /\ At(r, "count") /\ Becomes(r, Goes(Knowing(req[r], Stored), <<>>, {}))
    BY <1>6 DEF CountAll, Keep, Quiet
  <2> QED BY <2>1, QuietAnswer
<1>7. CASE TellOfHost(r)
  BY <1>5, <1>7 DEF TellOfHost
<1>8. CASE ReadLogs(r)
  BY <1>5, <1>8 DEF ReadLogs, Skip, Reply
<1>9. CASE FindAlert(r)
  <2>1. At(r, "find_alert") /\ (Fail(r) \/ \E a : Becomes(r, Goes(Named(q, a), <<>>, Makers({a}))))
    BY <1>9 DEF FindAlert
  <2> QED BY <1>4, <1>5, <2>1
<1>10. CASE FindIncident(r)
  <2>1. At(r, "find_incident") /\ (Fail(r) \/ \E i : Becomes(r, Goes(Named(q, i), <<>>, {})))
    BY <1>10 DEF FindIncident
  <2> QED BY <1>4, <1>5, <2>1
<1>11. CASE Members(r)
  <2>1. /\ At(r, "members")
        /\ \/ Fail(r)
           \/ Becomes(r, Goes(q, <<>>, Makers(MembersOf(r))))
           \/ Becomes(r, Goes(Knowing(q, MembersOf(r)), <<>>, {}))
    BY <1>11 DEF Members, Reply, Keep
  <2> QED BY <1>4, <1>5, <2>1
<1>12. CASE GiveTicket(r)
  BY <1>5, <1>12 DEF GiveTicket
<1>13. CASE Connect(r)
  <2>1. At(r, "connect") /\ (Fail(r) \/ \E user : Becomes(r, As(Goes(q, <<>>, {}), user)))
    BY <1>13 DEF Connect
  <2>2. ASSUME NEW user PROVE As(Goes(q, <<>>, {}), user).kind \in {q.kind, "none"}
    <3> DEFINE g == Goes(q, <<>>, {})
    <3>1. g.kind \in {q.kind, "none"}
      BY <1>3, KindOfGoes
    <3> HIDE DEF g
    <3>2. As(g, user).kind = g.kind
      BY DEF As
    <3> QED BY <3>1, <3>2 DEF g
  <2> QED BY <1>2, <1>4, <2>1, <2>2
<1>14. ASSUME NEW by, Hears(r, by) PROVE AInv'
  <2>1. \A told : Telling(q, told).kind = q.kind
    BY DEF Telling
  <2> QED BY <1>2, <1>14, <2>1 DEF Hears
<1>15. CASE HearAlert(r) \/ HearHeartbeat(r)
  BY <1>14, <1>15 DEF HearAlert, HearHeartbeat
<1>16. CASE Disconnect(r)
  BY <1>4, <1>16 DEF Disconnect
<1> QED BY <1>6, <1>7, <1>8, <1>9, <1>10, <1>11, <1>12, <1>13, <1>15, <1>16

\* What was read before rows were added was read of fewer rows.
LEMMA GrowsAlerts ==
  ASSUME NEW d, NEW e, Grows(d, e), KnownRows(e), NEW q, NEW dm
  PROVE  /\ Cardinality(AlertsIn(d, q, dm)) \in Nat /\ Cardinality(AlertsIn(e, q, dm)) \in Nat
         /\ Cardinality(AlertsIn(d, q, dm)) <= Cardinality(AlertsIn(e, q, dm))
<1>1. AlertsIn(d, q, dm) \subseteq AlertsIn(e, q, dm)
  BY DEF Grows, AlertsIn, Demonstrated
<1>2. AlertsIn(e, q, dm) \subseteq DOMAIN e.alerts
  BY DEF AlertsIn, Demonstrated
<1>3. IsFiniteSet(AlertsIn(e, q, dm))
  BY <1>2, FS_Subset DEF KnownRows
<1> QED BY <1>1, <1>3, FS_Subset, FS_CardinalityType

\* An answer under way when another request commits.
LEMMA BesideAnswer ==
  ASSUME NEW q, DOMAIN q = DOMAIN Idle, NEW new, KnownRows(new), AnswerInv(q, db, demo)
  PROVE  AnswerInv(Beside(q, new), new, demo)
<1> DEFINE S == Script(q.kind, IsGuest(q.user))
<1>1. DOMAIN q = {"kind", "on", "cred", "user", "at", "todo", "read", "told", "figures", "since"}
  BY DEF Idle, Asked
<1>2. CASE ~Compared(q.kind)
  <2>1. Beside(q, new).kind = q.kind
    BY <1>1 DEF Beside, Since, Forget
  <2> QED BY <1>2, <2>1, OthersAnswer
<1>3. CASE Compared(q.kind)
  <2>1. /\ q.since \in {"calm", "grown", "changed"} /\ (q.since = "changed" => q.figures = <<>>)
    BY <1>3 DEF AnswerInv
  <2>2. PICK n \in 0..Len(S) :
          /\ q.todo = SubSeq(S, n + 1, Len(S)) /\ (q.at = "answered" => n = Len(S))
          /\ q.since # "changed" => StepsDone(q, db, demo, n, q.figures)
    BY <1>3 DEF AnswerInv
  <2>3. ASSUME NEW g, g.kind = q.kind, g.user = q.user, g.todo = q.todo, g.at = q.at,
               g.since \in {"calm", "grown", "changed"}, g.since = "changed" => g.figures = <<>>,
               g.since # "changed" => StepsDone(g, new, demo, n, g.figures)
        PROVE  AnswerInv(g, new, demo)
    <3>1. Script(g.kind, IsGuest(g.user)) = S
      BY <2>3
    <3> HIDE DEF S
    <3> QED BY <2>2, <2>3, <3>1, Zenon DEF AnswerInv
  <2>4. CASE q.figures = <<>>
    <3>1. Beside(q, new) = q
      BY <2>4 DEF Beside
    <3>2. DOMAIN q.figures = {}
      BY <2>4
    <3>3. StepsDone(q, db, demo, n, q.figures) => StepsDone(q, new, demo, n, q.figures)
      BY <3>2, NothingHolds DEF StepsDone
    <3> HIDE DEF S
    <3> QED BY <2>1, <2>2, <2>3, <3>1, <3>3
  <2>5. CASE new = db
    <3>1. Beside(q, new) = q
      BY <2>5 DEF Beside
    <3> QED BY <2>5, <3>1
  <2>6. CASE q.figures # <<>> /\ new # db /\ Grows(db, new)
    <3> DEFINE g == Since(q, "grown")
               a == Cardinality(AlertsIn(db, q, demo))
               b == Cardinality(AlertsIn(new, q, demo))
    <3>1. Beside(q, new) = g
      BY <2>6 DEF Beside
    <3>2. /\ g.kind = q.kind /\ g.user = q.user /\ g.todo = q.todo /\ g.at = q.at /\ g.figures = q.figures
          /\ g.since = "grown"
      BY <1>1 DEF Since
    <3> HIDE DEF g, S
    <3>3. a \in Nat /\ b \in Nat /\ a <= b
      BY <2>6, GrowsAlerts
    <3>4. StepsDone(q, db, demo, n, q.figures)
      BY <2>1, <2>2, <2>6
    <3>5. AlertsIn(new, g, demo) = AlertsIn(new, q, demo) /\ GenuineIn(g, demo) = GenuineIn(q, demo)
      <4>1. (Guestlike(g) <=> Guestlike(q)) /\ (GenuineIn(g, demo) <=> GenuineIn(q, demo))
        BY <3>2 DEF Guestlike, GenuineIn
      <4>2. AlertsIn(new, g, demo) = AlertsIn(new, q, demo)
        BY <4>1 DEF AlertsIn
      <4>3. GenuineIn(g, demo) = GenuineIn(q, demo)
        BY <4>1 DEF GenuineIn
      <4> QED BY <4>2, <4>3
    <3>6. FiguresHold(q.kind, IsGuest(q.user), GenuineIn(q, demo), q.figures, FALSE, b,
                      Cardinality(IncidentsIn(new, g, demo)))
      <4>1. FiguresHold(q.kind, IsGuest(q.user), GenuineIn(q, demo), q.figures, q.since = "calm", a,
                        Cardinality(IncidentsIn(db, q, demo)))
        BY <3>4 DEF StepsDone
      <4> HIDE DEF a, b
      <4> QED BY <3>3, <4>1, FiguresHoldOfMore
    <3>7. (g.since = "calm") = FALSE
      BY <3>2
    <3>8. DOMAIN g.figures = FiguresBy(Script(g.kind, IsGuest(g.user)), n)
      BY <3>2, <3>4 DEF StepsDone
    <3>9. StepsDone(g, new, demo, n, g.figures)
      <4>1. FiguresHold(g.kind, IsGuest(g.user), GenuineIn(g, demo), g.figures, g.since = "calm",
                        Cardinality(AlertsIn(new, g, demo)), Cardinality(IncidentsIn(new, g, demo)))
        BY <3>2, <3>5, <3>6, <3>7, Zenon
      <4> QED BY <3>8, <4>1 DEF StepsDone
    <3> QED BY <2>3, <3>1, <3>2, <3>9
  <2>7. CASE q.figures # <<>> /\ new # db /\ ~Grows(db, new)
    <3> DEFINE g == Forget(Since(q, "changed"))
    <3>1. Beside(q, new) = g
      BY <2>7 DEF Beside
    <3>2. /\ g.kind = q.kind /\ g.user = q.user /\ g.todo = q.todo /\ g.at = q.at /\ g.figures = <<>>
          /\ g.since = "changed"
      BY <1>1 DEF Since, Forget
    <3> HIDE DEF g, S
    <3> QED BY <2>3, <3>1, <3>2
  <2> QED BY <2>4, <2>5, <2>6, <2>7
<1> QED BY <1>2, <1>3

LEMMA CommitAnswer ==
  ASSUME IInv, AInv, NEW r \in Requests, NEW step \in Commits \cup {"insert"}, At(r, step), NEW new, KnownRows(new),
         Commit(r, new)
  PROVE  AInv'
<1>1. /\ db' = new /\ demo' = demo
      /\ req' = [p \in Requests |-> IF p = r THEN Goes(req[r], <<>>, {}) ELSE Beside(req[p], new)]
  BY DEF Commit
<1>2. /\ DOMAIN req[r] = DOMAIN Idle /\ req[r].todo # <<>> /\ Head(req[r].todo) = step /\ AnswerInv(req[r], db, demo)
      /\ Compared(req[r].kind) => step \in Quiet \cup Counts \cup {"list", "report"}
  BY Working
<1>3. step \in Quiet \cup Counts \cup {"list", "report"} => step \in Quiet
  BY DEF Commits, Counts, Quiet
<1>4. AnswerInv(Goes(req[r], <<>>, {}), new, demo)
  <2>1. CASE Compared(req[r].kind)
    BY <1>2, <1>3, <2>1, QuietStep
  <2>2. CASE ~Compared(req[r].kind)
    BY <1>2, <2>2, OthersGoOn
  <2> QED BY <2>1, <2>2
<1>5. ASSUME NEW p \in Requests PROVE AnswerInv(Beside(req[p], new), new, demo)
  <2>1. DOMAIN req[p] = DOMAIN Idle /\ AnswerInv(req[p], db, demo)
    BY DEF IInv, RequestInv, AInv
  <2> QED BY <2>1, BesideAnswer
<1>6. ASSUME NEW p \in Requests PROVE AnswerInv(req'[p], db', demo')
  BY <1>1, <1>4, <1>5
<1> QED BY <1>1, <1>6 DEF AInv

\* Alerts are stored with a severity that the risk engine gives, and open.
LEMMA StoresKnown ==
  ASSUME KnownRows(db), NEW by, NEW new \in Stores(by)
  PROVE  KnownRows(new)
<1>1. PICK raw \in Events[by] : new = With(Row(by, raw))
  BY DEF Stores
<1>2. Row(by, raw).severity \in DOMAIN SEVERITY_ORDER /\ Row(by, raw).status \in Statuses
  <2>1. \A score : SeverityLevel(score) \in DOMAIN SEVERITY_ORDER
    BY DEF SeverityLevel, SEVERITY_ORDER
  <2>2. Row(by, raw).severity = SeverityLevel(Score(Risk(raw))) /\ Row(by, raw).status = "OPEN"
    BY DEF Row, Normalize
  <2> QED BY <2>1, <2>2 DEF Statuses
<1> DEFINE row == Row(by, raw)
<1> HIDE DEF row
<1>3. new.alerts = [a \in Stored \cup {db.lastAlert + 1} |-> IF a = db.lastAlert + 1 THEN row ELSE db.alerts[a]]
  BY <1>1 DEF With, row
<1>4. IsFiniteSet(Stored \cup {db.lastAlert + 1})
  BY FS_AddElement DEF KnownRows, Stored
<1> QED BY <1>2, <1>3, <1>4 DEF KnownRows, Stored, row

LEMMA CorrelatedKnown ==
  ASSUME NEW d, KnownRows(d), NEW new \in Correlated(d)
  PROVE  KnownRows(new)
<1>1. PICK last, f : new = Joined(d, f, last)
  BY DEF Correlated
<1>2. new.alerts = d.alerts
  BY <1>1 DEF Joined
<1> QED BY <1>2 DEF KnownRows

LEMMA TriageKnown ==
  ASSUME KnownRows(db), RowsInv(db)
  PROVE  /\ KnownRows(Holding(<<>>, <<>>))
         /\ \A A : \A s \in Triage : KnownRows(Relabelled(A, s))
         /\ \A a, members : KnownRows(Holding([b \in Stored \ {a} |-> db.alerts[b]], members))
<1>1. \A alerts, members : Holding(alerts, members).alerts = alerts
  BY DEF Holding
<1>2. KnownRows(Holding(<<>>, <<>>))
  <2>1. DOMAIN <<>> = {}
    OBVIOUS
  <2> QED BY <1>1, <2>1, FS_EmptySet DEF KnownRows
<1>3. ASSUME NEW A, NEW s \in Triage PROVE KnownRows(Relabelled(A, s))
  <2> DEFINE alerts == [a \in Stored |-> IF a \in A THEN [db.alerts[a] EXCEPT !.status = s] ELSE db.alerts[a]]
  <2>1. Relabelled(A, s).alerts = alerts
    BY <1>1 DEF Relabelled
  <2>2. ASSUME NEW a \in Stored PROVE alerts[a].severity \in DOMAIN SEVERITY_ORDER /\ alerts[a].status \in Statuses
    <3>1. s \in Statuses /\ db.alerts[a].severity \in DOMAIN SEVERITY_ORDER /\ db.alerts[a].status \in Statuses
      BY ViewsConstantsOK DEF KnownRows, Stored
    <3>2. DOMAIN db.alerts[a] = {"by", "origin", "severity", "technique", "status"}
      BY DEF RowsInv, RowInv, Stored
    <3> QED BY <3>1, <3>2
  <2>3. DOMAIN alerts = Stored
    OBVIOUS
  <2> HIDE DEF alerts
  <2> QED BY <2>1, <2>2, <2>3 DEF KnownRows, Stored
<1>4. ASSUME NEW a, NEW members PROVE KnownRows(Holding([b \in Stored \ {a} |-> db.alerts[b]], members))
  <2> DEFINE alerts == [b \in Stored \ {a} |-> db.alerts[b]]
  <2>1. IsFiniteSet(Stored \ {a})
    BY FS_Subset DEF KnownRows, Stored
  <2>2. DOMAIN alerts = Stored \ {a} /\ \A b \in Stored \ {a} : alerts[b] = db.alerts[b]
    OBVIOUS
  <2>3. Holding(alerts, members).alerts = alerts
    BY <1>1
  <2> HIDE DEF alerts
  <2>4. KnownRows(Holding(alerts, members))
    BY <2>1, <2>2, <2>3 DEF KnownRows, Stored
  <2> QED BY <2>4 DEF alerts
<1> QED BY <1>2, <1>3, <1>4

LEMMA WritesAnswer ==
  ASSUME IInv, AInv, NEW r \in Requests,
         \/ Insert(r) \/ Correlate(r) \/ Upload(r) \/ Audit(r) \/ Fill(r) \/ FillNothing(r) \/ Clear(r)
         \/ RescanPaused(r) \/ SetAlert(r) \/ DeleteAlert(r) \/ Cascade(r)
  PROVE  AInv'
<1>1. KnownRows(db) /\ RowsInv(db)
  BY DEF AInv, IInv
<1>2. ASSUME NEW step \in Commits \cup {"insert"}, At(r, step), NEW new, KnownRows(new), Commit(r, new) PROVE AInv'
  BY <1>2, CommitAnswer
<1>3. ASSUME NEW step \in Commits, At(r, step), NEW by, Ingest(r, by) PROVE AInv'
  <2>1. PICK d \in Stores(by) : \E new \in Correlated(d) : Commit(r, new)
    BY <1>3 DEF Ingest
  <2> PICK new \in Correlated(d) : Commit(r, new)
    BY <2>1
  <2>2. KnownRows(new)
    BY <1>1, StoresKnown, CorrelatedKnown
  <2> QED BY <1>2, <1>3, <2>2
<1>4. Fail(r) => AInv'
  BY IdleAnswer, BecomesAnswer DEF Fail
<1>5. CASE Correlate(r)
  BY <1>1, <1>2, <1>5, CorrelatedKnown DEF Correlate, Commits
<1>6. CASE Upload(r)
  <2>1. At(r, "upload") /\ (Ingest(r, "upload") \/ \E new \in Correlated(db) : Commit(r, new))
    BY <1>6 DEF Upload
  <2>2. "upload" \in Commits
    BY DEF Commits
  <2> QED BY <1>1, <1>2, <1>3, <2>1, <2>2, CorrelatedKnown
<1>7. CASE Audit(r)
  <2>1. At(r, "audit") /\ (Ingest(r, "audit") \/ Becomes(r, Goes(req[r], <<>>, Makers({}))))
    BY <1>7 DEF Audit, Skip, Reply
  <2>2. "audit" \in Commits /\ "audit" \notin Quiet \cup Counts \cup {"list", "report"}
    BY DEF Commits, Quiet, Counts
  <2>3. ASSUME Becomes(r, Goes(req[r], <<>>, Makers({}))) PROVE AInv'
    <3>1. DOMAIN req[r] = DOMAIN Idle
      BY DEF IInv, RequestInv
    <3>2. Goes(req[r], <<>>, Makers({})).kind \in {req[r].kind, "none"}
      BY <3>1, KindOfGoes
    <3> QED BY <2>1, <2>2, <2>3, <3>2, OtherAnswer
  <2> QED BY <1>3, <2>1, <2>2, <2>3
<1>8. CASE Fill(r)
  BY <1>3, <1>8 DEF Fill, Commits
<1>9. CASE FillNothing(r)
  <2>1. Makers({}) = {}
    BY DEF Makers
  <2>2. "fill" \in Quiet /\ At(r, "fill") /\ Becomes(r, Goes(req[r], <<>>, {}))
    BY <1>9, <2>1 DEF FillNothing, Skip, Reply, Quiet
  <2> QED BY <2>2, QuietAnswer
<1>10. CASE Clear(r)
  BY <1>1, <1>2, <1>10, TriageKnown DEF Clear, Commits
<1>11. CASE RescanPaused(r)
  BY <1>11, IdleAnswer, BecomesAnswer DEF RescanPaused
<1>12. CASE SetAlert(r)
  BY <1>1, <1>2, <1>4, <1>12, TriageKnown DEF SetAlert, Commits
<1>13. CASE DeleteAlert(r)
  BY <1>1, <1>2, <1>4, <1>13, TriageKnown DEF DeleteAlert, Commits
<1>14. CASE Cascade(r)
  BY <1>1, <1>2, <1>4, <1>14, TriageKnown DEF Cascade, Commits
<1>15. CASE Insert(r)
  BY <1>1, <1>2, <1>15, StoresKnown DEF Insert
<1> QED BY <1>5, <1>6, <1>7, <1>8, <1>9, <1>10, <1>11, <1>12, <1>13, <1>14, <1>15

LEMMA StepAnswer == ASSUME IInv, AInv, [Next]_vars PROVE AInv'
<1>1. CASE UNCHANGED vars
  BY <1>1 DEF AInv, vars
<1>2. ASSUME NEW s \in live, EndSession(s) PROVE AInv'
  BY <1>2 DEF EndSession, AInv
<1>3. ASSUME NEW r \in Requests, Request(r) PROVE AInv'
  <2>1. ASSUME NEW kind, NEW cred, Arrive(r, kind, cred) PROVE AInv'
    BY <2>1, ArriveAnswer
  <2>2. CASE Tick(r) \/ Authorise(r)
    BY <2>2, TickAnswer, AuthoriseAnswer
  <2>3. CASE CountAlerts(r) \/ CountSeverities(r) \/ CountStatuses(r)
    BY <2>3, CountingAnswer
  <2>4. CASE CountIncidents(r) \/ ListAlerts(r) \/ ListIncidents(r) \/ Report(r)
    BY <2>4, ListingAnswer
  <2>5. CASE \/ CountAll(r) \/ TellOfHost(r) \/ ReadLogs(r) \/ FindAlert(r) \/ FindIncident(r) \/ Members(r)
             \/ GiveTicket(r) \/ Connect(r) \/ HearAlert(r) \/ HearHeartbeat(r) \/ Disconnect(r)
    BY <2>5, OtherQueriesAnswer
  <2>6. CASE \/ Insert(r) \/ Correlate(r) \/ Upload(r) \/ Audit(r) \/ Fill(r) \/ FillNothing(r) \/ Clear(r)
             \/ RescanPaused(r) \/ SetAlert(r) \/ DeleteAlert(r) \/ Cascade(r)
    BY <2>6, WritesAnswer
  <2>7. CASE Answer(r)
    BY <2>7, IdleAnswer, BecomesAnswer DEF Answer, Fail
  <2> QED BY <1>3, <2>1, <2>2, <2>3, <2>4, <2>5, <2>6, <2>7 DEF Request
<1> QED BY <1>1, <1>2, <1>3 DEF Next

LEMMA AnswerInvariance == Spec => [](IInv /\ AInv)
<1>1. Init => IInv /\ AInv
  <2>1. DOMAIN <<>> = {}
    OBVIOUS
  <2>2. Init => AInv
    BY <2>1, FS_EmptySet, IdleAnswer DEF Init, AInv, KnownRows
  <2>3. Init => IInv
    BY IdleInv DEF Init, IInv, RowsInv
  <2> QED BY <2>2, <2>3
<1>2. IInv /\ AInv /\ [Next]_vars => IInv' /\ AInv'
  BY StepInv, StepAnswer
<1> QED BY <1>1, <1>2, PTL DEF Spec

\* An answer that is ready has all its figures, and each agrees with the others.
LEMMA ReadyAgrees ==
  ASSUME NEW q, NEW d, NEW dm, AnswerInv(q, d, dm), KnownRows(d), Compared(q.kind), q.at = "answered",
         q.since # "changed"
  PROVE  LET calm == q.since = "calm"  f == q.figures IN
         /\ q.kind \in {"stats", "dashboard", "simulate"} => CountsAgree(f, q.kind = "stats", calm)
         /\ GenuineIn(q, dm) => IncidentsHaveAlerts(f)
         /\ q.kind = "dashboard" => ListsAgree(f, IsGuest(q.user), calm)
         /\ q.kind = "report" => SummaryAgrees(f)
<1> DEFINE S == Script(q.kind, IsGuest(q.user))
           f == q.figures
           D == DOMAIN f
           calm == q.since = "calm"
           guest == IsGuest(q.user)
           genuine == GenuineIn(q, dm)
           a == Cardinality(AlertsIn(d, q, dm))
           i == Cardinality(IncidentsIn(d, q, dm))
<1>1. Len(S) \in Nat /\ Ordered(S, q.kind, guest)
  BY ScriptsAreOrdered DEF IsGuest
<1>2. D = FiguresBy(S, Len(S)) /\ FiguresHold(q.kind, guest, genuine, f, calm, a, i)
  BY DEF AnswerInv, StepsDone
<1>3. AlertsIn(d, q, dm) \subseteq DOMAIN d.alerts
  BY DEF AlertsIn, Demonstrated
<1>4. a \in Nat
  BY <1>3, FS_Subset, FS_CardinalityType DEF KnownRows
<1>5. genuine => q.kind = "stats"
  BY DEF GenuineIn
<1> HIDE DEF S, f, D, calm, guest, genuine, a, i
<1>6. /\ q.kind # "report" => {"total", "severities", "incident_total", "statuses"} \subseteq D
      /\ q.kind = "dashboard" => {"listed", "incidents"} \subseteq D
      /\ q.kind = "report" => "summary" \in D
  <2>1. \A x : x \in D <=> \E n \in 1..Len(S) : x \in FiguresOf(S[n])
    BY <1>2 DEF FiguresBy
  <2>2. \A x \in Counts : x \in FiguresOf(x)
    BY DEF FiguresOf, Counts
  <2>3. "listed" \in FiguresOf("list") /\ "summary" \in FiguresOf("report")
    BY DEF FiguresOf
  <2>4. {"total", "severities", "incident_total", "statuses", "incidents"} \subseteq Counts
    BY DEF Counts
  <2> QED BY <1>1, <2>1, <2>2, <2>3, <2>4 DEF Ordered
<1>7. q.kind # "report" => CountsAgree(f, q.kind = "stats", calm)
  BY <1>2, <1>4, <1>6 DEF FiguresHold, CountsAgree, D
<1>8. genuine => IncidentsHaveAlerts(f)
  BY <1>2, <1>5, <1>6 DEF FiguresHold, IncidentsHaveAlerts, D
<1>9. q.kind = "dashboard" => ListsAgree(f, guest, calm)
  BY <1>2, <1>4, <1>6 DEF FiguresHold, ListsAgree, D
<1>10. q.kind = "report" => SummaryAgrees(f)
  BY <1>2, <1>6 DEF FiguresHold, D
<1> QED BY <1>7, <1>8, <1>9, <1>10 DEF f, calm, guest, genuine

\* The figures of one answer are queried one after the other, while others commit: those of
\* get_dashboard_stats, dashboard_view, the report of techniques and the simulator's broadcast.
\* If nothing was committed between them they are equal; if rows were only added, each is no more
\* than those that were queried after it, and no incident is told of without an alert.
THEOREM AnswersAgreeAlways == Spec => []AnswersAgree
<1>1. AInv => AnswersAgree
  <2> SUFFICES ASSUME AInv, NEW r \in Requests, req[r].at = "answered", req[r].since # "changed"
               PROVE  LET q == req[r]  calm == q.since = "calm" IN
                      /\ q.kind \in {"stats", "dashboard", "simulate"} => CountsAgree(q.figures, q.kind = "stats", calm)
                      /\ q.kind = "stats" /\ ~Guestlike(q) /\ ~demo => IncidentsHaveAlerts(q.figures)
                      /\ q.kind = "dashboard" => ListsAgree(q.figures, IsGuest(q.user), calm)
                      /\ q.kind = "report" => SummaryAgrees(q.figures)
    BY DEF AnswersAgree
  <2>1. AnswerInv(req[r], db, demo) /\ KnownRows(db)
    BY DEF AInv
  <2>2. CASE Compared(req[r].kind)
    BY <2>1, <2>2, ReadyAgrees DEF GenuineIn
  <2>3. CASE ~Compared(req[r].kind)
    BY <2>3 DEF Compared
  <2> QED BY <2>2, <2>3
<1> QED BY <1>1, AnswerInvariance, PTL

-----------------------------------------------------------------------------
(* What the score promises of every event of the views: it is within the   *)
(* bounds the database requires, and more evidence never lowers it or the  *)
(* severity.                                                               *)

MaybeInt == Seq(Int)

Event == [event : STRING, tool : STRING, level : MaybeInt, count : MaybeInt, confidence : MaybeInt,
          signature : BOOLEAN, external : BOOLEAN, privileged : BOOLEAN, benign : BOOLEAN]

LEMMA BaseIsNumber == \A x : BaseSeverity(x) \in Int
<1> SUFFICES ASSUME NEW x PROVE BaseSeverity(x) \in Int
  OBVIOUS
<1>1. CASE \E n \in Bases : x \in EventsOf(n)
  <2>1. (CHOOSE n \in Bases : x \in EventsOf(n)) \in Bases
    BY <1>1
  <2>2. BaseSeverity(x) \in Bases
    BY <1>1, <2>1 DEF BaseSeverity
  <2> QED BY <2>2 DEF Bases
<1>2. CASE ~ \E n \in Bases : x \in EventsOf(n)
  BY <1>2 DEF BaseSeverity
<1> QED BY <1>1, <1>2

LEMMA FloorIsNumber == \A tool, level : LevelFloor(tool, level) \in Int
  BY DEF LevelFloor

LEMMA FrequencyGrows ==
  \A m, n \in Int : m <= n => Frequency(m) \in Int /\ Frequency(n) \in Int /\ Frequency(m) <= Frequency(n)
<1> SUFFICES ASSUME NEW m \in Int, NEW n \in Int, m <= n
             PROVE Frequency(m) \in Int /\ Frequency(n) \in Int /\ Frequency(m) <= Frequency(n)
  OBVIOUS
<1>1. \A k \in Int : /\ k >= 30 => Frequency(k) = 30
                     /\ k \in 10..29 => Frequency(k) = 20
                     /\ k \in 5..9 => Frequency(k) = 10
                     /\ k \in 2..4 => Frequency(k) = 5
                     /\ k < 2 => Frequency(k) = 0
  BY DEF Frequency
<1> QED BY <1>1

LEMMA SummandsAreNumbers ==
  \A e \in Event : /\ Base(e) \in Int /\ FrequencyOf(e) \in Int /\ Confidence10(e) \in Int
                    /\ FrequencyOf(e) >= 0
<1> SUFFICES ASSUME NEW e \in Event
             PROVE  Base(e) \in Int /\ FrequencyOf(e) \in Int /\ Confidence10(e) \in Int /\ FrequencyOf(e) >= 0
  OBVIOUS
<1>1. e.count # <<>> => e.count[1] \in Int
  BY DEF Event, MaybeInt
<1>2. e.confidence # <<>> => e.confidence[1] \in Int
  BY DEF Event, MaybeInt
<1>3. Base(e) \in Int
  BY BaseIsNumber, FloorIsNumber DEF Base, Greater, Given
<1>4. FrequencyOf(e) \in Int /\ FrequencyOf(e) >= 0
  <2>1. \A k \in Int : Frequency(k) \in {0, 5, 10, 20, 30}
    BY DEF Frequency
  <2> QED BY <1>1, <2>1 DEF FrequencyOf, Given
<1>5. Confidence10(e) \in Int
  BY <1>2 DEF Confidence10, Greater, Lesser, Given
<1> QED BY <1>3, <1>4, <1>5

\* Whatever an event brings, its score is between 0 and 100, as the table of alerts demands
\* (chk_alert_risk_score): no alert is refused by the database because of its score.
THEOREM ScoreIsInBounds == \A e \in Event : Score(e) \in 0..100
<1> SUFFICES ASSUME NEW e \in Event PROVE Score(e) \in 0..100
  OBVIOUS
<1>1. Base(e) \in Int /\ FrequencyOf(e) \in Int /\ Confidence10(e) \in Int
  BY SummandsAreNumbers
<1> QED BY <1>1 DEF Score, Lesser, Greater

LEMMA SeverityGrows ==
  \A m, n \in Int : m <= n => SeverityRank(SeverityLevel(m)) <= SeverityRank(SeverityLevel(n))
<1>1. \A k \in Int : /\ k >= 75 => SeverityLevel(k) = "CRITICAL"
                     /\ k \in 50..74 => SeverityLevel(k) = "HIGH"
                     /\ k \in 25..49 => SeverityLevel(k) = "MEDIUM"
                     /\ k < 25 => SeverityLevel(k) = "LOW"
  BY DEF SeverityLevel
<1>2. /\ SeverityRank("LOW") = 1 /\ SeverityRank("MEDIUM") = 2 /\ SeverityRank("HIGH") = 3
      /\ SeverityRank("CRITICAL") = 4
  BY DEF SeverityRank
<1> QED BY <1>1, <1>2

\* What e has more than d: it occurs as often or more, and has what d has of a known
\* signature, an external address and a privileged user; d has the benign context if e has it.
Stronger(e, d) ==
  /\ e.event = d.event /\ e.tool = d.tool /\ e.level = d.level /\ e.confidence = d.confidence
  /\ d.count # <<>> => e.count # <<>> /\ d.count[1] <= e.count[1]
  /\ (d.signature => e.signature) /\ (d.external => e.external) /\ (d.privileged => e.privileged)
  /\ e.benign => d.benign

\* More evidence for one kind of event never lowers its score or its severity: a burst that
\* goes on, or a source that turns out to be external, does not move an alert down the queue.
THEOREM EvidenceNeverLowers ==
  \A d, e \in Event :
    Stronger(e, d) => /\ Score(d) <= Score(e)
                      /\ SeverityRank(SeverityLevel(Score(d))) <= SeverityRank(SeverityLevel(Score(e)))
<1> SUFFICES ASSUME NEW d \in Event, NEW e \in Event, Stronger(e, d) PROVE Score(d) <= Score(e)
  BY ScoreIsInBounds, SeverityGrows, SMTT(30)
<1>1. /\ Base(d) = Base(e) /\ Base(e) \in Int
      /\ FrequencyOf(d) \in Int /\ FrequencyOf(e) \in Int /\ FrequencyOf(e) >= 0
      /\ Confidence10(d) \in Int /\ Confidence10(e) \in Int
  BY SummandsAreNumbers DEF Base, Stronger
<1>2. FrequencyOf(d) <= FrequencyOf(e)
  <2>1. CASE d.count = <<>>
    BY <1>1, <2>1 DEF FrequencyOf, Given
  <2>2. CASE d.count # <<>>
    <3>1. e.count # <<>> /\ d.count[1] <= e.count[1] /\ d.count[1] \in Int /\ e.count[1] \in Int
      BY <2>2 DEF Stronger, Event, MaybeInt
    <3> QED BY <2>2, <3>1, FrequencyGrows DEF FrequencyOf, Given
  <2> QED BY <2>1, <2>2
<1>3. Confidence10(d) <= Confidence10(e)
  BY <1>1 DEF Confidence10, Stronger, Event
<1>4. /\ (IF d.external THEN 5 ELSE 0) <= (IF e.external THEN 5 ELSE 0)
      /\ (IF d.privileged THEN 10 ELSE 0) <= (IF e.privileged THEN 10 ELSE 0)
      /\ (IF e.benign THEN 20 ELSE 0) <= (IF d.benign THEN 20 ELSE 0)
  BY DEF Stronger
<1> QED BY <1>1, <1>2, <1>3, <1>4 DEF Score, Lesser, Greater
=============================================================================
