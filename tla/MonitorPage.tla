----------------------------- MODULE MonitorPage -----------------------------
(***************************************************************************)
(* What a page shows of host monitoring (app/static/js/app.js): it asks    *)
(* for the status when it loads, when a socket opens and when its window   *)
(* gains focus, toggles monitoring and the simulation, and hears           *)
(* heartbeats.  Requests and heartbeats travel on connections of their     *)
(* own, so they arrive in any order, and every request but the             *)
(* simulation's carries a number that makes its answer void when a later   *)
(* one has been sent.                                                      *)
(*                                                                         *)
(* The server is ThreatStreamManager as requests see it: MonitorLifecycle  *)
(* has the whole of it.  Requests of other clients are calls of Others.    *)
(***************************************************************************)
EXTENDS Naturals, FiniteSets

CONSTANTS
  Calls,         \* requests of this page that may be under way at once
  Others,        \* toggles of other clients
  Sockets,       \* WebSockets that the page may have open at once
  MaxClicks,     \* clicks on the toggles (bound of the model)
  MaxFailures,   \* requests that fail (bound of the model)
  MaxBeats,      \* heartbeats in flight on one socket (bound of the model)
  Nobody         \* no call

ASSUME PageConstantsOK ==
  /\ Calls \cap Others = {} /\ Nobody \notin Calls \cup Others
  /\ {MaxClicks, MaxFailures, MaxBeats} \subseteq Nat

VARIABLES
  monitoring,    \* what get_status reports as monitoring_state
  holder,        \* the call that holds the lifecycle lock
  call,          \* the requests
  page,          \* SOC_STATE.monitoringState
  beats,         \* of each open socket, the heartbeats in flight; Nobody when it is closed
  clicks,        \* clicks left
  failures,      \* failures left
  told           \* history: the transition the last answer put on the page, if it was one

vars == <<monitoring, holder, call, page, beats, clicks, failures, told>>

Transitions  == {"PAUSING", "RESUMING"}
Monitoring   == Transitions \cup {"ACTIVE", "PAUSED", "PAUSING_TIMED_OUT"}
Shown        == Monitoring \cup {"CHECKING", "UNKNOWN"}
Toggles      == {"resume", "pause"}
Operations   == Toggles \cup {"status", "simulate"}

\* A request: what it asks, how far it is, its answer, and whether its number is the last.
Call == [op : Operations, at : {"idle", "sent", "held", "answered", "failed"},
         answer : Monitoring \cup {Nobody}, last : BOOLEAN]

Idle       == [op |-> "status", at |-> "idle", answer |-> Nobody, last |-> FALSE]
Sent(op)   == [op |-> op, at |-> "sent", answer |-> Nobody, last |-> op # "simulate"]
UnderWay   == {c \in Calls : call[c].at # "idle"}
Awaited    == {c \in UnderWay : call[c].last}

Init ==
  /\ monitoring \in {"ACTIVE", "PAUSED"} /\ holder = Nobody
  /\ \E c \in Calls : call = [d \in Calls \cup Others |-> IF d = c THEN Sent("status") ELSE Idle]
  /\ page = "CHECKING" /\ beats = [s \in Sockets |-> Nobody]
  /\ clicks = MaxClicks /\ failures = MaxFailures /\ told = Nobody

\* A request with a number of its own: ++currentMonitoringRequestId voids the others.
Numbered(c, op) ==
  [d \in Calls \cup Others |->
     CASE d = c -> Sent(op)
       [] d \in Calls \ {c} -> [call[d] EXCEPT !.last = FALSE]
       [] OTHER -> call[d]]

\* initStreamStatus, called when a socket opens or the window gains focus.
AskStatus(c) == call[c].at = "idle" /\ call' = Numbered(c, "status")

Focus(c) == AskStatus(c) /\ UNCHANGED <<monitoring, holder, page, beats, clicks, failures, told>>

Open(c, s) ==
  /\ beats[s] = Nobody /\ AskStatus(c)
  /\ beats' = [beats EXCEPT ![s] = 0]
  /\ UNCHANGED <<monitoring, holder, page, clicks, failures, told>>

\* toggleHostMonitoring, which refuses while the page shows a transition or nothing yet.
Click(c) ==
  /\ call[c].at = "idle" /\ clicks > 0 /\ page \notin Transitions \cup {"CHECKING"}
  /\ LET target == IF page = "ACTIVE" THEN "pause" ELSE "resume"
     IN  /\ call' = Numbered(c, target)
         /\ page' = IF target = "pause" THEN "PAUSING" ELSE "RESUMING"
  /\ clicks' = clicks - 1 /\ told' = Nobody
  /\ UNCHANGED <<monitoring, holder, beats, failures>>

\* toggleSimulation: its button is disabled while the request is under way; it has no number.
ClickSimulation(c) ==
  /\ call[c].at = "idle" /\ clicks > 0 /\ \A d \in UnderWay : call[d].op # "simulate"
  /\ call' = [call EXCEPT ![c] = Sent("simulate")]
  /\ clicks' = clicks - 1
  /\ UNCHANGED <<monitoring, holder, page, beats, failures, told>>

\* Another client toggles monitoring.
OtherToggle(c) ==
  /\ call[c] = Idle
  /\ \E op \in Toggles : call' = [call EXCEPT ![c] = Sent(op)]
  /\ UNCHANGED <<monitoring, holder, page, beats, clicks, failures, told>>

Answered(c, state) == [call EXCEPT ![c].at = "answered", ![c].answer = state]

\* GET /stream/status runs in a thread of its own and may see a transition.
AnswerStatus(c) ==
  /\ call[c].at = "sent" /\ call[c].op = "status"
  /\ call' = Answered(c, monitoring)
  /\ UNCHANGED <<monitoring, holder, page, beats, clicks, failures, told>>

\* A toggle that finds nothing to do, or a start refused while an audit that was told to stop
\* still runs; a toggle of the simulation waits for the same lock.
AnswerAtOnce(c) ==
  /\ call[c].at = "sent" /\ holder = Nobody
  /\ \/ call[c].op = "resume" /\ monitoring \in {"ACTIVE", "PAUSING_TIMED_OUT"}
     \/ call[c].op = "pause" /\ monitoring = "PAUSED"
     \/ call[c].op = "simulate"
  /\ call' = Answered(c, monitoring)
  /\ UNCHANGED <<monitoring, holder, page, beats, clicks, failures, told>>

BeginToggle(c) ==
  /\ call[c].at = "sent" /\ holder = Nobody
  /\ \/ call[c].op = "resume" /\ monitoring = "PAUSED" /\ monitoring' = "RESUMING"
     \/ call[c].op = "pause" /\ monitoring # "PAUSED" /\ monitoring' = "PAUSING"
  /\ holder' = c /\ call' = [call EXCEPT ![c].at = "held"]
  /\ UNCHANGED <<page, beats, clicks, failures, told>>

EndToggle(c) ==
  /\ holder = c /\ holder' = Nobody
  /\ monitoring' \in IF call[c].op = "resume" THEN {"ACTIVE"} ELSE {"PAUSED", "PAUSING_TIMED_OUT"}
  /\ call' = Answered(c, monitoring')
  /\ UNCHANGED <<page, beats, clicks, failures, told>>

\* The audit that outlived the stop's wait has ended.
Heal ==
  /\ monitoring = "PAUSING_TIMED_OUT" /\ holder = Nobody /\ monitoring' = "PAUSED"
  /\ UNCHANGED <<holder, call, page, beats, clicks, failures, told>>

\* A request is refused or lost, or its answer is.
Fail(c) ==
  /\ call[c].at \in {"sent", "answered"} /\ failures > 0 /\ failures' = failures - 1
  /\ call' = [call EXCEPT ![c].at = "failed"]
  /\ UNCHANGED <<monitoring, holder, page, beats, clicks, told>>

\* updateMonitoringUI with a status
Shows(state) == page' = state /\ told' = IF state \in Transitions THEN state ELSE Nobody
ShowsNothingNew == UNCHANGED <<page, told>>
Ends(c) == call' = [call EXCEPT ![c] = Idle]

\* Mutant: a status does not end a transition.
ReceiveStatusBetween(c) ==
  /\ call[c].op = "status" /\ call[c].at \in {"answered", "failed"} /\ Ends(c)
  /\ CASE ~call[c].last \/ page \in Transitions -> ShowsNothingNew
       [] call[c].at = "failed"    -> Shows("UNKNOWN")
       [] OTHER                    -> Shows(call[c].answer)

ReceiveStatus(c) ==
  /\ call[c].op = "status" /\ call[c].at \in {"answered", "failed"} /\ Ends(c)
  /\ CASE ~call[c].last            -> ShowsNothingNew
       [] call[c].at = "failed"    -> Shows("UNKNOWN")
       [] OTHER                    -> Shows(call[c].answer)

\* Mutant: a toggle that fails is forgotten.
ReceiveToggleOnce(c) ==
  /\ call[c].op \in Toggles /\ call[c].at \in {"answered", "failed"} /\ Ends(c)
  /\ IF call[c].last /\ call[c].at = "answered" THEN Shows(call[c].answer) ELSE ShowsNothingNew

\* After a failure, the page asks for the status.
ReceiveToggle(c) ==
  /\ call[c].op \in Toggles /\ call[c].at \in {"answered", "failed"}
  /\ CASE ~call[c].last            -> Ends(c) /\ ShowsNothingNew
       [] call[c].at = "failed"    -> call' = Numbered(c, "status") /\ ShowsNothingNew
       [] OTHER                    -> Ends(c) /\ Shows(call[c].answer)

ReceiveSimulation(c) ==
  /\ call[c].op = "simulate" /\ call[c].at \in {"answered", "failed"} /\ Ends(c)
  /\ IF call[c].at = "failed" THEN ShowsNothingNew ELSE Shows(call[c].answer)

Receive(c) ==
  /\ ReceiveStatus(c) \/ ReceiveToggle(c) \/ ReceiveSimulation(c)
  /\ UNCHANGED <<monitoring, holder, beats, clicks, failures>>

\* The monitor loop sends heartbeats only while monitoring is on; they say so.
Beat(s) ==
  /\ monitoring = "ACTIVE" /\ beats[s] # Nobody /\ beats[s] < MaxBeats
  /\ beats' = [beats EXCEPT ![s] = @ + 1]
  /\ UNCHANGED <<monitoring, holder, call, page, clicks, failures, told>>

Deaf == Transitions \cup {"CHECKING"}

Hear(s) ==
  /\ beats[s] \notin {Nobody, 0}
  /\ beats' = [beats EXCEPT ![s] = @ - 1]
  /\ IF page \in Deaf THEN ShowsNothingNew ELSE Shows("ACTIVE")
  /\ UNCHANGED <<monitoring, holder, call, clicks, failures>>

\* The connection is lost, with what was in flight; the page opens another later.
Close(s) ==
  /\ beats[s] # Nobody /\ beats' = [beats EXCEPT ![s] = Nobody]
  /\ UNCHANGED <<monitoring, holder, call, page, clicks, failures, told>>

Serve(c) == AnswerStatus(c) \/ AnswerAtOnce(c) \/ BeginToggle(c) \/ EndToggle(c)

Next ==
  \/ \E c \in Calls : \/ Focus(c) \/ Click(c) \/ ClickSimulation(c) \/ Fail(c) \/ Receive(c)
                      \/ \E s \in Sockets : Open(c, s)
  \/ \E c \in Others : OtherToggle(c)
  \/ \E c \in Calls \cup Others : Serve(c)
  \/ \E s \in Sockets : Beat(s) \/ Hear(s) \/ Close(s)
  \/ Heal

\* Requests are served and answers and heartbeats arrive; audits end.  Nothing makes a user
\* click, a window gain focus or a socket open.
Fairness ==
  /\ \A c \in Calls \cup Others : SF_vars(Serve(c))
  /\ \A c \in Calls : WF_vars(Receive(c))
  /\ \A s \in Sockets : WF_vars(Hear(s))
  /\ WF_vars(Heal)

Spec == Init /\ [][Next]_vars /\ Fairness

-----------------------------------------------------------------------------
\* The variables have their types, and one request at most has the last number.
PageTypeOK ==
  /\ monitoring \in Monitoring /\ holder \in Calls \cup Others \cup {Nobody}
  /\ call \in [Calls \cup Others -> Call]
  /\ page \in Shown /\ told \in Transitions \cup {Nobody}
  /\ beats \in [Sockets -> (0 .. MaxBeats) \cup {Nobody}]
  /\ clicks \in 0 .. MaxClicks /\ failures \in 0 .. MaxFailures
  /\ Cardinality(Awaited) <= 1

\* A page that refuses clicks and heartbeats, because it shows a transition or CHECKING, either
\* awaits an answer that it will take, or was told of the transition by the server: no path
\* through voided, failed and repeated requests leaves it waiting for nothing.  (A page that
\* was told waits for the next focus or socket: nothing else asks again.)
NobodyWaitsForNothing == page \in Deaf => Awaited # {} \/ page = told

\* The window gains focus while no answer is awaited.
QuietFocus == Awaited = {} /\ \E c \in Calls : Focus(c)

\* When the window gains focus again and again and toggles and failures come to an end, the
\* page ends up showing what the server reports, whatever was late, lost or voided before.
PageFollowsServer == []<><<QuietFocus>>_vars => <>[](page = monitoring)
=============================================================================
