----------------------------- MODULE DeliveryProofs -----------------------------
(***************************************************************************)
(* Both ends of the sockets.  MonitorPage: for any requests, sockets,      *)
(* clicks and failures, a page that refuses clicks awaits an answer or was *)
(* told of a transition.  The invariant says of each request that its      *)
(* answer, if it has one, is a state of the server, that a request of the  *)
(* simulation has no number, that at most one request has the last number, *)
(* and that the lock is held by a request that is not answered yet.        *)
(* BroadcastHub: for any sockets and broadcasts, listeners are served.     *)
(***************************************************************************)
EXTENDS MonitorPage, BroadcastHub, FiniteSetTheorems, TLAPS

\* The types, without the count of the requests that have the last number.
Types ==
  /\ monitoring \in Monitoring /\ holder \in Calls \cup Others \cup {Nobody}
  /\ call \in [Calls \cup Others -> Call]
  /\ page \in Shown /\ told \in Transitions \cup {Nobody}
  /\ beats \in [Sockets -> (0 .. MaxBeats) \cup {Nobody}]
  /\ clicks \in 0 .. MaxClicks /\ failures \in 0 .. MaxFailures

\* An answer is a state of the server, and a toggle of the simulation has no number.
Sane(q) ==
  /\ q.at = "answered" => q.answer \in Monitoring
  /\ q.op = "simulate" => ~q.last

\* At most one request has the last number.
AwaitedOnce == \A c, d \in Awaited : c = d

\* Nobody but its holder has been given the lock.
HolderIsHeld == holder # Nobody => call[holder].at = "held"

IInv == Types /\ HolderIsHeld /\ (\A c \in Calls \cup Others : Sane(call[c])) /\ AwaitedOnce /\ NobodyWaitsForNothing

-----------------------------------------------------------------------------
(* Requests. *)

LEMMA RequestsAreCalls ==
  /\ Idle \in Call /\ Sane(Idle) /\ Idle.at = "idle" /\ ~Idle.last
  /\ \A op \in Operations : /\ Sent(op) \in Call /\ Sane(Sent(op)) /\ Sent(op).at = "sent"
                            /\ Sent(op).last <=> op # "simulate"
BY DEF Idle, Sent, Call, Sane, Operations, Toggles

LEMMA InitHolds == Init => IInv
<1> SUFFICES ASSUME Init PROVE IInv
  OBVIOUS
<1> PICK c \in Calls : call = [d \in Calls \cup Others |-> IF d = c THEN Sent("status") ELSE Idle]
  BY DEF Init
<1>1. Sent("status") \in Call /\ Sane(Sent("status")) /\ Sent("status").at = "sent" /\ Sent("status").last
  BY RequestsAreCalls DEF Operations
<1>2. Types
  BY <1>1, RequestsAreCalls, PageConstantsOK DEF Init, Types, Monitoring, Shown
<1>3. Awaited = {c}
  BY <1>1, RequestsAreCalls DEF Awaited, UnderWay
<1>4. \A d \in Calls \cup Others : Sane(call[d])
  BY <1>1, RequestsAreCalls
<1>5. HolderIsHeld
  BY DEF Init, HolderIsHeld
<1> QED BY <1>2, <1>3, <1>4, <1>5 DEF IInv, AwaitedOnce, NobodyWaitsForNothing

\* A step that changes one request, which is no longer awaited than it was, or not at all.
LEMMA OneRequest ==
  ASSUME IInv, NEW c \in Calls \cup Others, NEW q \in Call, Sane(q), call' = [call EXCEPT ![c] = q]
  PROVE  /\ call' \in [Calls \cup Others -> Call] /\ \A d \in Calls \cup Others : Sane(call'[d])
         /\ (q.last => call[c].last) /\ call[c].at # "idle" => Awaited' \subseteq Awaited /\ AwaitedOnce'
         /\ (call[c].last => q.last) /\ q.at # "idle" => Awaited \subseteq Awaited'
         /\ call[c].at = "idle" \/ ~call[c].last => Awaited \ {c} = Awaited /\ Awaited \subseteq Awaited'
         /\ ~q.last => Awaited' \subseteq Awaited /\ AwaitedOnce'
         /\ c \notin Calls => Awaited' = Awaited /\ AwaitedOnce'
         /\ call[c].at # "held" /\ holder' = holder => HolderIsHeld'
<1>1. call'[c] = q /\ \A d \in (Calls \cup Others) \ {c} : call'[d] = call[d]
  BY DEF IInv, Types
<1>2. call' \in [Calls \cup Others -> Call]
  BY DEF IInv, Types
<1>3. \A d \in Calls \cup Others : Sane(call'[d])
  BY <1>1 DEF IInv
<1>4. call[c].at # "held" /\ holder' = holder => HolderIsHeld'
  BY <1>1 DEF IInv, Types, HolderIsHeld
<1> QED BY <1>1, <1>2, <1>3, <1>4 DEF IInv, Awaited, AwaitedOnce, UnderWay

\* A step that gives a request a number of its own.
LEMMA NumberedRequest ==
  ASSUME IInv, NEW c \in Calls, NEW op \in Operations \ {"simulate"}, call' = Numbered(c, op)
  PROVE  /\ call' \in [Calls \cup Others -> Call] /\ \A d \in Calls \cup Others : Sane(call'[d])
         /\ Awaited' = {c} /\ AwaitedOnce'
         /\ call[c].at # "held" /\ holder' = holder => HolderIsHeld'
<1>1. Sent(op) \in Call /\ Sane(Sent(op)) /\ Sent(op).at = "sent" /\ Sent(op).last
  BY RequestsAreCalls
<1>2. ASSUME NEW d \in Calls \cup Others
      PROVE  /\ call'[d] \in Call /\ Sane(call'[d])
             /\ d \in Calls \ {c} => ~call'[d].last
             /\ d = c => call'[d] = Sent(op)
             /\ d # c => call'[d].at = call[d].at
  <2>1. call[d] \in Call /\ Sane(call[d])
    BY DEF IInv, Types
  <2> DEFINE void == [call[d] EXCEPT !.last = FALSE]
  <2>2. void \in Call /\ Sane(void) /\ ~void.last /\ void.at = call[d].at
    BY <2>1 DEF Call, Sane
  <2>3. call'[d] = CASE d = c -> Sent(op) [] d \in Calls \ {c} -> void [] OTHER -> call[d]
    BY DEF Numbered
  <2> HIDE DEF void
  <2> QED BY <1>1, <2>1, <2>2, <2>3
<1>3. call' \in [Calls \cup Others -> Call]
  BY <1>2 DEF Numbered
<1>4. Awaited' = {c}
  BY <1>1, <1>2 DEF Awaited, UnderWay
<1>5. call[c].at # "held" /\ holder' = holder => HolderIsHeld'
  BY <1>2 DEF IInv, Types, HolderIsHeld
<1> QED BY <1>2, <1>3, <1>4, <1>5 DEF AwaitedOnce

-----------------------------------------------------------------------------
(* What the page does. *)

\* The parts of the invariant that the steps of the page put together.
LEMMA Together ==
  ASSUME Types', HolderIsHeld', \A d \in Calls \cup Others : Sane(call'[d]), AwaitedOnce',
         page' \in Deaf => Awaited' # {} \/ page' = told'
  PROVE  IInv'
BY DEF IInv, NobodyWaitsForNothing

LEMMA ShowsKeeps ==
  ASSUME NEW state \in Monitoring \cup {"UNKNOWN"}, Shows(state)
  PROVE  page' \in Shown /\ told' \in Transitions \cup {Nobody} /\ (page' \in Deaf => page' = told')
BY DEF Shows, Monitoring, Shown, Deaf, Transitions

LEMMA AskKeeps ==
  ASSUME IInv, NEW c \in Calls, Focus(c) \/ Click(c) \/ \E s \in Sockets : Open(c, s)
  PROVE  IInv'
<1>1. PICK op \in Operations \ {"simulate"} : call' = Numbered(c, op)
  BY DEF Focus, Open, Click, AskStatus, Operations, Toggles
<1>2. UNCHANGED <<monitoring, holder, failures>> /\ call[c].at = "idle"
  BY DEF Focus, Open, Click, AskStatus
<1>3. /\ call' \in [Calls \cup Others -> Call] /\ \A d \in Calls \cup Others : Sane(call'[d])
      /\ Awaited' = {c} /\ AwaitedOnce' /\ HolderIsHeld'
  BY <1>1, <1>2, NumberedRequest
<1>4. /\ page' \in Shown /\ told' \in Transitions \cup {Nobody}
      /\ beats' \in [Sockets -> (0 .. MaxBeats) \cup {Nobody}] /\ clicks' \in 0 .. MaxClicks
  <2>1. CASE Focus(c) \/ \E s \in Sockets : Open(c, s)
    BY <2>1, PageConstantsOK DEF Focus, Open, IInv, Types
  <2>2. CASE Click(c)
    BY <2>2, PageConstantsOK DEF Click, IInv, Types, Shown, Monitoring, Transitions
  <2> QED BY <2>1, <2>2
<1>5. Types'
  BY <1>2, <1>3, <1>4 DEF IInv, Types
<1> QED BY <1>3, <1>5, Together

LEMMA SimulateKeeps ==
  ASSUME IInv, NEW c \in Calls, ClickSimulation(c)
  PROVE  IInv'
<1>1. /\ call' = [call EXCEPT ![c] = Sent("simulate")] /\ call[c].at = "idle"
      /\ UNCHANGED <<monitoring, holder, page, beats, failures, told>>
      /\ clicks > 0 /\ clicks' = clicks - 1
  BY DEF ClickSimulation
<1>2. Sent("simulate") \in Call /\ Sane(Sent("simulate")) /\ ~Sent("simulate").last
  BY RequestsAreCalls DEF Operations
<1>3. /\ call' \in [Calls \cup Others -> Call] /\ \A d \in Calls \cup Others : Sane(call'[d])
      /\ Awaited \subseteq Awaited' /\ AwaitedOnce' /\ HolderIsHeld'
  BY <1>1, <1>2, OneRequest
<1>4. Types'
  <2>1. clicks' \in 0 .. MaxClicks
    BY <1>1, PageConstantsOK DEF IInv, Types
  <2> QED BY <1>1, <1>3, <2>1 DEF IInv, Types
<1> QED BY <1>1, <1>3, <1>4, Together DEF IInv, NobodyWaitsForNothing

\* An answer is heard, or a failure.
LEMMA ReceiveKeeps ==
  ASSUME IInv, NEW c \in Calls, Receive(c)
  PROVE  IInv'
<1>1. /\ UNCHANGED <<monitoring, holder, beats, clicks, failures>> /\ call[c].at \in {"answered", "failed"}
      /\ Sane(call[c]) /\ call[c] \in Call
  BY DEF Receive, ReceiveStatus, ReceiveToggle, ReceiveSimulation, IInv, Types
<1>2. Idle \in Call /\ Sane(Idle) /\ ~Idle.last
  BY RequestsAreCalls
<1>3. CASE Ends(c)
  <2>1. /\ call' \in [Calls \cup Others -> Call] /\ \A d \in Calls \cup Others : Sane(call'[d]) /\ AwaitedOnce'
        /\ HolderIsHeld' /\ (~call[c].last => Awaited \subseteq Awaited')
    BY <1>1, <1>2, <1>3, OneRequest DEF Ends
  <2>2. CASE ~call[c].last /\ ShowsNothingNew
    <3>1. UNCHANGED <<page, told>>
      BY <2>2 DEF ShowsNothingNew
    <3>2. Types'
      BY <1>1, <2>1, <3>1 DEF IInv, Types
    <3> QED BY <2>1, <2>2, <3>1, <3>2, Together DEF IInv, NobodyWaitsForNothing
  <2>3. ASSUME NEW state \in Monitoring \cup {"UNKNOWN"}, Shows(state) PROVE IInv'
    <3>1. page' \in Shown /\ told' \in Transitions \cup {Nobody} /\ (page' \in Deaf => page' = told')
      BY <2>3, ShowsKeeps
    <3>2. Types'
      BY <1>1, <2>1, <3>1 DEF IInv, Types
    <3> QED BY <2>1, <3>1, <3>2, Together
  <2>4. \/ ~call[c].last /\ ShowsNothingNew
        \/ Shows("UNKNOWN")
        \/ call[c].at = "answered" /\ Shows(call[c].answer)
    <3>1. CASE ReceiveStatus(c)
      BY <1>1, <3>1 DEF ReceiveStatus
    <3>2. CASE ReceiveToggle(c)
      <4>1. CASE ~call[c].last
        BY <3>2, <4>1 DEF ReceiveToggle
      <4>2. CASE call[c].last /\ call[c].at = "failed"
        <5>1. call' = Numbered(c, "status")
          BY <3>2, <4>2 DEF ReceiveToggle
        <5>2. call'[c] = Idle /\ call'[c] = Sent("status")
          BY <1>3, <5>1 DEF Ends, Numbered, IInv, Types
        <5> QED BY <5>2, RequestsAreCalls DEF Operations
      <4>3. CASE call[c].last /\ call[c].at # "failed"
        BY <1>1, <3>2, <4>3 DEF ReceiveToggle
      <4> QED BY <4>1, <4>2, <4>3
    <3>3. CASE ReceiveSimulation(c)
      BY <1>1, <3>3 DEF ReceiveSimulation, Sane
    <3> QED BY <3>1, <3>2, <3>3 DEF Receive
  <2> QED BY <1>1, <2>2, <2>3, <2>4 DEF Sane
<1>4. CASE call' = Numbered(c, "status") /\ ShowsNothingNew
  <2>1. /\ call' \in [Calls \cup Others -> Call] /\ \A d \in Calls \cup Others : Sane(call'[d])
        /\ Awaited' = {c} /\ AwaitedOnce' /\ HolderIsHeld'
    BY <1>1, <1>4, NumberedRequest DEF Operations
  <2>2. Types'
    BY <1>1, <1>4, <2>1 DEF ShowsNothingNew, IInv, Types
  <2> QED BY <2>1, <2>2, Together
<1> QED BY <1>3, <1>4 DEF Receive, ReceiveStatus, ReceiveToggle, ReceiveSimulation

-----------------------------------------------------------------------------
(* What the server does, the other clients and the sockets. *)

\* A request goes on to the server or comes back, as it was or with an answer.
LEMMA UnderWayKeeps ==
  ASSUME IInv, NEW c \in Calls \cup Others, NEW stage \in {"held", "answered", "failed"}, call[c].at # "idle",
         NEW answer \in Monitoring \cup {call[c].answer}, stage = "answered" => answer \in Monitoring,
         call' = [call EXCEPT ![c].at = stage, ![c].answer = answer], UNCHANGED <<page, told>>,
         monitoring' \in Monitoring, holder' \in Calls \cup Others \cup {Nobody}, failures' \in 0 .. MaxFailures,
         UNCHANGED <<beats, clicks>>, HolderIsHeld'
  PROVE  IInv'
<1> DEFINE q == [call[c] EXCEPT !.at = stage, !.answer = answer]
<1>1. call[c] \in Call /\ Sane(call[c])
  BY DEF IInv, Types
<1>2. q \in Call /\ Sane(q) /\ q.at = stage /\ q.last = call[c].last
  BY <1>1 DEF Call, Sane
<1>3. call' = [call EXCEPT ![c] = q]
  OBVIOUS
<1> HIDE DEF q
<1>4. /\ call' \in [Calls \cup Others -> Call] /\ \A d \in Calls \cup Others : Sane(call'[d])
      /\ Awaited \subseteq Awaited' /\ AwaitedOnce'
  BY <1>2, <1>3, OneRequest
<1>5. Types'
  BY <1>4 DEF IInv, Types
<1> QED BY <1>4, <1>5, Together DEF IInv, NobodyWaitsForNothing

LEMMA FailKeeps ==
  ASSUME IInv, NEW c \in Calls, Fail(c)
  PROVE  IInv'
<1>1. /\ call[c].at \in {"sent", "answered"} /\ failures' \in 0 .. MaxFailures
      /\ UNCHANGED <<monitoring, holder, page, beats, clicks, told>> /\ call[c] \in Call
  BY PageConstantsOK DEF Fail, IInv, Types
<1>2. call' = [call EXCEPT ![c].at = "failed", ![c].answer = call[c].answer]
  BY <1>1 DEF Fail, Call, IInv, Types
<1>3. HolderIsHeld'
  BY <1>1, <1>2 DEF IInv, HolderIsHeld, Types
<1>4. monitoring' \in Monitoring /\ holder' \in Calls \cup Others \cup {Nobody}
  BY <1>1 DEF IInv, Types
<1> QED BY <1>1, <1>2, <1>3, <1>4, UnderWayKeeps

LEMMA ServeKeeps ==
  ASSUME IInv, NEW c \in Calls \cup Others, Serve(c)
  PROVE  IInv'
<1> USE DEF Answered
<1>1. /\ call[c] \in Call /\ c # Nobody /\ monitoring \in Monitoring /\ failures \in 0 .. MaxFailures
      /\ holder \in Calls \cup Others \cup {Nobody} /\ DOMAIN call = Calls \cup Others
  BY PageConstantsOK DEF IInv, Types
<1>2. UNCHANGED <<page, told, beats, clicks, failures>>
  BY DEF Serve, AnswerStatus, AnswerAtOnce, BeginToggle, EndToggle
<1>3. ASSUME AnswerStatus(c) \/ AnswerAtOnce(c) PROVE IInv'
  <2>1. call[c].at = "sent" /\ UNCHANGED <<monitoring, holder>>
        /\ call' = [call EXCEPT ![c].at = "answered", ![c].answer = monitoring]
    BY <1>3 DEF AnswerStatus, AnswerAtOnce
  <2>2. HolderIsHeld'
    BY <1>1, <2>1 DEF IInv, HolderIsHeld, Types
  <2> QED BY <1>1, <1>2, <2>1, <2>2, UnderWayKeeps
<1>4. ASSUME BeginToggle(c) PROVE IInv'
  <2>1. /\ call[c].at = "sent" /\ holder' = c /\ monitoring' \in Monitoring
        /\ call' = [call EXCEPT ![c].at = "held"]
    BY <1>4 DEF BeginToggle, Monitoring, Transitions
  <2>2. call' = [call EXCEPT ![c].at = "held", ![c].answer = call[c].answer]
    BY <1>1, <2>1 DEF Call
  <2>3. HolderIsHeld'
    BY <1>1, <2>1 DEF HolderIsHeld
  <2> QED BY <1>1, <1>2, <2>1, <2>2, <2>3, UnderWayKeeps
<1>5. ASSUME EndToggle(c) PROVE IInv'
  <2>1. /\ holder = c /\ holder' = Nobody /\ monitoring' \in Monitoring
        /\ call' = [call EXCEPT ![c].at = "answered", ![c].answer = monitoring']
    BY <1>5 DEF EndToggle, Monitoring
  <2>2. call[c].at = "held" /\ HolderIsHeld'
    BY <1>1, <2>1 DEF IInv, HolderIsHeld
  <2> QED BY <1>1, <1>2, <2>1, <2>2, UnderWayKeeps
<1> QED BY <1>3, <1>4, <1>5 DEF Serve

LEMMA OthersKeep ==
  ASSUME IInv, NEW c \in Others, OtherToggle(c)
  PROVE  IInv'
<1>1. PICK op \in Toggles : call' = [call EXCEPT ![c] = Sent(op)]
  BY DEF OtherToggle
<1>2. call[c].at = "idle" /\ UNCHANGED <<monitoring, holder, page, beats, clicks, failures, told>>
  BY RequestsAreCalls DEF OtherToggle
<1>3. Sent(op) \in Call /\ Sane(Sent(op))
  BY RequestsAreCalls DEF Operations
<1>4. /\ call' \in [Calls \cup Others -> Call] /\ \A d \in Calls \cup Others : Sane(call'[d])
      /\ Awaited' = Awaited /\ AwaitedOnce' /\ HolderIsHeld'
  BY <1>1, <1>2, <1>3, OneRequest, PageConstantsOK
<1>5. Types'
  BY <1>2, <1>4 DEF IInv, Types
<1> QED BY <1>2, <1>4, <1>5, Together DEF IInv, NobodyWaitsForNothing

LEMMA SocketsKeep ==
  ASSUME IInv, Heal \/ \E s \in Sockets : Beat(s) \/ Hear(s) \/ Close(s)
  PROVE  IInv'
<1>1. UNCHANGED <<holder, call, clicks, failures>>
  BY DEF Heal, Beat, Hear, Close
<1>2. Awaited' = Awaited /\ AwaitedOnce' /\ HolderIsHeld' /\ \A d \in Calls \cup Others : Sane(call'[d])
  BY <1>1 DEF IInv, Awaited, UnderWay, AwaitedOnce, HolderIsHeld
<1>3. monitoring' \in Monitoring
  BY DEF IInv, Types, Heal, Beat, Hear, Close, Monitoring
<1>4. beats' \in [Sockets -> (0 .. MaxBeats) \cup {Nobody}]
  BY PageConstantsOK DEF IInv, Types, Heal, Beat, Hear, Close
<1>5. /\ page' \in Shown /\ told' \in Transitions \cup {Nobody}
      /\ UNCHANGED <<page, told>> \/ (page' \in Deaf => page' = told')
  <2>1. CASE UNCHANGED <<page, told>>
    BY <2>1 DEF IInv, Types
  <2>2. CASE Shows("ACTIVE")
    BY <2>2, ShowsKeeps DEF Monitoring
  <2> QED BY <2>1, <2>2 DEF Heal, Beat, Hear, Close, ShowsNothingNew
<1>6. Types'
  BY <1>1, <1>3, <1>4, <1>5 DEF IInv, Types
<1> QED BY <1>2, <1>5, <1>6, Together DEF IInv, NobodyWaitsForNothing

LEMMA StepKeeps == IInv /\ [Next]_vars => IInv'
<1> SUFFICES ASSUME IInv, [Next]_vars PROVE IInv'
  OBVIOUS
<1>1. CASE UNCHANGED vars
  BY <1>1 DEF vars, IInv, Types, AwaitedOnce, Awaited, UnderWay, HolderIsHeld, NobodyWaitsForNothing
<1>2. CASE Next
  BY <1>2, AskKeeps, SimulateKeeps, FailKeeps, ReceiveKeeps, OthersKeep, ServeKeeps, SocketsKeep DEF Next
<1> QED BY <1>1, <1>2

-----------------------------------------------------------------------------
\* The variables have their types, and one request at most has the last number.
THEOREM PageTypes == Spec => []PageTypeOK
<1>1. IInv => PageTypeOK
  <2> SUFFICES ASSUME IInv PROVE Cardinality(Awaited) <= 1
    BY DEF IInv, Types, PageTypeOK
  <2>1. CASE Awaited = {}
    BY <2>1, FS_EmptySet
  <2>2. ASSUME NEW c \in Awaited PROVE Cardinality(Awaited) <= 1
    <3>1. Awaited = {c}
      BY <2>2 DEF IInv, AwaitedOnce
    <3> QED BY <3>1, FS_Singleton
  <2> QED BY <2>1, <2>2
<1> QED BY <1>1, InitHolds, StepKeeps, PTL DEF Spec

\* app/static/js/app.js: a page that refuses clicks and heartbeats awaits an answer that it will
\* take or was told of the transition, for any requests, sockets, clicks, failures and clients.
THEOREM NobodyWaits == Spec => []NobodyWaitsForNothing
<1>1. IInv => NobodyWaitsForNothing
  BY DEF IInv
<1> QED BY <1>1, InitHolds, StepKeeps, PTL DEF Spec

-----------------------------------------------------------------------------
(* The other end: every listener is served, for any number of sockets and broadcasts. *)

\* A broadcast holds no client that is there for dead.
DeadAreGone == \A b \in Casters : cast[b].dead \cap up = {}

\* A broadcast has yet to reach some of those it is owed to, and has reached the others.
CountsAreTurns ==
  \A b \in Casters :
    /\ cast[b].left \subseteq owed[b]
    /\ cast[b].kind = "none" => cast[b].left = {}
    /\ cast[b].kind # "none" => \A s \in cast[b].left : sent[b][s] = 0
    /\ cast[b].kind # "none" =>
         \A s \in (owed[b] \cap up) \ cast[b].left : sent[b][s] = IF Withheld(b, s) THEN 0 ELSE 1

HInv == HubTypeOK /\ RegistryIsWhole /\ DeadAreGone /\ CountsAreTurns

LEMMA HubInitHolds == HubInit => HInv
  BY DEF HubInit, HInv, HubTypeOK, RegistryIsWhole, DeadAreGone, CountsAreTurns, Cast, NoCast

LEMMA SocketStepKeeps == ASSUME HInv, NEW s \in Connections, SocketStep(s) PROVE HInv'
<1> USE DEF HInv, HubTypeOK
<1>1. CASE Accept(s)
  BY <1>1 DEF Accept, RegistryIsWhole, DeadAreGone, CountsAreTurns, Withheld
<1>2. CASE Connect(s)
  BY <1>2 DEF Connect, RegistryIsWhole, DeadAreGone, CountsAreTurns, Withheld
<1>3. CASE Lose(s)
  BY <1>3 DEF Lose, RegistryIsWhole, DeadAreGone, CountsAreTurns, Withheld
<1>4. CASE Disconnect(s)
  BY <1>4 DEF Disconnect, RegistryIsWhole, DeadAreGone, CountsAreTurns, Withheld
<1>5. QED  BY <1>1, <1>2, <1>3, <1>4, SocketStep(s) DEF SocketStep

\* A turn lets a socket off the copy; sent says whether it was sent the message.
LEMMA TurnKeeps ==
  ASSUME HInv, NEW b \in Casters, NEW s \in Connections, TurnOf(b, s) PROVE HInv'
<1> USE DEF HInv, HubTypeOK
<1>1. s \in cast[b].left /\ cast[b].kind # "none" /\ sent[b][s] = 0
  BY TurnOf(b, s) DEF TurnOf, Pass, Send, SendFails, CountsAreTurns
<1>2. CASE Pass(b, s)
  <2>1. HubTypeOK' /\ RegistryIsWhole' /\ DeadAreGone'
    BY <1>2 DEF Pass, Turn, Cast, Kinds, RegistryIsWhole, DeadAreGone
  <2>2. CountsAreTurns'
    BY <1>1, <1>2 DEF Pass, Turn, Cast, CountsAreTurns, Withheld
  <2>3. QED  BY <2>1, <2>2
<1>3. CASE Send(b, s)
  <2>1. HubTypeOK' /\ RegistryIsWhole' /\ DeadAreGone'
    BY <1>3 DEF Send, Turn, Cast, Kinds, RegistryIsWhole, DeadAreGone
  <2>2. CountsAreTurns'
    BY <1>1, <1>3 DEF Send, Turn, Cast, CountsAreTurns, Withheld
  <2>3. QED  BY <2>1, <2>2
<1>4. CASE SendFails(b, s)
  <2>1. HubTypeOK' /\ RegistryIsWhole' /\ DeadAreGone'
    BY <1>4 DEF SendFails, Turn, Cast, Kinds, RegistryIsWhole, DeadAreGone
  <2>2. CountsAreTurns'
    BY <1>1, <1>4 DEF SendFails, Turn, Cast, CountsAreTurns, Withheld
  <2>3. QED  BY <2>1, <2>2
<1>5. QED  BY <1>2, <1>3, <1>4, TurnOf(b, s) DEF TurnOf

LEMMA BeginKeeps ==
  ASSUME HInv, NEW b \in Casters, NEW kind \in Kinds, Begin(b, kind) PROVE HInv'
<1> USE DEF HInv, HubTypeOK
<1>1. HubTypeOK' /\ RegistryIsWhole' /\ DeadAreGone'
  BY DEF Begin, Cast, Kinds, RegistryIsWhole, DeadAreGone
<1>2. CountsAreTurns'
  BY DEF Begin, Cast, Kinds, CountsAreTurns, Withheld
<1>3. QED  BY <1>1, <1>2

LEMMA EndKeeps ==
  ASSUME HInv, NEW b \in Casters, End(b) \/ Cancel(b) PROVE HInv'
<1> USE DEF HInv, HubTypeOK
<1>1. cast' = [cast EXCEPT ![b] = NoCast] /\ cast[b] \in Cast /\ UNCHANGED <<at, up, owed, sent>>
  BY DEF End, Cancel
<1>2. NoCast \in Cast
  BY DEF NoCast, Cast
<1>3. active' = active \/ active' = active \ cast[b].dead
  BY DEF End, Cancel
<1>4. RegistryIsWhole' /\ active' \subseteq Connections
  BY <1>1, <1>3 DEF RegistryIsWhole, DeadAreGone
<1>5. HubTypeOK' /\ DeadAreGone'
  BY <1>1, <1>2, <1>4 DEF NoCast, DeadAreGone
<1>6. CountsAreTurns'
  BY <1>1 DEF NoCast, CountsAreTurns, Withheld
<1>7. QED  BY <1>4, <1>5, <1>6

\* What HInv says of the broadcasts that have gone through their copies.
LEMMA InvImplies == HInv => HubTypeOK /\ ListenersAreServed
  BY DEF HInv, HubTypeOK, CountsAreTurns, ListenersAreServed, DeliveryIsWhole

\* A client that was registered when a broadcast began and is still there gets its message
\* exactly once, and the registry loses nobody: for any number of sockets and broadcasters.
THEOREM ListenersServed == HubSpec => [](HubTypeOK /\ ListenersAreServed)
<1>1. ASSUME HInv, [HubNext]_hubvars PROVE HInv'
  <2>1. CASE UNCHANGED hubvars
    BY <1>1, <2>1 DEF hubvars, HInv, HubTypeOK, RegistryIsWhole, DeadAreGone, CountsAreTurns, Withheld
  <2>2. CASE HubNext
    BY <1>1, <2>2, SocketStepKeeps, TurnKeeps, BeginKeeps, EndKeeps DEF HubNext
  <2>3. QED  BY <1>1, <2>1, <2>2
<1>2. QED  BY <1>1, HubInitHolds, InvImplies, PTL DEF HubSpec
=============================================================================
