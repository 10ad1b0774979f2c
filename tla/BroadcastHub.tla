---------------------------- MODULE BroadcastHub ----------------------------
(***************************************************************************)
(* The WebSocket side of ThreatStreamManager (app/security/stream.py) and  *)
(* its endpoint (app/main.py): sockets register and leave while broadcasts *)
(* of the monitor loop, the simulator and requests await one send after    *)
(* another over a copy of the registry.  Sections under the asyncio lock   *)
(* await nothing, so they are single steps.                                *)
(***************************************************************************)
EXTENDS Naturals

CONSTANTS
  Connections,   \* active_connections are some of these; each is used once
  Privileged,    \* those of an administrator or an analyst who is signed in
  Casters,       \* tasks that broadcast: the loops and requests
  Loops          \* the casters that a toggle cancels

ASSUME HubConstantsOK == Privileged \subseteq Connections /\ Loops \subseteq Casters

VARIABLES
  at,            \* how far the endpoint of each socket is
  up,            \* the sockets whose client is there
  active,        \* active_connections
  cast,          \* the broadcasts under way
  owed,          \* history: of each broadcast, the sockets that were registered when it began
  sent           \* history: of each broadcast, how often each socket was sent its message

hubvars == <<at, up, active, cast, owed, sent>>

\* "genuine" messages are sensitive, heartbeats have a form for everyone, others are open.
Kinds == {"genuine", "heartbeat", "open"}

\* A broadcast: the connections of its copy that it has yet to reach, those whose send failed.
Cast == [kind : Kinds \cup {"none"}, left : SUBSET Connections, dead : SUBSET Connections]
NoCast == [kind |-> "none", left |-> {}, dead |-> {}]

HubInit ==
  /\ at = [s \in Connections |-> "new"] /\ up = Connections /\ active = {}
  /\ cast = [b \in Casters |-> NoCast]
  /\ owed = [b \in Casters |-> {}]
  /\ sent = [b \in Casters |-> [s \in Connections |-> 0]]

-----------------------------------------------------------------------------
\* The endpoint has let the client in, and accepts.
Accept(s) ==
  /\ at[s] = "new" /\ at' = [at EXCEPT ![s] = "accepted"]
  /\ UNCHANGED <<up, active, cast, owed, sent>>

\* connect, after accept
Connect(s) ==
  /\ at[s] = "accepted" /\ at' = [at EXCEPT ![s] = "open"]
  /\ active' = active \cup {s}
  /\ UNCHANGED <<up, cast, owed, sent>>

\* The client goes, or its connection is lost.
Lose(s) ==
  /\ s \in up /\ up' = up \ {s}
  /\ UNCHANGED <<at, active, cast, owed, sent>>

\* The endpoint's receive_text raises; disconnect.
Disconnect(s) ==
  /\ at[s] = "open" /\ s \notin up
  /\ at' = [at EXCEPT ![s] = "closed"] /\ active' = active \ {s}
  /\ UNCHANGED <<up, cast, owed, sent>>

-----------------------------------------------------------------------------
\* broadcast takes a copy of the registry.
Begin(b, kind) ==
  /\ cast[b].kind = "none"
  /\ cast' = [cast EXCEPT ![b] = [kind |-> kind, left |-> active, dead |-> {}]]
  /\ owed' = [owed EXCEPT ![b] = active]
  /\ sent' = [sent EXCEPT ![b] = [s \in Connections |-> 0]]
  /\ UNCHANGED <<at, up, active>>

\* Genuine telemetry is withheld from those without privileges.
Withheld(b, s) == cast[b].kind = "genuine" /\ s \notin Privileged

\* Of the connections in the copy s has had its turn.
Turn(b, s, dead) ==
  cast' = [cast EXCEPT ![b] = [kind |-> cast[b].kind, left |-> cast[b].left \ {s}, dead |-> dead]]

Pass(b, s) ==
  /\ s \in cast[b].left /\ Withheld(b, s)
  /\ Turn(b, s, cast[b].dead)
  /\ UNCHANGED <<at, up, active, owed, sent>>

\* A send that succeeds; one to a client that has just gone may be lost unnoticed.
Send(b, s) ==
  /\ s \in cast[b].left /\ ~Withheld(b, s)
  /\ Turn(b, s, cast[b].dead)
  /\ sent' = [sent EXCEPT ![b][s] = @ + 1]
  /\ UNCHANGED <<at, up, active, owed>>

\* Mutant: the first send that fails ends the broadcast.
SendFailsAll(b, s) ==
  /\ s \in cast[b].left /\ ~Withheld(b, s) /\ s \notin up
  /\ cast' = [cast EXCEPT ![b] = [kind |-> cast[b].kind, left |-> {}, dead |-> cast[b].dead \cup {s}]]
  /\ UNCHANGED <<at, up, active, owed, sent>>

SendFails(b, s) ==
  /\ s \in cast[b].left /\ ~Withheld(b, s) /\ s \notin up
  /\ Turn(b, s, cast[b].dead \cup {s})
  /\ UNCHANGED <<at, up, active, owed, sent>>

\* At the end, those whose send failed are removed.
End(b) ==
  /\ cast[b].kind # "none" /\ cast[b].left = {}
  /\ active' = active \ cast[b].dead
  /\ cast' = [cast EXCEPT ![b] = NoCast]
  /\ UNCHANGED <<at, up, owed, sent>>

\* A toggle cancels the loop: CancelledError passes the handlers, and nobody is removed.
Cancel(b) ==
  /\ b \in Loops /\ cast[b].left # {}
  /\ cast' = [cast EXCEPT ![b] = NoCast]
  /\ UNCHANGED <<at, up, active, owed, sent>>

SocketStep(s) == Accept(s) \/ Connect(s) \/ Lose(s) \/ Disconnect(s)
TurnOf(b, s) == Pass(b, s) \/ Send(b, s) \/ SendFails(b, s)

HubNext ==
  \/ \E s \in Connections : SocketStep(s)
  \/ \E b \in Casters, s \in Connections : TurnOf(b, s)
  \/ \E b \in Casters, kind \in Kinds : Begin(b, kind)
  \/ \E b \in Casters : End(b) \/ Cancel(b)

HubSpec == HubInit /\ [][HubNext]_hubvars

-----------------------------------------------------------------------------
\* The variables have their types.
HubTypeOK ==
  /\ at \in [Connections -> {"new", "accepted", "open", "closed"}]
  /\ up \subseteq Connections /\ active \subseteq Connections
  /\ cast \in [Casters -> Cast]
  /\ owed \in [Casters -> SUBSET Connections] /\ sent \in [Casters -> [Connections -> Nat]]

\* The registry has every socket that is open, whatever broadcasts removed from it while
\* others registered, and none that is closed.
RegistryIsWhole ==
  /\ \A s \in up : at[s] = "open" => s \in active
  /\ \A s \in active : at[s] = "open"

\* A broadcast that has gone through its copy has reached every client that was registered
\* when it began and is still there exactly once, and with genuine telemetry only those with
\* privileges: others that came, went, failed or were slow meanwhile made no difference.
DeliveryIsWhole ==
  \A b \in Casters : cast[b].kind # "none" /\ cast[b].left = {} =>
    \A s \in owed[b] \cap up : sent[b][s] = IF Withheld(b, s) THEN 0 ELSE 1

ListenersAreServed == RegistryIsWhole /\ DeliveryIsWhole
=============================================================================
