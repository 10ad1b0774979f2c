------------------------------ MODULE HostAudit ------------------------------
(***************************************************************************)
(* One full audit of HostSecuritySensor (app/security/host_sensor.py) over *)
(* a host that changes while it is looked at.  The audit reads the host in *)
(* parts, one after another: each process, the list of sockets and, for a  *)
(* listener at risk, the interfaces and then the firewall (subprocesses of *)
(* seconds), the firewall again for its own finding, and the event log.    *)
(* Any read may fail.  Signatures that were seen silence a finding.        *)
(*                                                                         *)
(* Not here: cancellation and the commit (MonitorLifecycle), the startup   *)
(* folder and the life of signatures (SensorSignatures), what an event     *)
(* becomes in the database (AlertRecurrence).                              *)
(***************************************************************************)
EXTENDS HostDetections, IPClassifier

CONSTANTS
  Processes, Profile,   \* processes, and what can be read of each (HostDetections)
  Suppressed,           \* PROCESS_SUPPRESSIONS
  Sockets, Socket,      \* sockets, and of each: status, bound, port, owner, remote
  DevRuntimes,          \* processes whose name is that of a development runtime
  Nics, NicAddress,     \* interfaces and their addresses
  Entries,              \* entries that may be written to the event log
  MaxLog,               \* how many entries one query of the log returns
  OS,                   \* os_type
  InitialHosts,         \* states of the host when the audit begins
  InitialSeen,          \* sets of signatures that may have been seen then
  MaxChanges,           \* bound: states of the host during the audit, beside the first
  MaxFailures           \* bound: kinds of read that fail during the audit

Host == [running : SUBSET Processes, open : SUBSET Sockets, up : SUBSET Nics,
         profiles : SUBSET {"ON", "OFF"}, log : SUBSET Entries]

ASSUME HostAuditConstantsOK ==
  /\ InitialHosts \subseteq Host
  /\ IsFiniteSet(Entries) /\ MaxLog \in Nat

VARIABLES
  host,      \* the host: running processes, open sockets, interfaces up, profiles, log
  phase,     \* what the audit is doing
  todo,      \* the processes or sockets it has yet to look at
  look,      \* the listener being judged, and the kinds of interface read for it
  events,    \* raw_events
  seen,      \* seen_signatures
  before,    \* history: the signatures that were seen when the audit began
  during,    \* history: the states of the host since the audit began
  failed     \* history: what could not be read

vars == <<host, phase, todo, look, events, seen, before, during, failed>>

NoWhy == [event |-> "", of |-> ""]
Unjudged == [reach |-> "", tier |-> "", mitigation |-> "", confidence |-> ""]
Event(kind, of, why, judged) == [kind |-> kind, of |-> of, why |-> why, judged |-> judged]

\* What silences an event: of a listener its port and process, of a connection its remote end too.
Signature(e) ==
  CASE e.kind = "listen" -> <<e.kind, Socket[e.of].port, Socket[e.of].owner>>
    [] e.kind = "outbound" -> <<e.kind, <<Socket[e.of].remote, Socket[e.of].port>>, Socket[e.of].owner>>
    [] OTHER -> <<e.kind, e.of, e.why>>

NoLook == [socket |-> "", stage |-> "none", nets |-> {}]

\* An audit may begin on any host of InitialHosts and with any signatures of InitialSeen seen.
Init ==
  /\ host \in InitialHosts /\ seen \in InitialSeen /\ before = seen /\ during = {host}
  /\ phase = "idle" /\ todo = {} /\ look = NoLook /\ events = {} /\ failed = {}

-----------------------------------------------------------------------------
\* The host changes in one respect.
Become(h) ==
  /\ phase \notin {"idle", "ingest"} /\ h # host /\ Cardinality(during) <= MaxChanges
  /\ host' = h /\ during' = during \cup {h}
  /\ UNCHANGED <<phase, todo, look, events, seen, before, failed>>

Toggle(S, x) == IF x \in S THEN S \ {x} ELSE S \cup {x}

Change ==
  \/ \E p \in Processes : Become([host EXCEPT !.running = Toggle(@, p)])
  \/ \E s \in Sockets : Become([host EXCEPT !.open = Toggle(@, s)])
  \/ \E n \in Nics : Become([host EXCEPT !.up = Toggle(@, n)])
  \/ \E x \in SUBSET {"ON", "OFF"} :
       (Cardinality(x) = 1 \/ (x # {} /\ OS = "Windows")) /\ Become([host EXCEPT !.profiles = x])
  \/ \E l \in Entries : Become([host EXCEPT !.log = Toggle(@, l)])

\* A signature of an earlier audit expires.
Forget(sig) ==
  /\ sig \in before \cap seen /\ phase # "ingest" /\ seen' = seen \ {sig}
  /\ UNCHANGED <<host, phase, todo, look, events, before, during, failed>>

-----------------------------------------------------------------------------
\* Of several findings those that were not seen become events.
Report(found) ==
  LET fresh == {e \in found : Signature(e) \notin seen}
  IN events' = events \cup fresh /\ seen' = seen \cup {Signature(e) : e \in fresh}

Miss(what) == Cardinality(failed) < MaxFailures /\ failed' = failed \cup {what} /\ UNCHANGED <<events, seen>>
Silent == UNCHANGED <<events, seen, failed>>

\* audit_processes begins with the processes that are running.
Start ==
  /\ phase = "idle" /\ phase' = "processes"
  /\ todo' = host.running
  /\ UNCHANGED <<host, look, events, seen, before, during, failed>>

ProcessEvents(p) == {Event("process", p, f, Unjudged) : f \in Detects(Suppressed, Profile[p])}
Listener(s, judged) == Event("listen", s, NoWhy, judged)
Connection(s) == Event("outbound", s, NoWhy, Unjudged)
FirewallEvent == Event("firewall", OS, NoWhy, Unjudged)
LogEvent(l) == Event("log", l, NoWhy, Unjudged)

\* Mutant: one process that cannot be read ends the scan.
AnalyzeOrStop(p) ==
  /\ phase = "processes" /\ p \in todo
  /\ \/ p \in host.running /\ Report(ProcessEvents(p)) /\ todo' = todo \ {p} /\ UNCHANGED failed
     \/ p \in host.running /\ Miss(p) /\ todo' = {}
     \/ p \notin host.running /\ Silent /\ todo' = {}
  /\ UNCHANGED <<host, phase, look, before, during>>

\* A process may be gone by now, or may not be read.
AnalyzeProcess(p) ==
  /\ phase = "processes" /\ p \in todo /\ todo' = todo \ {p}
  /\ \/ p \in host.running /\ Report(ProcessEvents(p)) /\ UNCHANGED failed
     \/ p \in host.running /\ Miss(p)
     \/ p \notin host.running /\ Silent
  /\ UNCHANGED <<host, phase, look, before, during>>

\* audit_network_sockets begins with one list of the sockets.
ListSockets ==
  /\ phase = "processes" /\ todo = {} /\ phase' = "sockets"
  /\ \/ todo' = host.open /\ Silent
     \/ todo' = {} /\ Miss("sockets")
  /\ UNCHANGED <<host, look, before, during>>

AtRisk(s) ==
  Socket[s].status = "LISTEN" /\ Socket[s].bound = "wildcard" /\ Socket[s].port \in HIGH_RISK_PORTS
Outbound(s) ==
  Socket[s].status = "ESTABLISHED" /\ IsPublic(Socket[s].remote) /\ Socket[s].port \in OutboundPorts
DevServer(s) == Socket[s].port \in DevPorts /\ Socket[s].owner \in DevRuntimes

\* The next socket.  A development server is passed over when its process can be named.
LookAt(s) ==
  /\ phase = "sockets" /\ look = NoLook /\ s \in todo /\ todo' = todo \ {s}
  /\ \/ AtRisk(s) /\ look' = [socket |-> s, stage |-> "interfaces", nets |-> {}] /\ Silent
     \/ Outbound(s) /\ Report({Connection(s)}) /\ UNCHANGED <<look, failed>>
     \/ /\ AtRisk(s) => DevServer(s) /\ Socket[s].owner \in host.running
        /\ ~Outbound(s) /\ UNCHANGED look /\ Silent
  /\ UNCHANGED <<host, phase, before, during>>

\* The kinds of address of the interfaces that are up, loopback left out.
NetKinds(up) ==
  {IF IsPublic(NicAddress[n]) THEN "public" ELSE "local" :
     n \in {n \in up : Classify(NicAddress[n]) # "LOOPBACK"}}

\* Mutant: interfaces that are down count too.
ReadAllInterfaces ==
  /\ look.stage = "interfaces"
  /\ look' = [look EXCEPT !.stage = "firewall", !.nets = NetKinds(Nics)] /\ Silent
  /\ UNCHANGED <<host, phase, todo, before, during>>

\* assess_socket_reachability: first the interfaces; a failure leaves none.
ReadInterfaces ==
  /\ look.stage = "interfaces"
  /\ \/ look' = [look EXCEPT !.stage = "firewall", !.nets = NetKinds(host.up)] /\ Silent
     \/ look' = [look EXCEPT !.stage = "firewall"] /\ Miss("interfaces")
  /\ UNCHANGED <<host, phase, todo, before, during>>

Judge(nets, fw, rule) ==
  LET reach == Reachability("wildcard", nets)
  IN [reach |-> reach, tier |-> ExposureTier(reach, Mitigation(fw)), mitigation |-> Mitigation(fw),
      confidence |-> Confidence(reach, FirewallConfidence(fw, rule))]

\* Then the firewall; a failure leaves it indeterminate.
JudgeListener(rule) ==
  /\ look.stage = "firewall" /\ look' = NoLook
  /\ \E fw \in {FirewallEnabled(host.profiles), "indeterminate"} :
       /\ Report({Listener(look.socket, Judge(look.nets, fw, rule))})
       /\ \/ fw = FirewallEnabled(host.profiles) /\ UNCHANGED failed
          \/ /\ fw = "indeterminate" /\ Cardinality(failed) < MaxFailures
             /\ failed' = failed \cup {"firewall"}
  /\ UNCHANGED <<host, phase, todo, before, during>>

\* audit_firewall_posture
AuditPosture ==
  /\ phase = "sockets" /\ look = NoLook /\ todo = {} /\ phase' = "log"
  /\ \/ /\ OS \in {"Windows", "Linux"} /\ "OFF" \in host.profiles
        /\ Report({FirewallEvent}) /\ UNCHANGED failed
     \/ (OS \notin {"Windows", "Linux"} \/ "OFF" \notin host.profiles) /\ Silent
     \/ OS \in {"Windows", "Linux"} /\ Miss("posture")
  /\ UNCHANGED <<host, todo, look, before, during>>

\* audit_event_logs: at most MaxLog entries.  The events then go to _ingest_events.
AuditLog ==
  /\ phase = "log" /\ phase' = "ingest"
  /\ \/ OS # "Windows" /\ Silent
     \/ OS = "Windows" /\ Miss("log")
     \/ /\ OS = "Windows" /\ UNCHANGED failed
        /\ \E found \in SUBSET host.log :
             /\ found = host.log \/ Cardinality(found) = MaxLog
             /\ Cardinality(found) <= MaxLog
             /\ Report({LogEvent(l) : l \in found})
  /\ UNCHANGED <<host, todo, look, before, during>>

Next ==
  \/ Change \/ Start \/ ListSockets \/ ReadInterfaces \/ AuditPosture \/ AuditLog
  \/ \E sig \in before : Forget(sig)
  \/ \E p \in Processes : AnalyzeProcess(p)
  \/ \E s \in Sockets : LookAt(s)
  \/ \E rule \in BOOLEAN : JudgeListener(rule)

Spec == Init /\ [][Next]_vars

-----------------------------------------------------------------------------
\* The variables have their types, and what is being looked at was there during the audit.
HostAuditTypeOK ==
  /\ host \in Host /\ host \in during /\ during \subseteq Host
  /\ phase \in {"idle", "processes", "sockets", "log", "ingest"}
  /\ look.stage \in {"none", "interfaces", "firewall"}
  /\ look.stage # "none" => AtRisk(look.socket) /\ \E h \in during : look.socket \in h.open
  /\ phase = "sockets" => \A s \in todo : \E h \in during : s \in h.open

\* States the firewall had while the audit ran, and what a failed read of it leaves.
FirewallTaken ==
  {FirewallEnabled(h.profiles) : h \in during} \cup IF "firewall" \in failed THEN {"indeterminate"} ELSE {}

\* Kinds of interface that were up at some time of the audit, and all the time; a read of
\* them that failed shows none.
EverUp == NetKinds(UNION {h.up : h \in during})
AlwaysUp == IF "interfaces" \in failed THEN {} ELSE NetKinds({n \in Nics : \A h \in during : n \in h.up})

RankWith(nets, fw) == Rank(Tier("wildcard", nets, fw))

\* The tier of a listener lies between the least and the most exposed the host can have been.
TierIsWithin(tier) ==
  /\ \E fw \in FirewallTaken : Rank(tier) <= RankWith(EverUp, fw)
  /\ \E fw \in FirewallTaken : RankWith(AlwaysUp, fw) <= Rank(tier)

WasTrue(e) ==
  \E h \in during :
    \/ e.kind = "process" /\ e.of \in h.running /\ e.why \in Detects(Suppressed, Profile[e.of])
    \/ e.kind = "listen" /\ e.of \in h.open /\ AtRisk(e.of)
    \/ e.kind = "outbound" /\ e.of \in h.open /\ Outbound(e.of)
    \/ e.kind = "firewall" /\ "OFF" \in h.profiles
    \/ e.kind = "log" /\ e.of \in h.log

\* However the host changes between the reads of one audit, and whichever of them fail: every
\* finding was true at some moment of that audit, and although the exposure of a listener is
\* put together from interfaces read at one time and a firewall read at another, its tier is
\* never beyond what the states the host went through allow.
FindingsWereTrue ==
  \A e \in events : WasTrue(e) /\ (e.kind = "listen" => TierIsWithin(e.judged.tier))

\* What was so all through the audit and could be read.
LastingProcesses == {p \in Processes \ failed : \A h \in during : p \in h.running}
LastingSockets == {s \in Sockets : "sockets" \notin failed /\ \A h \in during : s \in h.open}
LastingListeners == {s \in LastingSockets : AtRisk(s) /\ ~DevServer(s)}
LastingConnections == {s \in LastingSockets : Outbound(s)}
LastingFirewall ==
  OS \in {"Windows", "Linux"} /\ "posture" \notin failed /\ \A h \in during : "OFF" \in h.profiles
LastingEntries ==
  {l \in Entries : OS = "Windows" /\ "log" \notin failed
                   /\ \A h \in during : l \in h.log /\ Cardinality(h.log) <= MaxLog}

Lasting ==
  (UNION {ProcessEvents(p) : p \in LastingProcesses})
  \cup {Listener(s, Unjudged) : s \in LastingListeners}
  \cup {Connection(s) : s \in LastingConnections}
  \cup {e \in {FirewallEvent} : LastingFirewall}
  \cup {LogEvent(l) : l \in LastingEntries}

\* A finding that was there all through the audit is among its events, unless it could not be
\* read or its signature was seen before the audit: what goes, comes or fails beside it hides nothing.
LastingIsReported ==
  phase = "ingest" =>
    \A e \in Lasting : \/ Signature(e) \in before
                       \/ \E x \in events : Signature(x) = Signature(e)
=============================================================================
