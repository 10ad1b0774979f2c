--------------------------- MODULE HostAuditProofs ---------------------------
(***************************************************************************)
(* Proof that the findings of an audit were true, for any host and any     *)
(* number of changes.  The exposure of a listener is the difficult part:   *)
(* the invariant says that the interfaces read for it lie between those    *)
(* that were up all the time and those that were up at some time, and the  *)
(* tier is monotone in them.                                               *)
(***************************************************************************)
EXTENDS HostAudit, FiniteSetTheorems, TLAPS

\* What has been read for the listener being judged.
LookIsWithin ==
  /\ look = [socket |-> look.socket, stage |-> look.stage, nets |-> look.nets]
  /\ look.stage = "interfaces" => look.nets = {}
  /\ look.stage = "firewall" => AlwaysUp \subseteq look.nets /\ look.nets \subseteq EverUp

\* The tier of a listener has a rank.
Ranked == \A e \in events : e.kind = "listen" => Rank(e.judged.tier) \in Nat

IInv == HostAuditTypeOK /\ LookIsWithin /\ Ranked /\ FindingsWereTrue

\* A step that leaves behind no state of the host and forgets no failure.
Onward == during \subseteq during' /\ failed \subseteq failed'

\* The rank of a wildcard listener, as a table.
LEMMA RankTable ==
  ASSUME NEW nets, NEW fw
  PROVE  RankWith(nets, fw) =
           IF "public" \in nets THEN (IF Mitigation(fw) # "FILTERED" THEN 4 ELSE 3)
           ELSE IF nets = {} THEN 1 ELSE (IF Mitigation(fw) # "FILTERED" THEN 3 ELSE 2)
  <1> DEFINE reach == Reachability("wildcard", nets)
             tier == ExposureTier(reach, Mitigation(fw))
  <1>1. reach = IF "public" \in nets THEN "INTERNET_EXPOSED"
                ELSE IF nets = {} THEN "HOST_ISOLATED" ELSE "LAN_ACCESSIBLE"
    BY DEF Reachability
  <1>2. /\ reach = "INTERNET_EXPOSED" => tier = IF Mitigation(fw) # "FILTERED" THEN "CRITICAL" ELSE "HIGH"
        /\ reach = "LAN_ACCESSIBLE" => tier = IF Mitigation(fw) # "FILTERED" THEN "HIGH" ELSE "MEDIUM"
        /\ reach = "HOST_ISOLATED" => tier = "LOW"
    <2> HIDE DEF reach
    <2> QED BY DEF ExposureTier
  <1>3. RankWith(nets, fw) = Rank(tier)
    BY DEF RankWith, Tier
  <1>4. Rank("LOW") = 1 /\ Rank("MEDIUM") = 2 /\ Rank("HIGH") = 3 /\ Rank("CRITICAL") = 4
    BY DEF Rank
  <1> HIDE DEF reach, tier
  <1> QED BY <1>1, <1>2, <1>3, <1>4

\* More kinds of interface never lower the tier of a wildcard listener, and ranks are numbers.
LEMMA TierMonotone ==
  ASSUME NEW A, NEW B, A \subseteq B, B \subseteq {"public", "local"}, NEW fw
  PROVE  RankWith(A, fw) <= RankWith(B, fw) /\ RankWith(A, fw) \in Nat
  <1>1. RankWith(A, fw) =
          IF "public" \in A THEN (IF Mitigation(fw) # "FILTERED" THEN 4 ELSE 3)
          ELSE IF A = {} THEN 1 ELSE (IF Mitigation(fw) # "FILTERED" THEN 3 ELSE 2)
    BY RankTable
  <1>2. RankWith(B, fw) =
          IF "public" \in B THEN (IF Mitigation(fw) # "FILTERED" THEN 4 ELSE 3)
          ELSE IF B = {} THEN 1 ELSE (IF Mitigation(fw) # "FILTERED" THEN 3 ELSE 2)
    BY RankTable
  <1>3. A = {} \/ "public" \in B \/ (B # {} /\ "public" \notin A)
    OBVIOUS
  <1>4. "public" \in A => "public" \in B
    OBVIOUS
  <1> QED BY <1>1, <1>2, <1>3, <1>4

\* The kinds of more interfaces are more kinds.
LEMMA KindsMonotone ==
  /\ \A A, B : A \subseteq B => NetKinds(A) \subseteq NetKinds(B)
  /\ \A A : NetKinds(A) \subseteq {"public", "local"}
  BY DEF NetKinds

\* As the audit goes on, what may have been up grows, what was up throughout shrinks, and
\* more states of the firewall may have been taken.
LEMMA BoundsWiden ==
  ASSUME Onward
  PROVE  /\ EverUp \subseteq EverUp' /\ AlwaysUp' \subseteq AlwaysUp
         /\ FirewallTaken \subseteq FirewallTaken'
<1>1. EverUp \subseteq EverUp'
  BY KindsMonotone DEF EverUp, Onward
<1>2. {n \in Nics : \A h \in during' : n \in h.up} \subseteq {n \in Nics : \A h \in during : n \in h.up}
  BY DEF Onward
<1>3. AlwaysUp' \subseteq AlwaysUp
  BY <1>2, KindsMonotone DEF AlwaysUp, Onward
<1>4. FirewallTaken \subseteq FirewallTaken'
  BY DEF FirewallTaken, Onward
<1> QED BY <1>1, <1>3, <1>4

LEMMA KindsAreTwo == AlwaysUp \subseteq {"public", "local"} /\ EverUp \subseteq {"public", "local"}
  BY KindsMonotone DEF AlwaysUp, EverUp

\* A finding that was true stays one that was true.
LEMMA TruthLasts ==
  ASSUME Onward, NEW e, WasTrue(e)
  PROVE  WasTrue(e)'
  BY DEF Onward, WasTrue

\* A tier within the bounds stays within them.
LEMMA WithinLasts ==
  ASSUME Onward, NEW t, Rank(t) \in Nat, TierIsWithin(t)
  PROVE  TierIsWithin(t)'
<1>1. PICK fw \in FirewallTaken : Rank(t) <= RankWith(EverUp, fw)
  BY DEF TierIsWithin
<1>2. PICK gw \in FirewallTaken : RankWith(AlwaysUp, gw) <= Rank(t)
  BY DEF TierIsWithin
<1>3. fw \in FirewallTaken' /\ gw \in FirewallTaken'
  BY BoundsWiden, <1>1, <1>2
<1>4. EverUp' \subseteq {"public", "local"} /\ AlwaysUp \subseteq {"public", "local"}
  BY KindsAreTwo, KindsMonotone DEF EverUp
<1>5. AlwaysUp' \subseteq AlwaysUp /\ EverUp \subseteq EverUp' /\ EverUp \subseteq {"public", "local"}
  BY BoundsWiden, KindsAreTwo
<1>6. /\ RankWith(EverUp, fw) <= RankWith(EverUp', fw)
      /\ RankWith(EverUp, fw) \in Nat /\ RankWith(EverUp', fw) \in Nat
  BY <1>4, <1>5, TierMonotone
<1>7. /\ RankWith(AlwaysUp', gw) <= RankWith(AlwaysUp, gw)
      /\ RankWith(AlwaysUp', gw) \in Nat /\ RankWith(AlwaysUp, gw) \in Nat
  BY <1>4, <1>5, TierMonotone
<1>8. Rank(t) <= RankWith(EverUp', fw) /\ RankWith(AlwaysUp', gw) <= Rank(t)
  BY <1>1, <1>2, <1>6, <1>7
<1>9. RankWith(EverUp, fw)' = RankWith(EverUp', fw) /\ RankWith(AlwaysUp, gw)' = RankWith(AlwaysUp', gw)
  BY DEF RankWith, Tier, Rank, ExposureTier, Reachability, Mitigation
<1> QED BY <1>3, <1>8, <1>9 DEF TierIsWithin

\* A step keeps the findings true when those it adds are.
LEMMA TrueStep ==
  ASSUME Onward, Ranked, FindingsWereTrue,
         \A e \in events' : e \in events \/ (WasTrue(e)' /\ e.kind # "listen")
                            \/ (WasTrue(e)' /\ Rank(e.judged.tier) \in Nat /\ TierIsWithin(e.judged.tier)')
  PROVE  Ranked' /\ FindingsWereTrue'
<1>1. ASSUME NEW e \in events', e \in events
      PROVE  /\ WasTrue(e)'
             /\ e.kind = "listen" => Rank(e.judged.tier) \in Nat /\ TierIsWithin(e.judged.tier)'
  BY <1>1, TruthLasts, WithinLasts DEF Ranked, FindingsWereTrue
<1> QED BY <1>1 DEF Ranked, FindingsWereTrue

\* What was read lies within the bounds for as long as the step leaves it alone.
LEMMA LookStays ==
  ASSUME Onward, LookIsWithin, UNCHANGED look
  PROVE  LookIsWithin'
  BY BoundsWiden DEF LookIsWithin

LEMMA InitHolds == Init => IInv
<1> SUFFICES ASSUME Init PROVE IInv
  OBVIOUS
<1>1. HostAuditTypeOK
  BY HostAuditConstantsOK DEF Init, HostAuditTypeOK, NoLook
<1>2. LookIsWithin /\ Ranked /\ FindingsWereTrue
  BY DEF Init, LookIsWithin, Ranked, FindingsWereTrue, NoLook
<1> QED BY <1>1, <1>2 DEF IInv

LEMMA ChangeKeeps == ASSUME IInv, Change PROVE IInv'
<1> USE DEF IInv
<1>1. ASSUME NEW h \in Host, Become(h) PROVE IInv'
  <2>1. Onward
    BY <1>1 DEF Become, Onward
  <2>2. HostAuditTypeOK'
    BY <1>1 DEF Become, HostAuditTypeOK
  <2>3. LookIsWithin' /\ Ranked' /\ FindingsWereTrue'
    BY <1>1, <2>1, LookStays, TrueStep DEF Become
  <2> QED BY <2>2, <2>3
<1>2. host \in Host
  BY DEF HostAuditTypeOK
<1>3. ASSUME NEW S, NEW T \in SUBSET S, NEW x \in S PROVE Toggle(T, x) \in SUBSET S
  BY DEF Toggle
<1>4. CASE \E p \in Processes : Become([host EXCEPT !.running = Toggle(@, p)])
  BY <1>1, <1>2, <1>3, <1>4 DEF Host
<1>5. CASE \E s \in Sockets : Become([host EXCEPT !.open = Toggle(@, s)])
  BY <1>1, <1>2, <1>3, <1>5 DEF Host
<1>6. CASE \E n \in Nics : Become([host EXCEPT !.up = Toggle(@, n)])
  BY <1>1, <1>2, <1>3, <1>6 DEF Host
<1>7. CASE \E x \in SUBSET {"ON", "OFF"} : Become([host EXCEPT !.profiles = x])
  BY <1>1, <1>2, <1>7 DEF Host
<1>8. CASE \E l \in Entries : Become([host EXCEPT !.log = Toggle(@, l)])
  BY <1>1, <1>2, <1>3, <1>8 DEF Host
<1> QED BY <1>4, <1>5, <1>6, <1>7, <1>8 DEF Change

\* Report adds nothing beside what was found.
LEMMA ReportAdds == ASSUME NEW found, Report(found) PROVE events' \subseteq events \cup found
  BY DEF Report

LEMMA ReadProcessKeeps == ASSUME IInv, NEW p, AnalyzeProcess(p) PROVE IInv'
<1> USE DEF IInv
<1>1. Onward
  BY DEF AnalyzeProcess, Onward, Miss, Silent
<1>2. HostAuditTypeOK'
  BY DEF AnalyzeProcess, HostAuditTypeOK
<1>3. LookIsWithin'
  BY <1>1, LookStays DEF AnalyzeProcess
<1>4. CASE p \in host.running /\ Report(ProcessEvents(p))
  <2>1. ASSUME NEW e \in ProcessEvents(p) PROVE WasTrue(e)' /\ e.kind # "listen"
    <3>1. PICK f \in Detects(Suppressed, Profile[p]) : e = Event("process", p, f, Unjudged)
      BY <2>1 DEF ProcessEvents
    <3>2. e.kind = "process" /\ e.of = p /\ e.why = f
      BY <3>1 DEF Event
    <3>3. host' \in during' /\ p \in host'.running
      BY <1>4 DEF AnalyzeProcess, HostAuditTypeOK
    <3> QED BY <3>1, <3>2, <3>3 DEF WasTrue
  <2> QED BY <1>1, <1>2, <1>3, <1>4, <2>1, ReportAdds, TrueStep
<1>5. CASE UNCHANGED events
  BY <1>1, <1>2, <1>3, <1>5, TrueStep
<1> QED BY <1>4, <1>5 DEF AnalyzeProcess, Miss, Silent

LEMMA LookAtKeeps == ASSUME IInv, NEW s, LookAt(s) PROVE IInv'
<1> USE DEF IInv
<1>1. Onward
  BY DEF LookAt, Onward, Silent
<1>2. \E h \in during : s \in h.open
  BY DEF LookAt, HostAuditTypeOK
<1>3. CASE AtRisk(s) /\ look' = [socket |-> s, stage |-> "interfaces", nets |-> {}] /\ Silent
  <2>1. HostAuditTypeOK'
    BY <1>2, <1>3 DEF LookAt, HostAuditTypeOK
  <2>2. LookIsWithin'
    BY <1>3 DEF LookIsWithin
  <2> QED BY <1>1, <1>3, <2>1, <2>2, TrueStep DEF Silent
<1>4. CASE Outbound(s) /\ Report({Connection(s)}) /\ UNCHANGED look
  <2>1. HostAuditTypeOK' /\ LookIsWithin'
    BY <1>1, <1>4, LookStays DEF LookAt, HostAuditTypeOK
  <2>2. ASSUME NEW e, e = Connection(s) PROVE WasTrue(e)' /\ e.kind # "listen"
    <3>1. e.kind = "outbound" /\ e.of = s
      BY <2>2 DEF Connection, Event
    <3>2. WasTrue(e)
      BY <1>2, <1>4, <3>1 DEF WasTrue
    <3> QED BY <1>1, <3>1, <3>2, TruthLasts
  <2> QED BY <1>1, <1>4, <2>1, <2>2, ReportAdds, TrueStep
<1>5. CASE UNCHANGED look /\ Silent
  <2>1. HostAuditTypeOK' /\ LookIsWithin'
    BY <1>1, <1>5, LookStays DEF LookAt, HostAuditTypeOK
  <2> QED BY <1>1, <1>5, <2>1, TrueStep DEF Silent
<1> QED BY <1>3, <1>4, <1>5 DEF LookAt

LEMMA ReadInterfacesKeeps == ASSUME IInv, ReadInterfaces PROVE IInv'
<1> USE DEF IInv
<1>1. Onward
  BY DEF ReadInterfaces, Onward, Miss, Silent
<1>2. HostAuditTypeOK'
  <2>1. look'.stage = "firewall" /\ look'.socket = look.socket
    <3>1. \E nets : look' = [socket |-> look.socket, stage |-> "firewall", nets |-> nets]
      BY DEF ReadInterfaces, LookIsWithin
    <3> QED BY <3>1
  <2> QED BY <2>1 DEF ReadInterfaces, HostAuditTypeOK
<1>3. Ranked' /\ FindingsWereTrue'
  BY <1>1, TrueStep DEF ReadInterfaces, Miss, Silent
<1>4. CASE look' = [look EXCEPT !.stage = "firewall", !.nets = NetKinds(host.up)] /\ Silent
  <2>1. look' = [socket |-> look.socket, stage |-> "firewall", nets |-> NetKinds(host.up)]
    BY <1>4 DEF LookIsWithin
  <2>2. host \in during /\ host.up \subseteq Nics
    BY DEF HostAuditTypeOK, Host
  <2>3. NetKinds(host.up) \subseteq EverUp
    BY <2>2, KindsMonotone DEF EverUp
  <2>4. AlwaysUp \subseteq NetKinds(host.up)
    BY <2>2, KindsMonotone DEF AlwaysUp
  <2>5. AlwaysUp' \subseteq look'.nets /\ look'.nets \subseteq EverUp'
    BY <1>1, <2>1, <2>3, <2>4, BoundsWiden
  <2> QED BY <1>2, <1>3, <2>1, <2>5 DEF LookIsWithin
<1>5. CASE look' = [look EXCEPT !.stage = "firewall"] /\ Miss("interfaces")
  <2>1. look' = [socket |-> look.socket, stage |-> "firewall", nets |-> {}]
    BY <1>5 DEF LookIsWithin, ReadInterfaces
  <2>2. AlwaysUp' = {}
    BY <1>5 DEF AlwaysUp, Miss
  <2> QED BY <1>2, <1>3, <2>1, <2>2 DEF LookIsWithin
<1> QED BY <1>4, <1>5 DEF ReadInterfaces

LEMMA JudgeKeeps == ASSUME IInv, NEW rule \in BOOLEAN, JudgeListener(rule) PROVE IInv'
<1> USE DEF IInv
<1>1. Onward
  BY DEF JudgeListener, Onward
<1>2. HostAuditTypeOK'
  BY DEF JudgeListener, HostAuditTypeOK, NoLook
<1>3. LookIsWithin'
  BY DEF JudgeListener, LookIsWithin, NoLook
<1>4. PICK fw \in {FirewallEnabled(host.profiles), "indeterminate"} :
        /\ Report({Listener(look.socket, Judge(look.nets, fw, rule))})
        /\ \/ fw = FirewallEnabled(host.profiles)
           \/ fw = "indeterminate" /\ failed' = failed \cup {"firewall"}
  BY DEF JudgeListener
<1>5. PICK new : new = Listener(look.socket, Judge(look.nets, fw, rule))
  OBVIOUS
<1>6. /\ new.kind = "listen" /\ new.of = look.socket
      /\ new.judged.tier = Tier("wildcard", look.nets, fw)
  BY <1>5 DEF Listener, Event, Judge, Tier
<1>7. Rank(new.judged.tier) = RankWith(look.nets, fw)
  BY <1>6 DEF RankWith
<1>8. WasTrue(new)'
  <2>1. WasTrue(new)
    BY <1>6 DEF WasTrue, HostAuditTypeOK, JudgeListener
  <2> QED BY <1>1, <2>1, TruthLasts
<1>9. AlwaysUp' \subseteq look.nets /\ look.nets \subseteq EverUp' /\ EverUp' \subseteq {"public", "local"}
  BY <1>1, BoundsWiden, KindsMonotone DEF LookIsWithin, JudgeListener, EverUp
<1>10. fw \in FirewallTaken'
  BY <1>1, <1>4 DEF FirewallTaken, HostAuditTypeOK, Onward, JudgeListener
<1>11. /\ RankWith(AlwaysUp', fw) <= Rank(new.judged.tier) /\ Rank(new.judged.tier) \in Nat
       /\ Rank(new.judged.tier) <= RankWith(EverUp', fw)
  BY <1>7, <1>9, TierMonotone, ZenonT(60)
<1>12. TierIsWithin(new.judged.tier)'
  <2>1. RankWith(EverUp, fw)' = RankWith(EverUp', fw) /\ RankWith(AlwaysUp, fw)' = RankWith(AlwaysUp', fw)
    BY DEF RankWith
  <2> QED BY <1>10, <1>11 DEF TierIsWithin
<1>13. events' \subseteq events \cup {new}
  BY <1>4, <1>5, ReportAdds
<1> QED BY <1>1, <1>2, <1>3, <1>8, <1>11, <1>12, <1>13, TrueStep

LEMMA PostureKeeps == ASSUME IInv, AuditPosture PROVE IInv'
<1> USE DEF IInv
<1>1. Onward
  BY DEF AuditPosture, Onward, Miss, Silent
<1>2. HostAuditTypeOK'
  BY DEF AuditPosture, HostAuditTypeOK
<1>3. LookIsWithin'
  BY <1>1, LookStays DEF AuditPosture
<1>4. CASE "OFF" \in host.profiles /\ Report({FirewallEvent})
  <2>1. ASSUME NEW e, e = FirewallEvent PROVE WasTrue(e)' /\ e.kind # "listen"
    <3>1. e.kind = "firewall"
      BY <2>1 DEF FirewallEvent, Event
    <3>2. WasTrue(e)
      BY <1>4, <3>1 DEF WasTrue, HostAuditTypeOK
    <3> QED BY <1>1, <3>1, <3>2, TruthLasts
  <2> QED BY <1>1, <1>2, <1>3, <1>4, <2>1, ReportAdds, TrueStep
<1>5. CASE UNCHANGED events
  BY <1>1, <1>2, <1>3, <1>5, TrueStep
<1> QED BY <1>4, <1>5 DEF AuditPosture, Miss, Silent

LEMMA LogKeeps == ASSUME IInv, AuditLog PROVE IInv'
<1> USE DEF IInv
<1>1. Onward
  BY DEF AuditLog, Onward, Miss, Silent
<1>2. HostAuditTypeOK'
  BY DEF AuditLog, HostAuditTypeOK
<1>3. LookIsWithin'
  BY <1>1, LookStays DEF AuditLog
<1>4. ASSUME NEW found \in SUBSET host.log, Report({LogEvent(l) : l \in found}) PROVE IInv'
  <2>1. ASSUME NEW l \in found
        PROVE  WasTrue(LogEvent(l))' /\ LogEvent(l).kind # "listen"
    <3> DEFINE e == LogEvent(l)
    <3>1. e.kind = "log" /\ e.of = l
      BY DEF LogEvent, Event
    <3> HIDE DEF e
    <3>2. WasTrue(e)
      BY <1>4, <2>1, <3>1 DEF WasTrue, HostAuditTypeOK
    <3>3. WasTrue(e)' /\ e.kind # "listen"
      BY <1>1, <3>1, <3>2, TruthLasts
    <3> QED BY <3>3 DEF e
  <2> QED BY <1>1, <1>2, <1>3, <1>4, <2>1, ReportAdds, TrueStep
<1>5. CASE UNCHANGED events
  BY <1>1, <1>2, <1>3, <1>5, TrueStep
<1> QED BY <1>4, <1>5 DEF AuditLog, Miss, Silent

\* Beginning, listing the sockets, expiry and stuttering add no finding.
LEMMA QuietKeeps ==
  ASSUME IInv, Start \/ ListSockets \/ (\E sig \in before : Forget(sig)) \/ UNCHANGED vars
  PROVE  IInv'
<1> USE DEF IInv
<1>1. Onward /\ UNCHANGED <<events, look>>
  BY DEF Start, ListSockets, Forget, vars, Onward, Miss, Silent
<1>2. HostAuditTypeOK'
  BY DEF Start, ListSockets, Forget, vars, HostAuditTypeOK, Host
<1> QED BY <1>1, <1>2, LookStays, TrueStep

LEMMA StepKeeps == IInv /\ [Next]_vars => IInv'
<1> SUFFICES ASSUME IInv, [Next]_vars PROVE IInv'
  OBVIOUS
<1>1. CASE Change
  BY <1>1, ChangeKeeps
<1>2. CASE \E p \in Processes : AnalyzeProcess(p)
  BY <1>2, ReadProcessKeeps
<1>3. CASE \E s \in Sockets : LookAt(s)
  BY <1>3, LookAtKeeps
<1>4. CASE ReadInterfaces
  BY <1>4, ReadInterfacesKeeps
<1>5. CASE \E rule \in BOOLEAN : JudgeListener(rule)
  BY <1>5, JudgeKeeps
<1>6. CASE AuditPosture
  BY <1>6, PostureKeeps
<1>7. CASE AuditLog
  BY <1>7, LogKeeps
<1>8. CASE Start \/ ListSockets \/ (\E sig \in before : Forget(sig)) \/ UNCHANGED vars
  BY <1>8, QuietKeeps
<1> QED BY <1>1, <1>2, <1>3, <1>4, <1>5, <1>6, <1>7, <1>8 DEF Next

\* In every audit of every host, however often it changes and whatever cannot be read, each
\* finding was true at some moment of that audit, and the tier of a listener is one that the
\* states of interfaces and firewall during the audit allow.
THEOREM FindingsAreTrue == Spec => []FindingsWereTrue
<1>1. Init => IInv
  BY InitHolds
<1>2. IInv /\ [Next]_vars => IInv'
  BY StepKeeps
<1>3. IInv => FindingsWereTrue
  BY DEF IInv
<1> QED BY <1>1, <1>2, <1>3, PTL DEF Spec

-----------------------------------------------------------------------------
(* What was so throughout is reported. *)

\* An event of this signature has been reported by the audit, or was silenced before it.
Reported(e) == Signature(e) \in before \/ \E x \in events : Signature(x) = Signature(e)

\* Only what the audit reports, beside what it began with, silences a finding.
SeenIsReported == \A sig \in seen : sig \in before \/ \E x \in events : Signature(x) = sig

\* In each phase, what lasts is reported or has yet to be looked at.
ProcessesReported == \A p \in LastingProcesses : \A e \in ProcessEvents(p) : Reported(e)
SocketsReported ==
  \A s \in LastingSockets : /\ AtRisk(s) /\ ~DevServer(s) => Reported(Listener(s, Unjudged))
                            /\ Outbound(s) => Reported(Connection(s))

Progress ==
  /\ phase = "processes" =>
       \A p \in LastingProcesses : p \in todo \/ \A e \in ProcessEvents(p) : Reported(e)
  /\ phase \in {"sockets", "log", "ingest"} => ProcessesReported
  /\ phase = "sockets" =>
       \A s \in LastingSockets :
         /\ AtRisk(s) /\ ~DevServer(s) =>
              s \in todo \/ (look.stage # "none" /\ look.socket = s) \/ Reported(Listener(s, Unjudged))
         /\ Outbound(s) => s \in todo \/ Reported(Connection(s))
  /\ phase \in {"log", "ingest"} => SocketsReported /\ (LastingFirewall => Reported(FirewallEvent))
  /\ phase = "ingest" => \A l \in LastingEntries : Reported(LogEvent(l))

RInv == SeenIsReported /\ Progress

\* What is reported stays reported, and no more becomes lasting.
LEMMA ReportsLast ==
  ASSUME Onward, events \subseteq events', before' = before
  PROVE  /\ \A e : Reported(e) => Reported(e)'
         /\ LastingProcesses' \subseteq LastingProcesses /\ LastingSockets' \subseteq LastingSockets
         /\ (LastingFirewall' => LastingFirewall) /\ LastingEntries' \subseteq LastingEntries
<1>1. ASSUME NEW e, Reported(e) PROVE Reported(e)'
  <2>1. CASE Signature(e) \in before
    BY <2>1 DEF Reported
  <2>2. CASE \E x \in events : Signature(x) = Signature(e)
    BY <2>2 DEF Reported
  <2> QED BY <1>1, <2>1, <2>2 DEF Reported
<1>2. LastingProcesses' \subseteq LastingProcesses /\ LastingSockets' \subseteq LastingSockets
  BY DEF LastingProcesses, LastingSockets, Onward
<1>3. (LastingFirewall' => LastingFirewall) /\ LastingEntries' \subseteq LastingEntries
  BY DEF LastingFirewall, LastingEntries, Onward
<1> QED BY <1>1, <1>2, <1>3

\* A report leaves everything that was found reported, whatever was seen.
LEMMA ReportReports ==
  ASSUME SeenIsReported, NEW found, Report(found), before' = before
  PROVE  events \subseteq events' /\ SeenIsReported' /\ \A e \in found : Reported(e)'
<1>1. /\ events' = events \cup {e \in found : Signature(e) \notin seen}
      /\ seen' = seen \cup {Signature(e) : e \in {e \in found : Signature(e) \notin seen}}
  BY DEF Report
<1>2. events \subseteq events'
  BY <1>1
<1>3. SeenIsReported'
  <2> SUFFICES ASSUME NEW sig \in seen' PROVE sig \in before \/ \E x \in events' : Signature(x) = sig
    BY DEF SeenIsReported
  <2>1. CASE sig \in seen
    BY <1>2, <2>1 DEF SeenIsReported
  <2>2. CASE \E e \in found : Signature(e) \notin seen /\ sig = Signature(e)
    BY <1>1, <2>2
  <2> QED BY <1>1, <2>1, <2>2
<1>4. ASSUME NEW e \in found PROVE Reported(e)'
  <2>1. CASE Signature(e) \in seen
    <3>1. Reported(e)
      BY <2>1 DEF SeenIsReported, Reported
    <3>2. CASE Signature(e) \in before
      BY <3>2 DEF Reported
    <3>3. CASE \E x \in events : Signature(x) = Signature(e)
      BY <1>2, <3>3 DEF Reported
    <3> QED BY <3>1, <3>2, <3>3 DEF Reported
  <2>2. CASE Signature(e) \notin seen
    BY <1>1, <2>2 DEF Reported
  <2> QED BY <2>1, <2>2
<1> QED BY <1>2, <1>3, <1>4

\* How a listener is judged does not change what silences it.
LEMMA ListenerSignature ==
  ASSUME NEW s, NEW judged, Reported(Listener(s, judged))'
  PROVE  Reported(Listener(s, Unjudged))'
<1>1. \A j : Listener(s, j).kind = "listen" /\ Listener(s, j).of = s
  BY DEF Listener, Event
<1>2. \A j : Signature(Listener(s, j)) = <<"listen", Socket[s].port, Socket[s].owner>>
  BY <1>1 DEF Signature
<1>3. Signature(Listener(s, judged)) = Signature(Listener(s, Unjudged))
  BY <1>2
<1> QED BY <1>3 DEF Reported

\* A step that reports nothing new, and takes nothing from what is yet to be looked at.
LEMMA QuietProgress ==
  ASSUME RInv, Onward, UNCHANGED <<phase, events, before>>, seen' \subseteq seen,
         todo' = todo \/ phase \notin {"processes", "sockets"}, UNCHANGED look \/ phase # "sockets"
  PROVE  RInv'
<1>1. /\ \A e : Reported(e) => Reported(e)'
      /\ LastingProcesses' \subseteq LastingProcesses /\ LastingSockets' \subseteq LastingSockets
      /\ (LastingFirewall' => LastingFirewall) /\ LastingEntries' \subseteq LastingEntries
  BY ReportsLast
<1>2. SeenIsReported'
  BY DEF RInv, SeenIsReported
<1>3. Progress'
  BY <1>1 DEF RInv, Progress, ProcessesReported, SocketsReported
<1> QED BY <1>2, <1>3 DEF RInv

LEMMA ChangeProgress == ASSUME RInv, Change PROVE RInv'
<1>1. PICK h : Become(h)
  BY DEF Change
<1> QED BY <1>1, QuietProgress DEF Become, Onward

LEMMA ForgetProgress == ASSUME RInv, NEW sig, Forget(sig) PROVE RInv'
BY QuietProgress DEF Forget, Onward

LEMMA ReadInterfacesProgress == ASSUME IInv, RInv, ReadInterfaces PROVE RInv'
<1>1. Onward /\ UNCHANGED <<phase, events, before, seen, todo>>
  BY DEF ReadInterfaces, Onward, Miss, Silent
<1>2. look'.stage = "firewall" /\ look'.socket = look.socket /\ look.stage = "interfaces"
  <2>1. \E nets : look' = [socket |-> look.socket, stage |-> "firewall", nets |-> nets]
    BY DEF ReadInterfaces, IInv, LookIsWithin
  <2> QED BY <2>1 DEF ReadInterfaces
<1>3. /\ \A e : Reported(e) => Reported(e)'
      /\ LastingProcesses' \subseteq LastingProcesses /\ LastingSockets' \subseteq LastingSockets
      /\ (LastingFirewall' => LastingFirewall) /\ LastingEntries' \subseteq LastingEntries
  BY <1>1, ReportsLast
<1>4. SeenIsReported'
  BY <1>1 DEF RInv, SeenIsReported
<1>5. Progress'
  BY <1>1, <1>2, <1>3 DEF RInv, Progress, ProcessesReported, SocketsReported
<1> QED BY <1>4, <1>5 DEF RInv

LEMMA StartProgress == ASSUME IInv, RInv, Start PROVE RInv'
<1>1. /\ phase' = "processes" /\ todo' = host.running /\ Onward
      /\ UNCHANGED <<host, look, events, seen, before, during, failed>>
  BY DEF Start, Onward
<1>2. SeenIsReported'
  BY <1>1 DEF RInv, SeenIsReported
<1>3. \A p \in LastingProcesses' : p \in todo'
  BY <1>1 DEF LastingProcesses, IInv, HostAuditTypeOK
<1>4. Progress'
  BY <1>1, <1>3 DEF Progress
<1> QED BY <1>2, <1>4 DEF RInv

LEMMA ProcessProgress == ASSUME IInv, RInv, NEW p, AnalyzeProcess(p) PROVE RInv'
<1>1. /\ phase = "processes" /\ todo' = todo \ {p} /\ UNCHANGED <<host, phase, look, before, during>> /\ Onward
  BY DEF AnalyzeProcess, Onward, Miss, Silent
<1>2. /\ events \subseteq events' /\ SeenIsReported'
      /\ \/ p \notin LastingProcesses'
         \/ \A e \in ProcessEvents(p) : Reported(e)'
  <2>1. CASE Report(ProcessEvents(p))
    BY <1>1, <2>1, ReportReports DEF RInv
  <2>2. CASE Miss(p)
    BY <1>1, <2>2 DEF Miss, LastingProcesses, RInv, SeenIsReported
  <2>3. CASE p \notin host.running /\ Silent
    BY <1>1, <2>3 DEF Silent, LastingProcesses, RInv, SeenIsReported, IInv, HostAuditTypeOK
  <2> QED BY <2>1, <2>2, <2>3 DEF AnalyzeProcess
<1>3. (\A e : Reported(e) => Reported(e)') /\ LastingProcesses' \subseteq LastingProcesses
  BY <1>1, <1>2, ReportsLast
<1>4. ASSUME NEW q \in LastingProcesses', q \notin todo', NEW e \in ProcessEvents(q)
      PROVE  Reported(e)'
  <2>1. CASE q = p
    BY <1>2, <1>4, <2>1
  <2>2. CASE q # p
    BY <1>1, <1>3, <1>4, <2>2 DEF RInv, Progress
  <2> QED BY <2>1, <2>2
<1>5. Progress'
  <2>1. \A q \in LastingProcesses' : q \in todo' \/ \A e \in ProcessEvents(q) : Reported(e)'
    BY <1>4
  <2>2. \A q : ProcessEvents(q)' = ProcessEvents(q)
    BY DEF ProcessEvents
  <2> QED BY <1>1, <2>1, <2>2 DEF Progress
<1> QED BY <1>2, <1>5 DEF RInv

LEMMA ListSocketsProgress == ASSUME IInv, RInv, ListSockets PROVE RInv'
<1>1. /\ phase = "processes" /\ todo = {} /\ phase' = "sockets" /\ Onward
      /\ UNCHANGED <<host, look, before, during, events, seen>>
      /\ todo' = host.open \/ "sockets" \in failed'
  BY DEF ListSockets, Onward, Miss, Silent
<1>2. (\A e : Reported(e) => Reported(e)') /\ LastingProcesses' \subseteq LastingProcesses
  BY <1>1, ReportsLast
<1>3. SeenIsReported'
  BY <1>1 DEF RInv, SeenIsReported
<1>4. ProcessesReported'
  BY <1>1, <1>2 DEF RInv, Progress, ProcessesReported
<1>5. \A s \in LastingSockets' : s \in todo'
  BY <1>1 DEF LastingSockets, IInv, HostAuditTypeOK
<1>6. Progress'
  BY <1>1, <1>4, <1>5 DEF Progress
<1> QED BY <1>3, <1>6 DEF RInv

\* A socket that is passed over is no lasting finding: a listener at risk is not established.
LEMMA LookAtProgress == ASSUME IInv, RInv, NEW s, LookAt(s) PROVE RInv'
<1>1. /\ phase = "sockets" /\ look = NoLook /\ todo' = todo \ {s} /\ Onward
      /\ UNCHANGED <<host, phase, before, during, failed>>
  BY DEF LookAt, Onward, Silent, Report
<1>2. /\ events \subseteq events' /\ SeenIsReported'
      /\ \/ AtRisk(s) /\ ~Outbound(s) /\ look'.stage # "none" /\ look'.socket = s
         \/ ~AtRisk(s) /\ Outbound(s) /\ Reported(Connection(s))'
         \/ (AtRisk(s) => DevServer(s)) /\ ~Outbound(s)
  <2>1. AtRisk(s) => ~Outbound(s)
    BY DEF AtRisk, Outbound
  <2>2. CASE AtRisk(s) /\ look' = [socket |-> s, stage |-> "interfaces", nets |-> {}] /\ Silent
    BY <1>1, <2>1, <2>2 DEF Silent, RInv, SeenIsReported
  <2>3. CASE Outbound(s) /\ Report({Connection(s)})
    BY <1>1, <2>1, <2>3, ReportReports DEF RInv
  <2>4. CASE (AtRisk(s) => DevServer(s)) /\ ~Outbound(s) /\ Silent
    BY <1>1, <2>4 DEF Silent, RInv, SeenIsReported
  <2> QED BY <2>2, <2>3, <2>4 DEF LookAt
<1>3. /\ \A e : Reported(e) => Reported(e)'
      /\ LastingProcesses' \subseteq LastingProcesses /\ LastingSockets' \subseteq LastingSockets
  BY <1>1, <1>2, ReportsLast
<1>4. ProcessesReported'
  BY <1>1, <1>3 DEF RInv, Progress, ProcessesReported
<1>5. ASSUME NEW t \in LastingSockets'
      PROVE  /\ AtRisk(t) /\ ~DevServer(t) =>
                  t \in todo' \/ (look'.stage # "none" /\ look'.socket = t) \/ Reported(Listener(t, Unjudged))'
             /\ Outbound(t) => t \in todo' \/ Reported(Connection(t))'
  <2>1. CASE t = s
    BY <1>2, <2>1
  <2>2. CASE t # s
    <3>1. look.stage = "none"
      BY <1>1 DEF NoLook
    <3>2. /\ AtRisk(t) /\ ~DevServer(t) => t \in todo \/ Reported(Listener(t, Unjudged))
          /\ Outbound(t) => t \in todo \/ Reported(Connection(t))
      BY <1>1, <1>3, <1>5, <3>1 DEF RInv, Progress
    <3> QED BY <1>1, <1>3, <2>2, <3>2
  <2> QED BY <2>1, <2>2
<1>6. Progress'
  BY <1>1, <1>4, <1>5 DEF Progress
<1> QED BY <1>2, <1>6 DEF RInv

LEMMA JudgeProgress == ASSUME IInv, RInv, NEW rule \in BOOLEAN, JudgeListener(rule) PROVE RInv'
<1> SUFFICES ASSUME NEW s, s = look.socket PROVE RInv'
  OBVIOUS
<1>1. PICK judged : Report({Listener(s, judged)})
  BY DEF JudgeListener
<1>2. /\ look.stage = "firewall" /\ look' = NoLook /\ Onward
      /\ UNCHANGED <<host, phase, todo, before, during>>
  BY DEF JudgeListener, Onward
<1>3. events \subseteq events' /\ SeenIsReported' /\ Reported(Listener(s, Unjudged))'
  <2>1. PICK new : new = Listener(s, judged)
    OBVIOUS
  <2>2. events \subseteq events' /\ SeenIsReported' /\ Reported(new)'
    BY <1>1, <1>2, <2>1, ReportReports DEF RInv
  <2>3. Reported(Listener(s, judged))'
    BY <2>1, <2>2 DEF Reported
  <2> QED BY <2>2, <2>3, ListenerSignature
<1>4. /\ \A e : Reported(e) => Reported(e)'
      /\ LastingProcesses' \subseteq LastingProcesses /\ LastingSockets' \subseteq LastingSockets
      /\ (LastingFirewall' => LastingFirewall) /\ LastingEntries' \subseteq LastingEntries
  BY <1>2, <1>3, ReportsLast
<1>5. ASSUME NEW t \in LastingSockets', phase = "sockets"
      PROVE  /\ AtRisk(t) /\ ~DevServer(t) => t \in todo' \/ Reported(Listener(t, Unjudged))'
             /\ Outbound(t) => t \in todo' \/ Reported(Connection(t))'
  <2>1. /\ AtRisk(t) /\ ~DevServer(t) => t \in todo \/ t = s \/ Reported(Listener(t, Unjudged))
        /\ Outbound(t) => t \in todo \/ Reported(Connection(t))
    BY <1>4, <1>5 DEF RInv, Progress
  <2>2. t = s => Reported(Listener(t, Unjudged))'
    BY <1>3
  <2> QED BY <1>2, <1>4, <2>1, <2>2
<1>6. Progress'
  BY <1>2, <1>4, <1>5 DEF RInv, Progress, ProcessesReported, SocketsReported
<1> QED BY <1>3, <1>6 DEF RInv

LEMMA PostureProgress == ASSUME IInv, RInv, AuditPosture PROVE RInv'
<1>1. /\ phase = "sockets" /\ look = NoLook /\ todo = {} /\ phase' = "log" /\ Onward
      /\ UNCHANGED <<host, todo, look, before, during>>
  BY DEF AuditPosture, Onward, Miss, Silent
<1>2. /\ events \subseteq events' /\ SeenIsReported' /\ (LastingFirewall' => Reported(FirewallEvent)')
  <2>1. CASE Report({FirewallEvent})
    BY <1>1, <2>1, ReportReports DEF RInv
  <2>2. CASE (OS \notin {"Windows", "Linux"} \/ "OFF" \notin host.profiles) /\ Silent
    BY <1>1, <2>2 DEF Silent, LastingFirewall, RInv, SeenIsReported, IInv, HostAuditTypeOK
  <2>3. CASE Miss("posture")
    BY <1>1, <2>3 DEF Miss, LastingFirewall, RInv, SeenIsReported
  <2> QED BY <2>1, <2>2, <2>3 DEF AuditPosture
<1>3. /\ \A e : Reported(e) => Reported(e)'
      /\ LastingProcesses' \subseteq LastingProcesses /\ LastingSockets' \subseteq LastingSockets
  BY <1>1, <1>2, ReportsLast
<1>4. ProcessesReported'
  BY <1>1, <1>3 DEF RInv, Progress, ProcessesReported
<1>5. SocketsReported'
  <2>1. look.stage = "none"
    BY <1>1 DEF NoLook
  <2>2. \A t \in LastingSockets : /\ AtRisk(t) /\ ~DevServer(t) => Reported(Listener(t, Unjudged))
                                  /\ Outbound(t) => Reported(Connection(t))
    BY <1>1, <2>1 DEF RInv, Progress
  <2> QED BY <1>3, <2>2 DEF SocketsReported
<1>6. Progress'
  BY <1>1, <1>2, <1>4, <1>5 DEF Progress
<1> QED BY <1>2, <1>6 DEF RInv

\* A query that returns as many entries as it may has returned all of a log that holds no more.
LEMMA WholeLog ==
  ASSUME NEW log \in SUBSET Entries, NEW found \in SUBSET log,
         found = log \/ Cardinality(found) = MaxLog, Cardinality(log) <= MaxLog
  PROVE  found = log
<1>1. IsFiniteSet(log) /\ MaxLog \in Nat
  BY HostAuditConstantsOK, FS_Subset
<1>2. Cardinality(found) \in Nat /\ Cardinality(log) \in Nat /\ Cardinality(found) <= Cardinality(log)
  BY <1>1, FS_Subset, FS_CardinalityType
<1>3. CASE Cardinality(found) = MaxLog
  <2>1. Cardinality(found) = Cardinality(log)
    BY <1>1, <1>2, <1>3
  <2> QED BY <1>1, <2>1, FS_Subset
<1> QED BY <1>3

LEMMA LogProgress == ASSUME IInv, RInv, AuditLog PROVE RInv'
<1>1. /\ phase = "log" /\ phase' = "ingest" /\ Onward /\ UNCHANGED <<host, todo, look, before, during>>
  BY DEF AuditLog, Onward, Miss, Silent
<1>2. /\ events \subseteq events' /\ SeenIsReported'
      /\ \A l \in LastingEntries' : Reported(LogEvent(l))'
  <2>1. CASE OS # "Windows" /\ Silent
    BY <1>1, <2>1 DEF Silent, LastingEntries, RInv, SeenIsReported
  <2>2. CASE Miss("log")
    BY <1>1, <2>2 DEF Miss, LastingEntries, RInv, SeenIsReported
  <2>3. ASSUME NEW found \in SUBSET host.log, found = host.log \/ Cardinality(found) = MaxLog,
               Report({LogEvent(l) : l \in found})
        PROVE  /\ events \subseteq events' /\ SeenIsReported'
               /\ \A l \in LastingEntries' : Reported(LogEvent(l))'
    <3>1. events \subseteq events' /\ SeenIsReported' /\ \A l \in found : Reported(LogEvent(l))'
      BY <1>1, <2>3, ReportReports DEF RInv
    <3>2. ASSUME NEW l \in LastingEntries' PROVE l \in found
      <4>1. l \in host.log /\ Cardinality(host.log) <= MaxLog /\ host.log \subseteq Entries
        BY <1>1, <3>2 DEF LastingEntries, IInv, HostAuditTypeOK, Host
      <4> QED BY <2>3, <4>1, WholeLog
    <3> QED BY <3>1, <3>2
  <2> QED BY <2>1, <2>2, <2>3 DEF AuditLog
<1>3. /\ \A e : Reported(e) => Reported(e)'
      /\ LastingProcesses' \subseteq LastingProcesses /\ LastingSockets' \subseteq LastingSockets
      /\ (LastingFirewall' => LastingFirewall)
  BY <1>1, <1>2, ReportsLast
<1>4. ProcessesReported' /\ SocketsReported' /\ (LastingFirewall' => Reported(FirewallEvent)')
  BY <1>1, <1>3 DEF RInv, Progress, ProcessesReported, SocketsReported
<1>5. Progress'
  BY <1>1, <1>2, <1>4 DEF Progress
<1> QED BY <1>2, <1>5 DEF RInv

LEMMA StepProgress == IInv /\ RInv /\ [Next]_vars => RInv'
<1> SUFFICES ASSUME IInv, RInv, [Next]_vars PROVE RInv'
  OBVIOUS
<1>1. CASE Change
  BY <1>1, ChangeProgress
<1>2. CASE \E p \in Processes : AnalyzeProcess(p)
  BY <1>2, ProcessProgress
<1>3. CASE \E s \in Sockets : LookAt(s)
  BY <1>3, LookAtProgress
<1>4. CASE ReadInterfaces
  BY <1>4, ReadInterfacesProgress
<1>5. CASE \E rule \in BOOLEAN : JudgeListener(rule)
  BY <1>5, JudgeProgress
<1>6. CASE AuditPosture
  BY <1>6, PostureProgress
<1>7. CASE AuditLog
  BY <1>7, LogProgress
<1>8. CASE Start
  BY <1>8, StartProgress
<1>9. CASE ListSockets
  BY <1>9, ListSocketsProgress
<1>10. CASE \E sig \in before : Forget(sig)
  BY <1>10, ForgetProgress
<1>11. CASE UNCHANGED vars
  BY <1>11, QuietProgress DEF vars, Onward
<1> QED BY <1>1, <1>2, <1>3, <1>4, <1>5, <1>6, <1>7, <1>8, <1>9, <1>10, <1>11 DEF Next

LEMMA RInvIsLasting == RInv => LastingIsReported
<1> SUFFICES ASSUME RInv, phase = "ingest", NEW e \in Lasting PROVE Reported(e)
  BY DEF LastingIsReported, Reported
<1>1. ProcessesReported /\ SocketsReported /\ (LastingFirewall => Reported(FirewallEvent))
      /\ \A l \in LastingEntries : Reported(LogEvent(l))
  BY DEF RInv, Progress
<1>2. CASE e \in UNION {ProcessEvents(p) : p \in LastingProcesses}
  <2>1. PICK p \in LastingProcesses : e \in ProcessEvents(p)
    BY <1>2, Zenon
  <2> QED BY <1>1, <2>1 DEF ProcessesReported
<1>3. CASE e \in {Listener(s, Unjudged) : s \in LastingListeners}
  <2>1. PICK s \in LastingListeners : e = Listener(s, Unjudged)
    BY <1>3, Zenon
  <2> QED BY <1>1, <2>1 DEF SocketsReported, LastingListeners
<1>4. CASE e \in {Connection(s) : s \in LastingConnections}
  <2>1. PICK s \in LastingConnections : e = Connection(s)
    BY <1>4, Zenon
  <2> QED BY <1>1, <2>1 DEF SocketsReported, LastingConnections
<1>5. CASE e \in {x \in {FirewallEvent} : LastingFirewall}
  <2>1. LastingFirewall /\ e = FirewallEvent
    BY <1>5, Zenon
  <2> QED BY <1>1, <2>1
<1>6. CASE e \in {LogEvent(l) : l \in LastingEntries}
  <2>1. PICK l \in LastingEntries : e = LogEvent(l)
    BY <1>6, Zenon
  <2> QED BY <1>1, <2>1
<1> QED BY <1>2, <1>3, <1>4, <1>5, <1>6, Zenon DEF Lasting

\* In every audit of every host: what was there from its beginning to its end and could be read
\* is among its events, unless its signature had been seen before.  The host may change, other
\* reads fail and signatures expire between any two reads.
THEOREM LastingIsFound == Spec => []LastingIsReported
<1>1. Init => IInv /\ RInv
  BY InitHolds DEF Init, RInv, SeenIsReported, Progress
<1>2. IInv /\ RInv /\ [Next]_vars => IInv' /\ RInv'
  BY StepKeeps, StepProgress
<1>3. RInv => LastingIsReported
  BY RInvIsLasting
<1> QED BY <1>1, <1>2, <1>3, PTL DEF Spec
=============================================================================
