---------------------------- MODULE IncidentLedger ----------------------------
(***************************************************************************)
(* What the correlation promises of the alerts that are ingested, without  *)
(* sessions, locks, objects, windows or counts.                            *)
(*                                                                         *)
(* A transaction brings some alerts, and may open some incidents; each of  *)
(* its alerts goes, in the same step, to exactly one incident, which has   *)
(* the alert's key and is open.  Nothing is ever linked later.  Analysts   *)
(* open and close incidents, delete an alert together with its link, or    *)
(* clear everything.                                                       *)
(***************************************************************************)
CONSTANTS
  Alerts,        \* the alerts that may be ingested
  Incidents,     \* the incidents that may be opened
  Keys, KeyOf    \* correlation keys, and the key of each alert

VARIABLES
  incidents,     \* the incidents there are: their key, and whether they are open
  alerts,        \* the alerts that are stored
  links          \* pairs of an incident and an alert of it

lvars == <<incidents, alerts, links>>

Entry == [key : Keys, open : BOOLEAN]

LInit == incidents = [i \in {} |-> TRUE] /\ alerts = {} /\ links = {}

\* The transaction opens the incidents I with these keys, and brings the alerts A, each of
\* which goes to its incident.
Record(I, key, A, to) ==
  /\ incidents' = [i \in DOMAIN incidents \cup I |->
                     IF i \in I THEN [key |-> key[i], open |-> TRUE] ELSE incidents[i]]
  /\ \A a \in A : to[a] \in DOMAIN incidents' /\ incidents'[to[a]] = [key |-> KeyOf[a], open |-> TRUE]
  /\ alerts' = alerts \cup A
  /\ links' = links \cup {<<to[a], a>> : a \in A}

Triage(i, open) ==
  /\ i \in DOMAIN incidents
  /\ incidents' = [incidents EXCEPT ![i].open = open]
  /\ UNCHANGED <<alerts, links>>

Delete(a) ==
  /\ alerts' = alerts \ {a} /\ links' = {link \in links : link[2] # a}
  /\ UNCHANGED incidents

Clear == incidents' = [i \in {} |-> TRUE] /\ alerts' = {} /\ links' = {}

LNext ==
  \/ \E I \in SUBSET (Incidents \ DOMAIN incidents), A \in SUBSET (Alerts \ alerts) :
       \E key \in [I -> Keys], to \in [A -> Incidents] : Record(I, key, A, to)
  \/ \E i \in Incidents, open \in BOOLEAN : Triage(i, open)
  \/ \E a \in Alerts : Delete(a)
  \/ Clear

LSpec == LInit /\ [][LNext]_lvars

-----------------------------------------------------------------------------

LTypeOK ==
  /\ DOMAIN incidents \subseteq Incidents /\ \A i \in DOMAIN incidents : incidents[i] \in Entry
  /\ alerts \subseteq Alerts /\ links \subseteq Incidents \X Alerts

\* Every alert that is stored has exactly one incident, which is there and has its key; and there
\* is no link of an alert that is gone.
EachInItsIncident ==
  /\ \A a \in alerts : \E i \in DOMAIN incidents :
       incidents[i].key = KeyOf[a] /\ {j \in Incidents : <<j, a>> \in links} = {i}
  /\ \A link \in links : link[2] \in alerts
=============================================================================
