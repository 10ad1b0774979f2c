----------------------------- MODULE MitreReport -----------------------------
(***************************************************************************)
(* The threat summary of MitreMapper (app/security/mitre_mapper.py): what  *)
(* generate_summary_report makes of a list of alerts.  The list is a       *)
(* function from the identities of the alerts to records; a report uses    *)
(* the technique of an alert (empty if it has none and no rule finds one)  *)
(* and its severity.  Percentages, samples and texts are left out, and the *)
(* names of the tactics have an underscore for each space.                 *)
(***************************************************************************)
EXTENDS Integers, Sequences, FiniteSets, FiniteSetsExt, SequencesExt

\* The tactics in the order of the kill chain, and the parts of a technique's tactic field.
MITRE_TACTICS ==
  <<"Reconnaissance", "Resource_Development", "Initial_Access", "Execution", "Persistence", "Privilege_Escalation",
    "Defense_Evasion", "Credential_Access", "Discovery", "Lateral_Movement", "Collection", "Command_and_Control",
    "Exfiltration", "Impact">>

Under(parts, techniques) == {<<t, parts>> : t \in techniques}
Catalogue ==
  Under(<<"Credential_Access">>, {"T1003", "T1003.001", "T1110", "T1110.001"})
  \cup Under(<<"Lateral_Movement">>, {"T1021.002", "T1021.004"})
  \cup Under(<<"Command_and_Control">>, {"T1071.004", "T1105", "T1071"})
  \cup Under(<<"Defense_Evasion">>, {"T1218", "T1036.005", "T1070.001", "T1036", "T1562.001"})
  \cup Under(<<"Execution">>, {"T1204.002", "T1059", "T1059.001"})
  \cup Under(<<"Impact">>, {"T1490", "T1496", "T1565", "T1498"})
  \cup Under(<<"Discovery">>, {"T1046"})
  \cup Under(<<"Defense_Evasion", "Initial_Access">>, {"T1078"})
  \cup Under(<<"Persistence", "Privilege_Escalation">>, {"T1543.003", "T1098", "T1547.001"})
  \cup Under(<<"Execution", "Persistence">>, {"T1053.005"})
  \cup Under(<<"Persistence">>, {"T1136.001", "T1505.003"})
  \cup Under(<<"Privilege_Escalation">>, {"T1548"})
  \cup Under(<<"Initial_Access">>, {"T1190"})
  \cup Under(<<"Reconnaissance">>, {"T1595"})
MITRE_TECHNIQUES == [t \in {entry[1] : entry \in Catalogue} |-> (CHOOSE entry \in Catalogue : entry[1] = t)[2]]

SEVERITY_ORDER == [CRITICAL |-> 4, HIGH |-> 3, MEDIUM |-> 2, LOW |-> 1]

\* get_primary_tactic: the first part that is a standard tactic, else the first part.
PrimaryTactic(t) ==
  LET parts == MITRE_TECHNIQUES[t]
      standard == {i \in 1..Len(parts) : parts[i] \in ToSet(MITRE_TACTICS)}
  IN IF standard = {} THEN parts[1] ELSE parts[CHOOSE i \in standard : \A j \in standard : i <= j]

\* An alert with a technique that the catalogue does not have (get_details) is not mapped.
MappedAlerts(alerts) == {a \in DOMAIN alerts : alerts[a].technique \in DOMAIN MITRE_TECHNIQUES}

\* The most severe of some alerts.
HighestSeverity(alerts, A) ==
  LET top == CHOOSE a \in A : \A b \in A : SEVERITY_ORDER[alerts[a].severity] >= SEVERITY_ORDER[alerts[b].severity]
  IN alerts[top].severity

\* sorted(..., key): the elements of S, those with lower keys first.
SortedBy(S, key) ==
  CHOOSE s \in [1..Cardinality(S) -> S] :
    \A i, j \in 1..Cardinality(S) : i < j => s[i] # s[j] /\ key[s[i]] <= key[s[j]]

\* The record of one technique, and of the techniques of some alerts, the most frequent first.
TechniqueRecord(alerts, t) ==
  LET A == {a \in DOMAIN alerts : alerts[a].technique = t}
  IN [id |-> t, tactic |-> PrimaryTactic(t), alert_count |-> Cardinality(A),
      highest_severity |-> HighestSeverity(alerts, A)]
Techniques(alerts, A) ==
  LET records == {TechniqueRecord(alerts, alerts[a].technique) : a \in A}
  IN SortedBy(records, [r \in records |-> -r.alert_count])

TacticAlerts(alerts, t) == {a \in MappedAlerts(alerts) : PrimaryTactic(alerts[a].technique) = t}
SeverityBreakdown(alerts, A) ==
  [s \in DOMAIN SEVERITY_ORDER |-> Cardinality({a \in A : alerts[a].severity = s})]

TacticRecord(alerts, t) ==
  LET A == TacticAlerts(alerts, t)
  IN [tactic |-> t, alert_count |-> Cardinality(A), highest_severity |-> HighestSeverity(alerts, A),
      severity_breakdown |-> SeverityBreakdown(alerts, A), techniques |-> Techniques(alerts, A)]

\* Tactics come in the order of the kill chain, those it does not have last.
TacticOrder(t) == IF t \in ToSet(MITRE_TACTICS) THEN CHOOSE i \in 1..Len(MITRE_TACTICS) : MITRE_TACTICS[i] = t ELSE 99
Tactics(alerts) ==
  LET records == {TacticRecord(alerts, PrimaryTactic(alerts[a].technique)) : a \in MappedAlerts(alerts)}
  IN SortedBy(records, [r \in records |-> TacticOrder(r.tactic)])

\* One cell for each standard tactic, whether it has alerts or not.
MatrixGrid(alerts) ==
  [i \in 1..Len(MITRE_TACTICS) |->
     LET A == TacticAlerts(alerts, MITRE_TACTICS[i])
     IN [tactic |-> MITRE_TACTICS[i], techniques |-> Techniques(alerts, A), alert_count |-> Cardinality(A),
         highest_severity |-> IF A = {} THEN "NONE" ELSE HighestSeverity(alerts, A)]]

\* The highest severity is that of all alerts, mapped or not, but none when none is mapped.
Summary(alerts) ==
  LET all == DOMAIN alerts  mapped == MappedAlerts(alerts)
      board == Techniques(alerts, mapped)
  IN [total_alerts |-> Cardinality(all), mapped_alerts |-> Cardinality(mapped),
      unmapped_alerts |-> Cardinality(all \ mapped),
      highest_severity |-> IF mapped = {} THEN "NONE" ELSE HighestSeverity(alerts, all),
      techniques_count |-> Len(board), tactics |-> Tactics(alerts),
      top_techniques |-> SubSeq(board, 1, Min({10, Len(board)})), matrix_grid |-> MatrixGrid(alerts)]
=============================================================================
