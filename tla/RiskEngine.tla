----------------------------- MODULE RiskEngine -----------------------------
(***************************************************************************)
(* RiskEngine (app/security/risk_engine.py): the score and the severity of *)
(* one event.  An event is a record: its type (event), the tool it comes   *)
(* from, the tool's level and the number of occurrences (each a sequence   *)
(* of at most one number, empty when there is none or it is no number),    *)
(* the confidence of the detection in tenths (likewise), and whether it    *)
(* has a known signature, an external address, a privileged user, a benign *)
(* context.                                                                *)
(***************************************************************************)
EXTENDS Integers, Sequences

Given(s) == s # <<>>
Lesser(a, b) == IF a < b THEN a ELSE b
Greater(a, b) == IF a < b THEN b ELSE a

\* BASE_SEVERITY_MAP, by score.
Bases == {15, 20, 25, 30, 35, 40, 45, 50, 55, 60, 65, 70, 75, 80}
EventsOf(n) ==
  CASE n = 15 -> {"ssh_login_successful", "windows_successful_logon", "windows_process_creation",
                  "sysmon_process_creation"}
    [] n = 20 -> {"sysmon_dns_query", "sysmon_network_connection", "windows_special_privileges", "windows_ntlm_auth"}
    [] n = 25 -> {"file_integrity_change", "network_anomaly"}
    [] n = 30 -> {"sudo_command_execution", "wazuh_alert"}
    [] n = 35 -> {"network_scan", "firewall_blocked_traffic", "web_reconnaissance"}
    [] n = 40 -> {"insecure_listening_port", "web_scanner_activity"}
    [] n = 45 -> {"ssh_authentication_failure", "windows_failed_logon", "windows_account_created",
                  "windows_defender_action"}
    [] n = 50 -> {"ssh_invalid_user", "windows_scheduled_task"}
    [] n = 55 -> {"windows_network_share", "windows_service_installed", "rootcheck_anomaly"}
    [] n = 60 -> {"sysmon_registry_event", "sysmon_suspicious_dns", "sysmon_suspicious_network", "suspicious_command",
                  "powershell_script_block", "suspicious_outbound_connection", "web_xss_attempt"}
    [] n = 65 -> {"windows_privilege_escalation", "windows_suspicious_process", "sysmon_suspicious_process",
                  "suspicious_process", "denial_of_service"}
    [] n = 70 -> {"masqueraded_process", "host_firewall_disabled", "inhibit_system_recovery",
                  "persistence_startup_created", "web_path_traversal"}
    [] n = 75 -> {"sysmon_process_access", "windows_defender_threat", "cryptominer_detected", "exploit_attempt",
                  "web_shell_probe"}
    [] n = 80 -> {"windows_log_cleared", "web_sql_injection"}

BaseSeverity(event) ==
  IF \E n \in Bases : event \in EventsOf(n) THEN CHOOSE n \in Bases : event \in EventsOf(n) ELSE 30

\* The level of the tool may raise the base, and never lowers it.
LevelFloor(tool, level) ==
  CASE tool = "wazuh" /\ level >= 12 -> 70
    [] tool = "wazuh" /\ level \in 8..11 -> 50
    [] tool = "wazuh" /\ level \in 5..7 -> 35
    [] tool = "suricata" /\ level = 1 -> 65
    [] tool = "suricata" /\ level = 2 -> 45
    [] tool = "suricata" /\ level = 3 -> 25
    [] OTHER -> 0

Base(e) == IF Given(e.level) THEN Greater(BaseSeverity(e.event), LevelFloor(e.tool, e.level[1]))
           ELSE BaseSeverity(e.event)

\* A burst counts for more; a count that is no number, or less than one, is one.
Frequency(n) ==
  CASE n >= 30 -> 30 [] n \in 10..29 -> 20 [] n \in 5..9 -> 10 [] n \in 2..4 -> 5 [] OTHER -> 0

FrequencyOf(e) == IF Given(e.count) THEN Frequency(e.count[1]) ELSE 0

\* A confidence that is given takes the place of the known signature.
Confidence10(e) ==
  IF Given(e.confidence) THEN Greater(0, Lesser(10, e.confidence[1]))
  ELSE IF e.signature THEN 10 ELSE 0

Score(e) ==
  LET raw == Base(e) + FrequencyOf(e) + Confidence10(e)
               + (IF e.external THEN 5 ELSE 0) + (IF e.privileged THEN 10 ELSE 0) - (IF e.benign THEN 20 ELSE 0)
  IN Lesser(100, Greater(0, raw))

\* get_severity_level
SeverityLevel(score) ==
  CASE score >= 75 -> "CRITICAL" [] score \in 50..74 -> "HIGH" [] score \in 25..49 -> "MEDIUM" [] OTHER -> "LOW"

SeverityRank(s) == CASE s = "LOW" -> 1 [] s = "MEDIUM" -> 2 [] s = "HIGH" -> 3 [] s = "CRITICAL" -> 4
=============================================================================
