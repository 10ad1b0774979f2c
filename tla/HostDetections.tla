--------------------------- MODULE HostDetections ---------------------------
(***************************************************************************)
(* What HostSecuritySensor (app/security/host_sensor.py) concludes from    *)
(* what it has read of the host: the heuristics for one process, and how   *)
(* far a socket can be reached.  These are functions of what was read;     *)
(* HostAudit says when it is read.                                         *)
(*                                                                         *)
(* A process is a record: its exact name, the substrings of interest in    *)
(* its name (like), in its command line (words) and in its path (path,     *)
(* empty when the path cannot be read), and the name of its parent.        *)
(***************************************************************************)
EXTENDS Integers, FiniteSets

LOCAL When(c, S) == IF c THEN S ELSE {}
LOCAL Weight(c, n) == IF c THEN n ELSE 0

OFFENSIVE_BINARIES ==
  {"mimikatz.exe", "mimikatz", "chisel.exe", "chisel", "nmap.exe", "nmap", "masscan.exe", "masscan",
   "hydra.exe", "hydra", "socat", "responder.py", "bloodhound.exe", "bloodhound", "hashcat.exe",
   "hashcat", "cain.exe", "cain", "psexec.exe", "psexec", "xmrig.exe", "xmrig"}
OFFICE_PARENTS == {"winword.exe", "excel.exe", "powerpnt.exe", "outlook.exe"}
WEB_PARENTS == {"w3wp.exe", "nginx.exe", "nginx", "httpd.exe", "httpd", "apache2"}
SCRIPT_CHILDREN == {"powershell.exe", "cmd.exe", "wscript.exe", "cscript.exe", "mshta.exe", "sh", "bash"}
RANSOMWARE_DEFENSE_EVASION == {"vssadmin delete shadows", "wmic shadowcopy delete", "wbadmin delete catalog"}
CREDENTIAL_DUMPING_PATTERNS == {"procdump -ma lsass", "comsvcs.dll minidump", "sekurlsa"}
SYSTEM32_NAMES == {"svchost.exe", "lsass.exe", "csrss.exe", "smss.exe", "services.exe"}

-----------------------------------------------------------------------------
\* A finding names its event and what the signature distinguishes beside the process.
LOCAL F(event, of) == {[event |-> event, of |-> of]}

\* 1. Chains of parent and child.
Chains(p) ==
  When(p.name \in SCRIPT_CHILDREN,
       When(p.parent \in WEB_PARENTS, F("web_shell_probe", p.parent))
         \cup When(p.parent \in OFFICE_PARENTS, F("windows_suspicious_process", p.parent)))

\* 2. Offensive tools.
Tools(p) == When(p.name \in OFFENSIVE_BINARIES, F("suspicious_process", p.name))

\* 3. Indicators of a PowerShell command line carry weights.
PowerShellWeight(p) ==
  Weight("-enc" \in p.words, 3) + Weight(p.words \cap {"bypass", "unrestricted"} # {}, 2)
    + Weight(p.words \cap {"-w hidden", "windowstyle hidden", "-nop"} # {}, 2)
    + Weight(p.words \cap {"downloadstring", "iex", "net.webclient"} # {}, 3)

PowerShell(p) ==
  When("powershell" \in p.like /\ PowerShellWeight(p) >= 3, F("powershell_script_block", ""))

\* 4. Each way to purge backups is a finding of its own.
Purges(p) == UNION {F("windows_log_cleared", w) : w \in p.words \cap RANSOMWARE_DEFENSE_EVASION}

\* 5. The name of a system binary outside its directory.
Masquerade(p) ==
  When(p.name \in SYSTEM32_NAMES /\ p.path # {} /\ p.path \cap {"system32", "syswow64"} = {},
       F("masqueraded_process", p.name))

\* 6. Running from a temporary directory, unless the name is an updater's or a browser's.
Temporary(p) ==
  When(p.path \cap {"temp", "/dev/shm"} # {} /\ "updater" \notin p.like, F("suspicious_process", "tmp"))

\* 7. Dumps of credentials; "procdump" with "-ma" counts for every pattern.
Dumps(p) ==
  UNION {F("windows_suspicious_process", w) :
           w \in {w \in CREDENTIAL_DUMPING_PATTERNS :
                    w \in p.words \/ ("procdump" \in p.like /\ "-ma" \in p.words)}}

\* 8. and 9. Downloads with certutil, and switching the firewall off.
Transfers(p) ==
  When("certutil" \in p.like /\ p.words \cap {"-urlcache", "-split"} # {}, F("suspicious_command", ""))
    \cup When("netsh" \in p.like /\ {"advfirewall", "state off"} \subseteq p.words, F("host_firewall_disabled", ""))

\* _analyze_single_process, whose suppressions come first.
Detects(suppressed, p) ==
  When(p.name \notin suppressed,
       Chains(p) \cup Tools(p) \cup PowerShell(p) \cup Purges(p) \cup Masquerade(p)
         \cup Temporary(p) \cup Dumps(p) \cup Transfers(p))

-----------------------------------------------------------------------------
HIGH_RISK_PORTS == {21, 23, 4444, 1337, 5985, 3389, 445, 8080, 6667}
DevPorts == {8080, 8000}
OutboundPorts == {4444, 1337, 6667, 9001, 8888}

\* is_firewall_enabled: one profile that is OFF decides; nothing readable is indeterminate.
FirewallStates == {"enabled", "disabled", "indeterminate"}
FirewallEnabled(profiles) ==
  CASE "OFF" \in profiles -> "disabled"
    [] "OFF" \notin profiles /\ "ON" \in profiles -> "enabled"
    [] OTHER -> "indeterminate"

Mitigation(fw) ==
  CASE fw = "disabled" -> "UNFILTERED_EXPOSED" [] fw = "enabled" -> "FILTERED" [] OTHER -> "UNKNOWN"

\* A rule for the port only makes an enabled firewall more certain.
FirewallConfidence(fw, rule) ==
  CASE fw = "disabled" -> "HIGH"
    [] fw = "enabled" -> IF rule THEN "HIGH" ELSE "MEDIUM"
    [] OTHER -> "LOW"

\* How far a socket that is bound to an address of kind "loopback", "wildcard", "public" or
\* "local" can be reached, given the kinds of address of the interfaces that are up.
Reachability(bound, nets) ==
  CASE bound = "loopback" -> "LOOPBACK_ONLY"
    [] bound = "public" \/ (bound = "wildcard" /\ "public" \in nets) -> "INTERNET_EXPOSED"
    [] bound = "wildcard" /\ nets = {} -> "HOST_ISOLATED"
    [] OTHER -> "LAN_ACCESSIBLE"

ExposureTier(reach, mitigation) ==
  CASE reach = "INTERNET_EXPOSED" -> IF mitigation # "FILTERED" THEN "CRITICAL" ELSE "HIGH"
    [] reach = "LAN_ACCESSIBLE" -> IF mitigation # "FILTERED" THEN "HIGH" ELSE "MEDIUM"
    [] OTHER -> "LOW"

Confidence(reach, fwConfidence) ==
  CASE reach = "INTERNET_EXPOSED" -> "MEDIUM"
    [] reach = "LAN_ACCESSIBLE" -> IF fwConfidence # "LOW" THEN "HIGH" ELSE "MEDIUM"
    [] OTHER -> "HIGH"

Tiers == {"LOW", "MEDIUM", "HIGH", "CRITICAL"}
Rank(t) == CASE t = "LOW" -> 1 [] t = "MEDIUM" -> 2 [] t = "HIGH" -> 3 [] t = "CRITICAL" -> 4

\* The tier assess_socket_reachability returns for what it read.
Tier(bound, nets, fw) == ExposureTier(Reachability(bound, nets), Mitigation(fw))
=============================================================================
