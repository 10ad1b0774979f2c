------------------------------ MODULE MCSocViews ------------------------------
(* One place for requests that read and one for requests that write and the simulator; a guest, *)
(* an analyst's session with and without its token, an administrator's key and a local client.  *)
EXTENDS SocViews

CONSTANTS reader, writer, s1

Client(local, key, cookie, csrf) == [local |-> local, key |-> key, cookie |-> cookie, csrf |-> csrf]
Signed(csrf) == Client(FALSE, "none", s1, csrf)
Stranger == Client(FALSE, "none", "none", FALSE)
Local == Client(TRUE, "ADMIN", "none", FALSE)
WrongKey == Client(FALSE, "wrong", s1, TRUE)

\* Guests look at everything that has a form of its own for them, and only an administrator
\* deletes; the others try.
TheCredentials ==
  [kind \in {"alert", "incident", "host"} |-> {Stranger}]
  @@ [kind \in {"stats", "report"} |-> {Signed(FALSE), Local}]
  @@ [kind \in {"dashboard", "socket"} |-> {Stranger, Signed(FALSE)}]
  @@ [kind \in {"delete", "clear", "logs"} |-> {Stranger, Signed(TRUE), Local}]
  @@ [kind \in {"upload", "set_alert", "set_incident"} |-> {Stranger, Signed(TRUE), Signed(FALSE), WrongKey}]
TheRoles == s1 :> "ANALYST"

\* Lists are part of the dashboard, samples and drills are stored as the simulator's alerts are,
\* and audits are those of a dashboard and of a database that has been cleared.
TheKinds ==
  reader :> Views \ {"alerts", "incidents"}
  @@ writer :> (Changes \ {"samples", "drill", "audit"}) \cup {"logs", "simulate"}

\* The server's own page, one from elsewhere, and a client that is not a browser.
Origin(form, host) == [form |-> form, scheme |-> "https", host |-> host, port |-> <<>>, more |-> FALSE]
TheHeaders == {Origin("absent", ""), Origin("origin", "soc"), Origin("origin", "elsewhere")}
TheOrigins == {Origin("origin", "soc")}

Raw(source, like, origin, drill, event, technique) ==
  [source |-> source, like |-> like, origin |-> origin, drill |-> drill, event |-> event, level |-> <<1>>,
   count |-> <<>>, ip |-> Absent, port |-> <<>>, user |-> "", stamp |-> [kind |-> "datetime", reads |-> {}],
   signature |-> TRUE, technique |-> technique, maps |-> "T1498"]

\* A log may come from a tool called a simulator, and a finding may quote a drill.
TheEvents == [
  simulate |-> {Raw("suricata", {}, "SIMULATED_DEMO", FALSE, "denial_of_service", "")},
  upload |-> {Raw("generic", {"simulator"}, "HISTORICAL_LOG", FALSE, "windows_successful_logon", "T1078")},
  samples |-> {},
  audit |-> {Raw("host", {"host"}, "HOST_TELEMETRY", TRUE, "host_firewall_disabled", "T1562.004")},
  drill |-> {}]
=============================================================================
