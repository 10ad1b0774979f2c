----------------------------- MODULE MCHostAudit -----------------------------
(* A Windows host for model checking HostAudit: a script under a web server, a development *)
(* server's process, three sockets, two interfaces and two log entries.                    *)
EXTENDS HostAudit, TLC

CONSTANTS shell, node, rdp, dev, c2, lan, wan, l1, l2, NoProcess

TheProfiles ==
  shell :> [name |-> "powershell.exe", like |-> {"powershell"}, words |-> {"-enc", "-nop"},
            path |-> {"system32"}, parent |-> "w3wp.exe"]
  @@ node :> [name |-> "node.exe", like |-> {}, words |-> {}, path |-> {"temp"}, parent |-> "cmd.exe"]

In(ranges) == [form |-> "address", ranges |-> ranges]

TheSockets ==
  rdp :> [status |-> "LISTEN", bound |-> "wildcard", port |-> 3389, owner |-> NoProcess, remote |-> Absent]
  @@ dev :> [status |-> "LISTEN", bound |-> "wildcard", port |-> 8080, owner |-> node, remote |-> Absent]
  @@ c2 :> [status |-> "ESTABLISHED", bound |-> "local", port |-> 4444, owner |-> shell,
            remote |-> In({"global"})]

TheHosts == {
  [running |-> {shell, node}, open |-> {rdp, dev, c2}, up |-> {lan, wan}, profiles |-> {"ON"}, log |-> {l1}],
  [running |-> {node}, open |-> {rdp}, up |-> {lan}, profiles |-> {"OFF"}, log |-> {}] }

\* Nothing, or the listener's signature, has been seen.
TheSeen == {{}, {<<"listen", 3389, NoProcess>>}}

TheAddresses == lan :> In({"rfc1918"}) @@ wan :> In({"global"})
=============================================================================
