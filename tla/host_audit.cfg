SPECIFICATION Spec
CONSTANTS
  shell = shell
  node = node
  rdp = rdp
  dev = dev
  c2 = c2
  lan = lan
  wan = wan
  l1 = l1
  l2 = l2
  NoProcess = NoProcess
  Processes = {shell, node}
  Profile <- TheProfiles
  Suppressed = {}
  Sockets = {rdp, dev, c2}
  Socket <- TheSockets
  DevRuntimes = {node}
  Nics = {lan, wan}
  NicAddress <- TheAddresses
  Entries = {l1, l2}
  MaxLog = 1
  OS = "Windows"
  InitialHosts <- TheHosts
  InitialSeen <- TheSeen
  MaxChanges = 2
  MaxFailures = 2
INVARIANTS
  FindingsWereTrue
  
CHECK_DEADLOCK FALSE
