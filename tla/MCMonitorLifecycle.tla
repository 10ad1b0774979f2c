-------------------------- MODULE MCMonitorLifecycle --------------------------
(* Values for model checking MonitorLifecycle: the operations a run issues, and the  *)
(* permutations under which its safety properties do not change.                     *)
EXTENDS MonitorLifecycle, TLC

HostOps == {"startHost", "stopHost"}
AllOps  == Operations

Symmetry == Permutations(Requests) \cup Permutations(Workers) \cup Permutations(Tasks)
            \cup Permutations(Manual)
=============================================================================
