---------------------------- MODULE MCIncidentStore ----------------------------
(* Alerts for model checking IncidentStore, all of one key.  With a window of 2, a3,   *)
(* which is a drill's, lies between a1 and a2, and a4 is adjacent to a2 only: a session *)
(* that correlates the drill may write a window narrower than the one it has not read. *)
EXTENDS IncidentStore, TLC

CONSTANTS a1, a2, a3, a4

OneKey == {"ssh"}
Four   == {a1, a2, a3, a4}

EventKey == [a \in Alerts |-> "ssh"]
Times    == [a \in Alerts |-> CASE a = a1 -> 1 [] a = a3 -> 2 [] a = a2 -> 3 [] a = a4 -> 5]

OneDrill == {a3}

Symmetry == Permutations(Sessions) \cup Permutations(Incidents)
=============================================================================
