--------------------------- MODULE MCAlertRecurrence ---------------------------
(* Events for model checking AlertRecurrence.  With a window of 1, the event at 2 is   *)
(* adjacent to those at 1 and 3, which are not adjacent to each other, and the one at  *)
(* 4 to that at 3; one has another key.                                                *)
EXTENDS AlertRecurrence, TLC

CONSTANTS e1, e2, e3, e4, f2

TwoKeys == {e1, e2, e3, e4, f2}

EventKey  == [e \in Events |-> IF e = f2 THEN "port" ELSE "ssh"]
EventTime == [e \in Events |-> CASE e = e1 -> 1 [] e \in {e2, f2} -> 2 [] e = e3 -> 3 [] e = e4 -> 4]

Symmetry == Permutations(Audits) \cup Permutations(Alerts)
=============================================================================
