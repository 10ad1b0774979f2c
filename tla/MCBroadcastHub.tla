---------------------------- MODULE MCBroadcastHub ----------------------------
(* Two analysts and a guest, a loop and a request, for model checking BroadcastHub.    *)
EXTENDS BroadcastHub, TLC

CONSTANTS analyst1, analyst2, guest

Symmetry == Permutations({analyst1, analyst2})
=============================================================================
