-------------------------- MODULE MCSensorSignatures --------------------------
(* Conditions for model checking SensorSignatures: one of each kind that the audits    *)
(* treat differently.                                                                  *)
EXTENDS SensorSignatures, TLC

CONSTANTS process, listener, file, entry

Two        == {process, file}
TheKinds   == [c \in Conditions |-> CASE c = process  -> "process"
                                      [] c = listener -> "listener"
                                      [] c = file     -> "startup"
                                      [] c = entry    -> "log"]
=============================================================================
