--------------------------- MODULE AlertNormalizer ---------------------------
(***************************************************************************)
(* AlertNormalizer (app/security/normalizer.py): the alert that is made of *)
(* a raw event.  A raw event is a record: the words of interest in its     *)
(* source type (like) and that type (source), the origin its producer has  *)
(* stated (empty if none), whether its text is marked as a drill, its      *)
(* event type, the level its tool gave it and the number of occurrences    *)
(* (as in RiskEngine), its addresses (as in IPClassifier), its ports, user *)
(* and timestamp, whether its description matches an attack signature, the *)
(* technique it states and the one MitreMapper finds for it.               *)
(***************************************************************************)
EXTENDS RiskEngine, IPClassifier

Origins == {"HOST_TELEMETRY", "HISTORICAL_LOG", "SIMULATED_DEMO", "SECURITY_DRILL"}

\* _infer_telemetry_origin: the mark of a drill comes first, then the name of the source.
InferOrigin(raw) ==
  CASE raw.drill -> "SECURITY_DRILL"
    [] ~raw.drill /\ raw.like \cap {"host", "sensor"} # {} -> "HOST_TELEMETRY"
    [] ~raw.drill /\ raw.like \cap {"host", "sensor"} = {} /\ "simulator" \in raw.like -> "SIMULATED_DEMO"
    [] OTHER -> "HISTORICAL_LOG"

\* An origin that the producer states is kept.
TelemetryOrigin(raw) == IF raw.origin # "" THEN raw.origin ELSE InferOrigin(raw)

PRIVILEGED_USERS == {"root", "admin", "administrator", "system", "sa"}

\* _sanitize_port: a port out of range, or that is no number, is none.
SanitizePort(p) == IF p # <<>> /\ p[1] \in 1..65535 THEN p ELSE <<>>

\* _normalize_timestamp tries the readings of a text in this order; what nothing reads is now,
\* and marked as invalid.  A timestamp is of a kind and has the readings that succeed for it.
Readings == <<"digits", "iso8601", "rfc2822", "logfile", "syslog">>
Timestamp(t) ==
  LET able == {i \in 1..Len(Readings) : t.kind = "text" /\ Readings[i] \in t.reads}
  IN CASE t.kind = "datetime" -> [time |-> "given", valid |-> TRUE]
       [] t.kind = "number" /\ "digits" \in t.reads -> [time |-> "digits", valid |-> TRUE]
       [] able # {} -> [time |-> Readings[CHOOSE i \in able : \A j \in able : i <= j], valid |-> TRUE]
       [] OTHER -> [time |-> "now", valid |-> FALSE]

\* What the risk engine is told: the exposure and the privilege come from the cleaned fields.
Risk(raw) ==
  [event |-> raw.event, tool |-> raw.source, level |-> raw.level, count |-> raw.count, confidence |-> <<>>,
   signature |-> raw.signature, external |-> IsPublic(Sanitize(raw.ip)),
   privileged |-> raw.user \in PRIVILEGED_USERS, benign |-> FALSE]

Normalize(raw) ==
  [origin |-> TelemetryOrigin(raw), event |-> raw.event, ip |-> Sanitize(raw.ip), port |-> SanitizePort(raw.port),
   score |-> Score(Risk(raw)), severity |-> SeverityLevel(Score(Risk(raw))), stamp |-> Timestamp(raw.stamp),
   technique |-> IF raw.technique # "" THEN raw.technique ELSE raw.maps, status |-> "OPEN"]
=============================================================================
