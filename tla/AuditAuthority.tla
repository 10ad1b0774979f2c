---------------------------- MODULE AuditAuthority ----------------------------
(***************************************************************************)
(* What the host monitor promises about pausing, without locks, tasks,     *)
(* threads or counters.                                                    *)
(*                                                                         *)
(* Automatic audits gather findings in the background.  Monitoring is      *)
(* switched on and off; every switch-off opens a new epoch.  An audit may  *)
(* be sealed (allowed to commit its findings) only while monitoring is on  *)
(* and only in the epoch it began in, and monitoring cannot be switched on *)
(* again while an earlier audit is still sealed.  So the findings of an    *)
(* audit that was cut off by a pause never arrive after a resume.          *)
(***************************************************************************)
EXTENDS Naturals

CONSTANT Workers        \* the threads that run automatic audits

VARIABLES on,           \* monitoring is switched on
          epoch,        \* how many times it has been switched off
          audit         \* Workers -> what each audit is allowed to do

avars == <<on, epoch, audit>>

NoAudit == [state |-> "none", epoch |-> 0]
Audit   == [state : {"none", "gathering", "sealed"}, epoch : Nat]

AInit ==
  /\ on = FALSE
  /\ epoch = 0
  /\ audit = [w \in Workers |-> NoAudit]

TurnOn ==
  /\ \A w \in Workers : audit[w].state # "sealed"
  /\ on' = TRUE
  /\ UNCHANGED <<epoch, audit>>

TurnOff ==
  /\ on' = FALSE
  /\ epoch' = epoch + 1
  /\ UNCHANGED audit

BeginAudit(w) ==
  /\ on
  /\ audit[w].state = "none"
  /\ audit' = [audit EXCEPT ![w] = [state |-> "gathering", epoch |-> epoch]]
  /\ UNCHANGED <<on, epoch>>

Seal(w) ==
  /\ on
  /\ audit[w] = [state |-> "gathering", epoch |-> epoch]
  /\ audit' = [audit EXCEPT ![w].state = "sealed"]
  /\ UNCHANGED <<on, epoch>>

\* The audit is over: its findings are committed (only if it was sealed) or discarded.
Conclude(w) ==
  /\ audit[w].state # "none"
  /\ audit' = [audit EXCEPT ![w] = NoAudit]
  /\ UNCHANGED <<on, epoch>>

\* The process ends, by a shutdown or a crash, and everything in memory with it.
Vanish ==
  /\ on' = FALSE
  /\ epoch' = 0
  /\ audit' = [w \in Workers |-> NoAudit]

ANext ==
  \/ TurnOn \/ TurnOff \/ Vanish
  \/ \E w \in Workers : BeginAudit(w) \/ Seal(w) \/ Conclude(w)

ASpec == AInit /\ [][ANext]_avars

-----------------------------------------------------------------------------

ATypeOK ==
  /\ on \in BOOLEAN
  /\ epoch \in Nat
  /\ audit \in [Workers -> Audit]

\* While monitoring is on, an audit that may still commit belongs to the current epoch:
\* nothing gathered before a pause is committed after the resume that ends it.
SealedIsCurrent ==
  \A w \in Workers : on /\ audit[w].state = "sealed" => audit[w].epoch = epoch
=============================================================================
