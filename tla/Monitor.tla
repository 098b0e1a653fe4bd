------------------------------- MODULE Monitor --------------------------------
(***************************************************************************)
(* The resource monitor of internal/monitor/service.go: one goroutine that *)
(* checks memory and disk every so often and mails a warning, held back    *)
(* for a while after a mail that said the same.                            *)
(*                                                                         *)
(* A warning is the set of the resources that are low.  An operator whose  *)
(* comment begins "A mutant" is no part of the model.                      *)
(***************************************************************************)
EXTENDS Process

CONSTANTS
  Resources, \* what can be low
  Interval,  \* VPSWarningCheckMinutes
  Cooldown   \* VPSWarningCooldownMinutes

ASSUME MonitorAssumption == Interval \in Nat /\ Cooldown \in Nat

VARIABLES
  monitor,  \* what the goroutine is doing, and for which warning
  lastSent, \* when each warning was last sent
  mails     \* history: the mails of this process that were handed over

monitorVars == <<monitor, lastSent, mails>>

Keys == (SUBSET Resources) \ {{}}
Waiting(t) == [pc |-> "wait", key |-> {}, at |-> t]

MonitorInit ==
  /\ monitor = Waiting(clock)
  /\ lastSent = [k \in Keys |-> None]
  /\ mails = {}

CoolingDown(k) == lastSent[k] # None /\ clock - lastSent[k] < Cooldown

-----------------------------------------------------------------------------

\* checkAndNotify up to the mail.  A check that finds nothing, cannot collect
\* the figures or is held back sets the timer again.
CheckAndNotify ==
  /\ monitor.pc = "wait" /\ clock >= monitor.at
  /\ \E low \in SUBSET Resources :
       IF low = {} \/ CoolingDown(low)
         THEN monitor' = Waiting(clock + Interval) /\ UNCHANGED work
         ELSE Works /\ monitor' = [pc |-> "send", key |-> low, at |-> clock]
  /\ UNCHANGED <<lastSent, mails>>

\* A mutant: the cooldown begins with the attempt.
AfterFailureCooling == [monitor EXCEPT !.pc = "record"]

\* A mail that failed leaves no trace but in the log.
AfterFailure == Waiting(clock + Interval)

\* The mail arrives, or does not, or arrives although Send reports an error.
SendMail ==
  /\ monitor.pc = "send"
  /\ \E fails, arrives \in BOOLEAN :
       /\ fails \/ arrives
       /\ mails' = IF arrives THEN mails \cup {[key |-> monitor.key, at |-> clock, sure |-> ~fails]}
                   ELSE mails
       /\ monitor' = IF fails THEN AfterFailure ELSE [monitor EXCEPT !.pc = "record"]
  /\ UNCHANGED lastSent

\* A mutant: the cooldown runs from the check, not from the mail.
SentAtCheck == monitor.at

SentAt == clock

\* lastSent, and the timer of the next check.
RecordSent ==
  /\ monitor.pc = "record"
  /\ lastSent' = [lastSent EXCEPT ![monitor.key] = SentAt]
  /\ monitor' = Waiting(clock + Interval)
  /\ UNCHANGED mails

MonitorNext == CheckAndNotify \/ ((SendMail \/ RecordSent) /\ UNCHANGED work)

\* lastSent is in memory only.
MonitorLost ==
  /\ monitor' = Waiting(MaxTime + 1)
  /\ lastSent' = [k \in Keys |-> None] /\ mails' = {}

\* The first check comes ten seconds after the start.
MonitorStart ==
  /\ monitor' = Waiting(clock)
  /\ lastSent' = [k \in Keys |-> None] /\ mails' = {}

-----------------------------------------------------------------------------
(* Properties.                                                             *)

MonitorTypeOK ==
  /\ monitor \in [pc : {"wait", "send", "record"}, key : SUBSET Resources,
                  at : 0..(MaxTime + Interval + 1)]
  /\ lastSent \in [Keys -> Times \cup {None}]
  /\ mails \subseteq [key : Keys, at : Times, sure : BOOLEAN]

\* Between two mails with the same warning lies the cooldown, however long a
\* mail takes, as long as the process lives and errors mean that nothing was sent.
MailsSpaced ==
  \A m, n \in mails : m.key = n.key /\ m.sure /\ m.at < n.at => n.at - m.at >= Cooldown

\* A warning is held back only after a mail with the same warning went out: a
\* failed mail is tried again at the next check.
SilenceEarned ==
  \A k \in Keys : CoolingDown(k) => \E m \in mails : m.key = k /\ m.sure
=============================================================================
