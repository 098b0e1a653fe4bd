------------------------------- MODULE Process --------------------------------
(***************************************************************************)
(* What the background activities of the controller share: the process     *)
(* itself (cmd/caddytower/main.go), which runs while the container         *)
(* caddytower does, and a clock.                                           *)
(***************************************************************************)
EXTENDS Integers, FiniteSets, Sequences

CONSTANTS
  MaxTime,   \* bound: the clock
  MaxWork,   \* bound: requests, events, warnings and faults, all together
  None

ASSUME BoundsAssumption == MaxTime \in Nat /\ MaxWork \in Nat /\ None \notin Int

VARIABLES
  controller, \* the container caddytower
  clock,
  work        \* requests, events, warnings and faults so far

Times == 0..MaxTime

\* Only a running container has a process; one that is restarting has none until
\* Docker starts it again.
States == {"running", "restarting", "created", "stopped", "absent"}
Up == controller.state = "running"
Restarting == controller.state = "restarting"

Works == work < MaxWork /\ work' = work + 1

ProcessTypeOK ==
  /\ controller.state \in States
  /\ clock \in Times
  /\ work \in 0..MaxWork
=============================================================================
