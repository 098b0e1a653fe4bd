------------------------------ MODULE Controller ------------------------------
(***************************************************************************)
(* The controller's background work as one system: event streams, backups, *)
(* the monitor and the update helpers, with the process they live and die  *)
(* with.  main does not wait for Shutdown: ListenAndServe returns as soon  *)
(* as it begins, and every request and goroutine ends with the process, by *)
(* a signal as by a crash.                                                 *)
(***************************************************************************)
EXTENDS DeployEvents, Backups, Monitor, ControllerUpdate

vars == <<controller, clock, work, eventsVars, backupsVars, monitorVars, updateVars>>

Init ==
  /\ clock = 0 /\ work = 0
  /\ UpdateInit /\ EventsInit /\ BackupsInit /\ MonitorInit

Memory == <<eventsVars, backupsVars, monitorVars>>

Starts == EventsLost /\ BackupsStart /\ MonitorStart

\* What becomes of the process's memory when its container stops or starts.
MemoryFollows ==
  IF Up /\ ~Up' THEN EventsLost /\ BackupsLost /\ MonitorLost
  ELSE IF ~Up /\ Up' THEN Starts
  ELSE UNCHANGED Memory

\* One step of one activity; the others stand still.
InProcess ==
  /\ Up
  /\ \/ EventsNext /\ UNCHANGED <<backupsVars, monitorVars, controller, updateVars>>
     \/ BackupsNext /\ UNCHANGED <<eventsVars, monitorVars, controller, updateVars>>
     \/ MonitorNext /\ UNCHANGED <<eventsVars, backupsVars, controller, updateVars>>
     \/ InControllerNext /\ UNCHANGED Memory
  /\ UNCHANGED clock

Outside ==
  /\ HelpersNext /\ MemoryFollows
  /\ UNCHANGED clock

\* The process ends, and starts anew in the same container.
Restarts ==
  /\ (RestartController /\ UNCHANGED work) \/ Crash \/ DockerStarts
  /\ MemoryFollows
  /\ UNCHANGED clock

Tick ==
  /\ clock < MaxTime /\ clock' = clock + 1
  /\ UNCHANGED <<controller, work, Memory, updateVars>>

Next == InProcess \/ Outside \/ Restarts \/ Tick

Spec == Init /\ [][Next]_vars

-----------------------------------------------------------------------------
(* Properties.                                                             *)

TypeOK ==
  ProcessTypeOK /\ EventsTypeOK /\ BackupsTypeOK /\ MonitorTypeOK /\ UpdateTypeOK
=============================================================================
