--------------------------- MODULE ControllerUpdate ----------------------------
(***************************************************************************)
(* The controller's update and restart of itself: the two buttons and      *)
(* their timers in internal/server (server.go, controller_update.go), and  *)
(* StartControllerUpdate, SelfUpdateController and RestartController in    *)
(* internal/projects.  An update is carried out by a helper container of   *)
(* the new image, which outlives the controller it replaces; each of its   *)
(* calls to Docker is a step, so that two helpers may be at work at once.  *)
(*                                                                         *)
(* Releases are numbers; installs that follow a moving tag are left out.   *)
(* An operator whose comment begins "A mutant" is no part of the model.    *)
(***************************************************************************)
EXTENDS Process

CONSTANTS
  Updates,  \* clicks on "Update and restart"
  Releases, \* releases, by version
  Installed \* the one that runs in the beginning

ASSUME ReleasesAssumption == Releases \subseteq Nat /\ Installed \in Releases

VARIABLES
  updates,    \* how far each update is
  restarts,   \* is the timer of a restart running?
  overlapped, \* history: two helpers were at work at once
  cut,        \* history: a helper, or a restart, ended between a stop and a start
  blinded     \* history: a helper read the ports while the controller was restarting

updateVars == <<updates, restarts, overlapped, cut, blinded>>

InController == {"timer"}
InHelper == {"inspect", "pull", "look", "stop", "remove", "create", "start"}
Update == [pc : {"unused", "done"} \cup InController \cup InHelper,
           target : Releases \cup {None}, ports : BOOLEAN]
Unused == [pc |-> "unused", target |-> None, ports |-> FALSE]
Over == [pc |-> "done", target |-> None, ports |-> FALSE]

Container == [state : States, image : Releases, ports : BOOLEAN, by : Updates \cup {None}]

\* The controller runs as it was installed, with its ports published.
UpdateInit ==
  /\ controller = [state |-> "running", image |-> Installed, ports |-> TRUE, by |-> None]
  /\ updates = [u \in Updates |-> Unused]
  /\ restarts = FALSE
  /\ overlapped = FALSE /\ cut = FALSE /\ blinded = FALSE

Helping(u) == updates[u].pc \in InHelper
Comes(u, pc) ==
  updates' = [updates EXCEPT ![u] = IF pc = "done" THEN Over ELSE [@ EXCEPT !.pc = pc]]

\* A mutant: the updates that were asked for are remembered.
TimersLostRemembered(after) == restarts' = (restarts /\ ~Up) /\ updates' = after

\* What a process that ends takes with it: its timers, and the updates that no
\* helper has taken over.
TimersLost(after) ==
  /\ restarts' = (restarts /\ ~Up)
  /\ updates' = [u \in Updates |->
       IF Up /\ after[u].pc \in InController THEN Over ELSE after[u]]

-----------------------------------------------------------------------------

\* compareReleaseVersions: the release is newer.
Newer(release, running) == release > running

\* handleSettingsUpdate asks GitHub again for the latest release, which may be any
\* by now: releases are tagged and taken back.  Only a newer one sets the timer.
HandleSettingsUpdate(u) ==
  /\ updates[u].pc = "unused"
  /\ \E latest \in Releases :
       /\ Newer(latest, controller.image)
       /\ updates' = [updates EXCEPT ![u] = [pc |-> "timer", target |-> latest, ports |-> FALSE]]
  /\ Works
  /\ UNCHANGED <<controller, restarts, overlapped, cut, blinded>>

\* A mutant: the image is pulled once the old container has gone.
FollowingPullLate ==
  [timer |-> "inspect", inspect |-> "look", look |-> "stop", stop |-> "remove", remove |-> "pull",
   pull |-> "create", create |-> "start", start |-> "done"]

\* A mutant: the ports are read when the container has been stopped.
FollowingInspectLate ==
  [timer |-> "pull", pull |-> "look", look |-> "stop", stop |-> "inspect", inspect |-> "remove",
   remove |-> "create", create |-> "start", start |-> "done"]

\* The order of the calls in SelfUpdateController and RecreateContainer.
Following ==
  [timer |-> "inspect", inspect |-> "pull", pull |-> "look", look |-> "stop", stop |-> "remove",
   remove |-> "create", create |-> "start", start |-> "done"]

\* The timer fires; StartControllerUpdate pulls the image, writes the audit entry
\* and creates the helper container, whose name is its own, or gives up.
StartControllerUpdate(u) ==
  /\ updates[u].pc = "timer"
  /\ \E created \in BOOLEAN :
       /\ Comes(u, IF created THEN Following["timer"] ELSE "done")
       /\ overlapped' = (overlapped \/ (created /\ \E x \in Updates : Helping(x)))
  /\ UNCHANGED <<controller, restarts, cut, blinded>>

\* Docker reports the ports of a running container only, and so not those of one
\* that it is about to start again.
Inspect(u) ==
  /\ updates[u].pc = "inspect"
  /\ updates' = [updates EXCEPT
       ![u] = IF controller.state = "absent" THEN Over
              ELSE [@ EXCEPT !.pc = Following["inspect"], !.ports = Up /\ controller.ports]]
  /\ blinded' = (blinded \/ Restarting)
  /\ UNCHANGED <<controller, restarts, overlapped, cut>>

Pull(u) ==
  /\ updates[u].pc = "pull"
  /\ \E pulled \in BOOLEAN : Comes(u, IF pulled THEN Following["pull"] ELSE "done")
  /\ UNCHANGED <<controller, restarts, overlapped, cut, blinded>>

\* RecreateContainer looks whether there is a container to make room.
Look(u) ==
  /\ updates[u].pc = "look"
  /\ Comes(u, IF controller.state = "absent" THEN "create" ELSE Following["look"])
  /\ UNCHANGED <<controller, restarts, overlapped, cut, blinded>>

\* A container that is no longer there, or does not run, is as good as stopped;
\* one that Docker is about to start may be started all the same.
AfterStop == IF Up \/ Restarting THEN {"stopped"} \cup ({controller.state} \ {"running"})
             ELSE {controller.state}

Stop(u) ==
  /\ updates[u].pc = "stop"
  /\ \E state \in AfterStop : controller' = [controller EXCEPT !.state = state]
  /\ TimersLost([updates EXCEPT ![u].pc = Following["stop"]])
  /\ UNCHANGED <<overlapped, cut, blinded>>

\* By force, so a controller that another helper has started meanwhile dies too.
Remove(u) ==
  /\ updates[u].pc = "remove"
  /\ controller' = [controller EXCEPT !.state = "absent"]
  /\ TimersLost([updates EXCEPT ![u].pc = Following["remove"]])
  /\ UNCHANGED <<overlapped, cut, blinded>>

\* The name may have been taken by another helper since.
Create(u) ==
  /\ updates[u].pc = "create"
  /\ IF controller.state = "absent"
       THEN /\ controller' = [state |-> "created", image |-> updates[u].target,
                              ports |-> updates[u].ports, by |-> u]
            /\ Comes(u, Following["create"])
       ELSE Comes(u, "done") /\ UNCHANGED controller
  /\ UNCHANGED <<restarts, overlapped, cut, blinded>>

\* The container is started by its id: another helper's is left alone.
StartMine(u) ==
  /\ updates[u].pc = "start"
  /\ controller' = IF controller.by = u /\ controller.state # "absent"
                     THEN [controller EXCEPT !.state = "running"] ELSE controller
  /\ Comes(u, "done")
  /\ UNCHANGED <<restarts, overlapped, cut, blinded>>

\* Docker fails, or the helper's two minutes are over.
HelperCut(u) ==
  /\ Helping(u)
  /\ Works
  /\ Comes(u, "done")
  /\ cut' = (cut \/ updates[u].pc \in {"remove", "create", "start"})
  /\ UNCHANGED <<controller, restarts, overlapped, blinded>>

HandleSettingsRestart ==
  /\ ~restarts
  /\ Works
  /\ restarts' = TRUE
  /\ UNCHANGED <<controller, updates, overlapped, cut, blinded>>

Stops == controller' = [controller EXCEPT !.state = "restarting"]

\* RestartController: the audit entry, and Docker stops the container in order
\* to start it again.
RestartController ==
  /\ Up /\ restarts
  /\ Stops /\ TimersLost(updates)
  /\ UNCHANGED <<overlapped, cut, blinded>>

\* Either of them fails.
RestartFails ==
  /\ restarts /\ restarts' = FALSE
  /\ UNCHANGED <<controller, updates, overlapped, cut, blinded>>

\* The process dies by itself, and Docker starts it again after a while.
Crash ==
  /\ Up /\ Works
  /\ Stops /\ TimersLost(updates)
  /\ UNCHANGED <<overlapped, cut, blinded>>

\* Docker starts the container, or does not manage to.
DockerStarts ==
  /\ Restarting
  /\ \/ controller' = [controller EXCEPT !.state = "running"] /\ UNCHANGED <<work, cut>>
     \/ controller' = [controller EXCEPT !.state = "stopped"] /\ Works /\ cut' = TRUE
  /\ UNCHANGED <<updates, restarts, overlapped, blinded>>

InControllerNext ==
  \/ \E u \in Updates :
       HandleSettingsUpdate(u) \/ (StartControllerUpdate(u) /\ UNCHANGED work)
  \/ HandleSettingsRestart
  \/ RestartFails /\ UNCHANGED work

HelpersNext ==
  \E u \in Updates :
    \/ (Inspect(u) \/ Pull(u) \/ Look(u) \/ Stop(u) \/ Remove(u) \/ Create(u) \/ StartMine(u))
         /\ UNCHANGED work
    \/ HelperCut(u)

-----------------------------------------------------------------------------
(* Properties.                                                             *)

UpdateTypeOK ==
  /\ controller \in Container
  /\ updates \in [Updates -> Update]
  /\ {restarts, overlapped, cut, blinded} \subseteq BOOLEAN

\* Whatever helpers overlap, whichever of them find their image missing or the
\* name taken, the last one to end leaves a controller that runs, or that Docker
\* is about to start, unless one was cut off after it had stopped the old one.
ControllerSurvives ==
  (\A u \in Updates : ~Helping(u)) /\ ~cut => Up \/ Restarting

\* An update that runs alone leaves the controller the ports it had, even when an
\* earlier one failed on the way, and whatever restarts and crashes fall into it
\* but for the moment at which it reads the ports.
PortsKept == Up /\ ~overlapped /\ ~cut /\ ~blinded => controller.ports

\* Updates that do not overlap never take the controller back to an older
\* release, whatever is tagged or withdrawn while they are on their way.
ReleasesForward == [][~overlapped' => controller'.image >= controller.image]_<<controller, updateVars>>
=============================================================================
