--------------------------- MODULE DeployPipeline ---------------------------
(***************************************************************************)
(* The deploy pipeline of ONE web project: internal/projects/service.go    *)
(* (CreateProject, UpdateProject, RedeployProject, RollbackProject,        *)
(* DeleteProject, applyProject, autoRollbackProject), the deploy history   *)
(* of internal/store/project_page.go and RecreateContainer of              *)
(* internal/dockerx/service.go.                                            *)
(*                                                                         *)
(* Every HTTP handler runs on a goroutine of its own and nothing locks the *)
(* project, so each call that reads or writes something shared (SQLite,    *)
(* Docker, the registry) is an action of its own and a worker carries in   *)
(* its task what it has read so far.                                       *)
(*                                                                         *)
(* An operator whose comment begins "A mutant" is no part of the model: it *)
(* is the plausible mistake in the operator defined after it that one of   *)
(* the properties below would reveal.                                      *)
(***************************************************************************)
EXTENDS Integers, Sequences

CONSTANTS
  Workers,      \* goroutines that may serve project requests at once
  Digests,      \* image IDs ("sha256:..."), what a container really runs
  Tag,          \* the mutable image reference the project was created with
  FormRefs,     \* the image references that administrators may type into its form
  BadImages,    \* images whose container never answers the health check
  Confs,        \* the rest of the project's configuration, as a version
  Checked,      \* the configurations that set a health check path
  Faults,       \* which failures the environment may inject
  ListLimit,    \* how many deploys applyProject looks back through (20)
  MaxRequests,  \* bound: requests served after the project's creation
  None, Absent, Gone

ASSUME DigestsAssumption == None \notin Digests /\ Tag \notin Digests /\ Tag # None
ASSUME ConfsAssumption == None \notin Confs /\ Checked \subseteq Confs
ASSUME ListLimitAssumption == ListLimit \in Nat
ASSUME MaxRequestsAssumption == MaxRequests \in Nat
ASSUME FaultsAssumption ==
  Faults \subseteq {"pull", "docker", "slow", "publish", "cancel", "restart"}

Refs == Digests \cup {Tag}
ASSUME FormRefsAssumption == FormRefs \subseteq Refs
Record == [image : Refs, conf : Confs]

ASSUME AbsentAssumption == Absent \notin Record /\ Gone \notin Record /\ Absent # Gone

VARIABLES
  project,    \* the row of table projects: Absent, a Record, or Gone (deleted)
  deploys,    \* the rows of table project_deploys, by id; they go with the project
  container,  \* the container that holds the project's name, or None
  registry,   \* the image the Tag names in the registry
  local,      \* the image the Tag names on this Docker host, or None
  tasks,      \* what each worker is doing, and what it has read
  requests,   \* requests accepted so far (bounds the model)
  joined,     \* history: the workers whose request was not always alone
  cutOff,     \* history: a replacement was cut off, and no container started since
  trace       \* history: what the deploy of each row really did

vars == <<project, deploys, container, registry, local, tasks, requests, joined, cutOff, trace>>

Row == [status : {"running", "live", "failed"},
        ref : Refs, digest : Digests \cup {None}]

\* row is the deploy that created the container: its identity (created.ID).
Container == [row : Nat, image : Digests, conf : Confs, running : BOOLEAN]

ASSUME ContainerAssumption == None \notin Container

\* alone: no other deploy was under way when this one started.
Trace == [image : Digests \cup {None}, passed : BOOLEAN, auto : BOOLEAN, alone : BOOLEAN]

Labels == {"idle", "load", "start", "list", "pull", "inspect", "stop", "remove",
           "create", "boot", "confirm", "health", "publish", "live", "failed",
           "unhealthy", "rbRead", "rbWrite", "delStop", "delRemove"}

Task == [pc : Labels, auto : BOOLEAN, row : Nat, ref : Refs \cup {None},
         conf : Confs \cup {None}, pin : Refs \cup {None}, digest : Digests \cup {None}]

IdleTask == [pc |-> "idle", auto |-> FALSE, row |-> 0, ref |-> None,
             conf |-> None, pin |-> None, digest |-> None]

Init ==
  /\ project = Absent
  /\ deploys = <<>>
  /\ container = None
  /\ registry \in Digests
  /\ local = None
  /\ tasks = [w \in Workers |-> IdleTask]
  /\ requests = 0
  /\ joined = {}
  /\ cutOff = FALSE
  /\ trace = <<>>

-----------------------------------------------------------------------------

Exists == project \notin {Absent, Gone}

At(w, label) == tasks[w].pc = label
Goto(w, label) == tasks' = [tasks EXCEPT ![w].pc = label]
Return(w) == tasks' = [tasks EXCEPT ![w] = IdleTask]

\* A step of the container's replacement is between the stop and the start.
Replacing(w) == tasks[w].pc \in {"remove", "create", "boot"}

\* GetProject: the copy of the record that the rest of the deploy works from.
Snapshot(task) == [task EXCEPT !.ref = project.image, !.conf = project.conf,
                               !.pc = "start"]

\* A request enters an idle worker, and joins those that are at work.
Enter(w) ==
  LET company == {v \in Workers : ~At(v, "idle")}
  IN  /\ At(w, "idle")
      /\ joined' = IF company = {} THEN joined \ {w} ELSE joined \cup company \cup {w}

\* The bound MaxRequests is the model's.
Accept(w) ==
  /\ Enter(w)
  /\ requests < MaxRequests
  /\ requests' = requests + 1

-----------------------------------------------------------------------------
(* The handlers, up to the point where they call applyProject.             *)

Create(w) ==
  /\ Enter(w)
  /\ project = Absent
  /\ \E c \in Confs, skipDeploy \in BOOLEAN :
       /\ project' = [image |-> Tag, conf |-> c]
       /\ IF skipDeploy THEN UNCHANGED tasks ELSE Goto(w, "load")
  /\ UNCHANGED <<deploys, container, registry, local, requests, cutOff, trace>>

\* RedeployProject, RedeployProjectByWebhook and the database handlers.
Redeploy(w) ==
  /\ Accept(w)
  /\ Exists
  /\ tasks' = [tasks EXCEPT ![w] = Snapshot(@)]
  /\ UNCHANGED <<project, deploys, container, registry, local, cutOff, trace>>

\* recordFromInput takes any image reference; the form offers the stored one.
Update(w) ==
  /\ Accept(w)
  /\ Exists
  /\ \E ref \in FormRefs \cup {project.image}, c \in Confs :
       project' = [image |-> ref, conf |-> c]
  /\ Goto(w, "load")
  /\ UNCHANGED <<deploys, container, registry, local, cutOff, trace>>

\* RollbackProject picks a deploy of the history and its image pin.
Rollback(w) ==
  /\ Accept(w)
  /\ Exists
  /\ \E i \in DOMAIN deploys :
       LET pin == IF deploys[i].digest # None THEN deploys[i].digest ELSE deploys[i].ref
       IN  tasks' = [tasks EXCEPT ![w].pc = "rbRead", ![w].pin = pin]
  /\ UNCHANGED <<project, deploys, container, registry, local, cutOff, trace>>

\* store.DeleteProject: the foreign keys cascade over the deploy history, so
\* from here on nothing reads deploys.
Delete(w) ==
  /\ Accept(w)
  /\ Exists
  /\ project' = Gone
  /\ Goto(w, "delStop")
  /\ UNCHANGED <<deploys, container, registry, local, cutOff, trace>>

-----------------------------------------------------------------------------
(* autoRollbackProject and RollbackProject rewrite the whole record from a *)
(* copy read earlier: GetProject, set ImageRef, UpdateProject.             *)

ReadRecord(w) ==
  /\ At(w, "rbRead")
  /\ IF Exists
     THEN tasks' = [tasks EXCEPT ![w].pc = "rbWrite", ![w].conf = project.conf]
     ELSE Return(w)
  /\ UNCHANGED <<project, deploys, container, registry, local, requests, joined, cutOff, trace>>

WritePin(w) ==
  /\ At(w, "rbWrite")
  /\ IF Exists
     THEN /\ project' = [image |-> tasks[w].pin, conf |-> tasks[w].conf]
          /\ Goto(w, "load")
     ELSE Return(w) /\ UNCHANGED project
  /\ UNCHANGED <<deploys, container, registry, local, requests, joined, cutOff, trace>>

Load(w) ==
  /\ At(w, "load")
  /\ IF Exists THEN tasks' = [tasks EXCEPT ![w] = Snapshot(@)] ELSE Return(w)
  /\ UNCHANGED <<project, deploys, container, registry, local, requests, joined, cutOff, trace>>

-----------------------------------------------------------------------------
(* applyProject.                                                           *)

\* StartProjectDeploy; the insert fails when the project is gone.
StartDeploy(w) ==
  /\ At(w, "start")
  /\ IF Exists
     THEN LET t == tasks[w]
          IN  /\ deploys' = Append(deploys, [status |-> "running", ref |-> t.ref,
                                             digest |-> None])
              /\ trace' = Append(trace, [image |-> None, passed |-> FALSE, auto |-> t.auto,
                                         alone |-> \A v \in Workers : tasks[v].row = 0])
              /\ tasks' = [tasks EXCEPT ![w] =
                            [t EXCEPT !.row = Len(deploys) + 1, !.pin = None, !.digest = None,
                                      !.pc = IF t.auto THEN "pull" ELSE "list"]]
     ELSE Return(w) /\ UNCHANGED <<deploys, trace>>
  /\ UNCHANGED <<project, container, registry, local, requests, joined, cutOff>>

\* The live deploys with an image pin among the newest ListLimit rows.
LiveBefore(row) ==
  {i \in DOMAIN deploys : /\ i # row
                          /\ i > Len(deploys) - ListLimit
                          /\ deploys[i].status = "live"
                          /\ deploys[i].digest # None}

\* A mutant: the list read from its oldest end.
OldestHealthyPin(row) ==
  IF LiveBefore(row) = {} THEN None
  ELSE deploys[CHOOSE i \in LiveBefore(row) : \A j \in LiveBefore(row) : i <= j].digest

PreviousHealthyPin(row) ==
  IF LiveBefore(row) = {} THEN None
  ELSE deploys[CHOOSE i \in LiveBefore(row) : \A j \in LiveBefore(row) : j <= i].digest

ListDeploys(w) ==
  /\ At(w, "list")
  /\ tasks' = [tasks EXCEPT ![w].pin = PreviousHealthyPin(tasks[w].row), ![w].pc = "pull"]
  /\ UNCHANGED <<project, deploys, container, registry, local, requests, joined, cutOff, trace>>

\* shouldPullImage: an image ID is used as it is, a reference is pulled.
Pull(w) ==
  /\ At(w, "pull")
  /\ local' = IF tasks[w].ref = Tag THEN registry ELSE local
  /\ Goto(w, "inspect")
  /\ UNCHANGED <<project, deploys, container, registry, requests, joined, cutOff, trace>>

PullFails(w) ==
  /\ "pull" \in Faults
  /\ At(w, "pull")
  /\ tasks[w].ref = Tag
  /\ Goto(w, "failed")
  /\ UNCHANGED <<project, deploys, container, registry, local, requests, joined, cutOff, trace>>

-----------------------------------------------------------------------------
(* RecreateContainer: the old container is addressed by the project's      *)
(* container name, the new one by the ID that Docker returned.             *)

InspectOld(w) ==
  /\ At(w, "inspect")
  /\ Goto(w, IF container = None THEN "create" ELSE "stop")
  /\ UNCHANGED <<project, deploys, container, registry, local, requests, joined, cutOff, trace>>

\* "Not found" is accepted when stopping and when removing.
StopOld(w) ==
  /\ \/ At(w, "stop") /\ Goto(w, "remove")
     \/ At(w, "delStop") /\ Goto(w, "delRemove")
  /\ container' = IF container = None THEN None ELSE [container EXCEPT !.running = FALSE]
  /\ UNCHANGED <<project, deploys, registry, local, requests, joined, cutOff, trace>>

RemoveOld(w) ==
  /\ \/ At(w, "remove") /\ Goto(w, "create")
     \/ At(w, "delRemove") /\ Return(w)
  /\ container' = None
  /\ UNCHANGED <<project, deploys, registry, local, requests, joined, cutOff, trace>>

\* A mutant: the reference stands for the image it names.
ResolveToReference(ref) == ref

\* The image a create call resolves its reference to, on this host, now.
Resolve(ref) == IF ref = Tag THEN local ELSE ref

NewContainer(t) == [row |-> t.row, image |-> Resolve(t.ref), conf |-> t.conf,
                    running |-> FALSE]

\* A mutant: a create that fails on the name removes what holds the name.
CreateContainerCleaningUp(w) ==
  /\ At(w, "create")
  /\ IF container = None
     THEN /\ container' = NewContainer(tasks[w])
          /\ trace' = [trace EXCEPT ![tasks[w].row].image = Resolve(tasks[w].ref)]
          /\ Goto(w, "boot")
     ELSE Goto(w, "failed") /\ container' = None /\ UNCHANGED trace
  /\ UNCHANGED <<project, deploys, registry, local, requests, joined, cutOff>>

\* Docker refuses to create a second container of the same name.
CreateContainer(w) ==
  /\ At(w, "create")
  /\ IF container = None
     THEN /\ container' = NewContainer(tasks[w])
          /\ trace' = [trace EXCEPT ![tasks[w].row].image = Resolve(tasks[w].ref)]
          /\ Goto(w, "boot")
     ELSE Goto(w, "failed") /\ UNCHANGED <<container, trace>>
  /\ UNCHANGED <<project, deploys, registry, local, requests, joined, cutOff>>

\* Does the container that this deploy created still exist?
OwnsContainer(w) == container # None /\ container.row = tasks[w].row

BootContainer(w) ==
  /\ At(w, "boot")
  /\ IF OwnsContainer(w)
     THEN /\ container' = [container EXCEPT !.running = TRUE]
          /\ cutOff' = FALSE
          /\ Goto(w, "confirm")
     ELSE UNCHANGED <<container, cutOff>> /\ Goto(w, "failed")
  /\ UNCHANGED <<project, deploys, registry, local, requests, joined, trace>>

AfterContainer(t) == IF t.conf \in Checked THEN "health" ELSE "publish"

\* A mutant: the new container inspected by name instead of by ID.
ConfirmByName(w) ==
  /\ At(w, "confirm")
  /\ IF container # None
     THEN tasks' = [tasks EXCEPT ![w].digest = container.image,
                                 ![w].pc = AfterContainer(tasks[w])]
     ELSE Goto(w, "failed")
  /\ UNCHANGED <<project, deploys, container, registry, local, requests, joined, cutOff, trace>>

\* A mutant: the pin looked up in the registry, where the tag may have moved on.
ConfirmFromRegistry(w) ==
  /\ At(w, "confirm")
  /\ IF OwnsContainer(w)
     THEN tasks' = [tasks EXCEPT ![w].digest = IF tasks[w].ref = Tag THEN registry ELSE tasks[w].ref,
                                 ![w].pc = AfterContainer(tasks[w])]
     ELSE Goto(w, "failed")
  /\ UNCHANGED <<project, deploys, container, registry, local, requests, joined, cutOff, trace>>

Confirm(w) ==
  /\ At(w, "confirm")
  /\ IF OwnsContainer(w)
     THEN tasks' = [tasks EXCEPT ![w].digest = container.image,
                                 ![w].pc = AfterContainer(tasks[w])]
     ELSE Goto(w, "failed")
  /\ UNCHANGED <<project, deploys, container, registry, local, requests, joined, cutOff, trace>>

\* An image ID that somebody has typed need not be on this host; the old container
\* has gone by the time Docker says so.
ImageMissing(w) ==
  /\ At(w, "create")
  /\ tasks[w].ref # Tag
  /\ \A i \in DOMAIN trace : trace[i].image # tasks[w].ref

DockerFails(w) ==
  /\ "docker" \in Faults \/ ImageMissing(w)
  /\ \/ /\ tasks[w].pc \in {"inspect", "stop", "remove", "create", "boot", "confirm"}
        /\ Goto(w, "failed")
     \/ tasks[w].pc \in {"delStop", "delRemove"} /\ Return(w)
  /\ cutOff' = (cutOff \/ Replacing(w))
  /\ UNCHANGED <<project, deploys, container, registry, local, requests, joined, trace>>

-----------------------------------------------------------------------------
(* The health check, the routes and the end of the deploy.                 *)

\* The check's URL names the container: whichever container holds the name
\* answers it.
Answers == container # None /\ container.running /\ container.image \notin BadImages

HealthPasses(w) ==
  /\ At(w, "health")
  /\ Answers
  /\ Goto(w, "publish")
  /\ trace' = [trace EXCEPT ![tasks[w].row].passed = TRUE]
  /\ UNCHANGED <<project, deploys, container, registry, local, requests, joined, cutOff>>

\* A mutant: an attempt that fails is always followed by another.
HealthRetriesForever(w) ==
  /\ At(w, "health")
  /\ ~Answers
  /\ UNCHANGED vars

\* The startup window closes; with fault "slow" even on a good container.
HealthFails(w) ==
  /\ At(w, "health")
  /\ ~Answers \/ "slow" \in Faults
  /\ Goto(w, "unhealthy")
  /\ UNCHANGED <<project, deploys, container, registry, local, requests, joined, cutOff, trace>>

\* reconcileCaddy and upsertCloudflare: CaddyRouting models the first.
Publish(w) ==
  /\ At(w, "publish")
  /\ \/ Goto(w, "live")
     \/ "publish" \in Faults /\ Goto(w, "failed")
  /\ UNCHANGED <<project, deploys, container, registry, local, requests, joined, cutOff, trace>>

\* A mutant: the newest row is finished instead of the deploy's own.
FinishNewestRow(w, status) ==
  deploys' = IF Exists
             THEN [deploys EXCEPT ![Len(deploys)].status = status,
                                  ![Len(deploys)].digest = tasks[w].digest]
             ELSE deploys

\* FinishProjectDeploy; ErrNotFound when the row went with its project.
FinishRow(w, status) ==
  deploys' = IF Exists
             THEN [deploys EXCEPT ![tasks[w].row] =
                     [@ EXCEPT !.status = status, !.digest = tasks[w].digest]]
             ELSE deploys

Finish(w) ==
  /\ \/ At(w, "live") /\ FinishRow(w, "live")
     \/ At(w, "failed") /\ FinishRow(w, "failed")
  /\ Return(w)
  /\ UNCHANGED <<project, container, registry, local, requests, joined, cutOff, trace>>

\* What autoRollbackProject starts from; DisableAutoRollback is auto.
RollbackTask(pin) == [IdleTask EXCEPT !.pc = "rbRead", !.auto = TRUE, !.pin = pin]

\* A mutant: the rollback deploy may roll back in its turn.
EndlessFinishUnhealthy(w) ==
  /\ At(w, "unhealthy")
  /\ FinishRow(w, "failed")
  /\ IF tasks[w].pin # None /\ Exists
     THEN tasks' = [tasks EXCEPT ![w] = [RollbackTask(tasks[w].pin) EXCEPT !.auto = FALSE]]
     ELSE Return(w)
  /\ UNCHANGED <<project, container, registry, local, requests, joined, cutOff, trace>>

FinishUnhealthy(w) ==
  /\ At(w, "unhealthy")
  /\ FinishRow(w, "failed")
  /\ IF tasks[w].pin # None /\ ~tasks[w].auto /\ Exists
     THEN tasks' = [tasks EXCEPT ![w] = RollbackTask(tasks[w].pin)]
     ELSE Return(w)
  /\ UNCHANGED <<project, container, registry, local, requests, joined, cutOff, trace>>

-----------------------------------------------------------------------------
(* The environment.                                                        *)

\* CI moves the tag.
Push ==
  /\ registry' \in Digests \ {registry}
  /\ UNCHANGED <<project, deploys, container, local, tasks, requests, joined, cutOff, trace>>

\* The request's context ends (the client went away, or a store write
\* failed): the next call fails and so does the finalize that follows it.
Cancel(w) ==
  /\ "cancel" \in Faults
  /\ ~At(w, "idle")
  /\ Return(w)
  /\ cutOff' = (cutOff \/ Replacing(w))
  /\ UNCHANGED <<project, deploys, container, registry, local, requests, joined, trace>>

\* The controller stops and starts again; main() recovers no deploy.
Restart ==
  /\ "restart" \in Faults
  /\ \E w \in Workers : ~At(w, "idle")
  /\ tasks' = [w \in Workers |-> IdleTask]
  /\ cutOff' = (cutOff \/ \E w \in Workers : Replacing(w))
  /\ UNCHANGED <<project, deploys, container, registry, local, requests, joined, trace>>

Apply(w) ==
  \/ ReadRecord(w) \/ WritePin(w) \/ Load(w)
  \/ StartDeploy(w) \/ ListDeploys(w) \/ Pull(w) \/ PullFails(w)
  \/ InspectOld(w) \/ StopOld(w) \/ RemoveOld(w)
  \/ CreateContainer(w) \/ BootContainer(w) \/ Confirm(w) \/ DockerFails(w)
  \/ HealthPasses(w) \/ HealthFails(w) \/ Publish(w)
  \/ Finish(w) \/ FinishUnhealthy(w)

Next ==
  \/ \E w \in Workers :
       \/ Create(w) \/ Redeploy(w) \/ Update(w) \/ Rollback(w) \/ Delete(w)
       \/ Apply(w)
       \/ Cancel(w)
  \/ Push
  \/ Restart

Spec == Init /\ [][Next]_vars

\* Go schedules every goroutine, and Docker, the registry, Caddy and the
\* health check answer or fail every call made to them in the end. Nothing
\* obliges users, CI or the environment's failures.
FairSpec == Spec /\ \A w \in Workers : WF_vars(Apply(w))

-----------------------------------------------------------------------------
(* Properties.                                                             *)

\* The state has the shape the code's types give it.
TypeOK ==
  /\ project \in Record \cup {Absent, Gone}
  /\ deploys \in Seq(Row)
  /\ container \in Container \cup {None}
  /\ registry \in Digests
  /\ local \in Digests \cup {None}
  /\ tasks \in [Workers -> Task]
  /\ requests \in Nat
  /\ joined \subseteq Workers
  /\ cutOff \in BOOLEAN
  /\ trace \in Seq(Trace)
  /\ Len(trace) = Len(deploys)

\* An image pin in the history is the image of the container that this very
\* deploy created, however deploys interleave (applyProject takes it from an
\* inspect by ID): a rollback to a row returns to what that row deployed.
HistoryPinsOwnImage ==
  \A i \in DOMAIN deploys :
    /\ deploys[i].digest # None => deploys[i].digest = trace[i].image
    /\ deploys[i].status = "live" => deploys[i].digest # None

\* One request starts at most two deploys: a failed health check is rolled
\* back once, and the rollback is never rolled back in its turn.
OneRollbackPerRequest == Len(deploys) <= 2 * (requests + 1)

\* Concurrent deploys never destroy each other's containers altogether: as soon
\* as no worker is inside RecreateContainer, a project that ever had a container
\* has a running one, unless a failure of Docker or an interruption has cut a
\* replacement off since a container last started.
ServingSurvives ==
  (/\ Exists
   /\ \E i \in DOMAIN trace : trace[i].image # None
   /\ \A w \in Workers : ~Replacing(w)
   /\ ~cutOff)
  => container # None /\ container.running

Last == Len(deploys)

\* Whatever overlaps or fails: when the newest deploy is live, and no other was
\* under way when it started, its own container, with its image, is running.
LiveMeansServing ==
  (Exists /\ Last > 0 /\ deploys[Last].status = "live" /\ trace[Last].alone)
  => /\ container # None
     /\ container.running
     /\ container.row = Last
     /\ container.image = deploys[Last].digest

\* Of a request that has been alone: once an automatic rollback has its container,
\* the project and the container are at the newest image that was live before
\* the failed deploy, whether or not the rollback's own health check passes.
RollbackRestoresPrevious ==
  \A w \in Workers \ joined :
    (tasks[w].auto /\ tasks[w].digest # None /\ Exists)
    => LET before == {i \in 1..(tasks[w].row - 2) : deploys[i].status = "live"}
       IN  \E i \in before :
             /\ \A j \in before : j <= i
             /\ project.image = deploys[i].digest
             /\ container # None
             /\ container.image = deploys[i].digest

\* applyProject reports "Rolling back to the last healthy image": the image an
\* automatic rollback pins was live after a health check that it passed.
RollbackPinWasHealthy ==
  \A w \in Workers :
    (At(w, "rbRead") /\ tasks[w].auto)
    => \E i \in DOMAIN deploys : deploys[i].digest = tasks[w].pin /\ trace[i].passed

\* applyProject reports "Deployment is live." and records the row as live: at
\* that moment the project's container is the one this deploy created.
LiveDeployIsServing == \A w \in Workers : At(w, "live") => OwnsContainer(w)

\* The deploy history keeps the promise of DeployLog: append-only, settled once,
\* and the project's image reference always the tag, one that is typed into the form,
\* or one that the history names.
History == INSTANCE DeployLog WITH
             log <- deploys, image <- IF Exists THEN project.image ELSE None

ImplementsDeployLog == History!Spec

\* Every request ends, and with it the rows it opened are settled: as long as the
\* controller runs and no request is interrupted, no deploy stays "running".
RequestsEnd ==
  /\ \A w \in Workers : ~At(w, "idle") ~> At(w, "idle")
  /\ <>[](Exists => \A i \in DOMAIN deploys : deploys[i].status # "running")
=============================================================================
