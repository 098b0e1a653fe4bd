------------------------ MODULE DeployPipelineProofs ------------------------
(***************************************************************************)
(* Theorems about DeployPipeline, for any number of workers and any values *)
(* of the other constants.                                                 *)
(***************************************************************************)
EXTENDS DeployPipeline, SequenceTheorems, WellFoundedInduction, TLAPS

\* The labels at which a worker holds a row of the history that it opened.
BeforeCreate == {"list", "pull", "inspect", "stop", "remove", "create"}
Confirmed == {"health", "publish", "live", "unhealthy"}
InDeploy == BeforeCreate \cup Confirmed \cup {"boot", "confirm", "failed"}

\* An entry of the history names this image reference.
Named(ref) ==
  /\ ref # None
  /\ \E i \in DOMAIN deploys : ref \in {deploys[i].ref, deploys[i].digest}

\* What a worker's local copy is good for, at each of its labels.
SnapshotOK(w) ==
  /\ tasks[w].pc \in InDeploy \cup {"start"} => tasks[w].ref \in Refs /\ tasks[w].conf \in Confs
  /\ At(w, "rbWrite") => tasks[w].conf \in Confs
  /\ tasks[w].pc \in {"inspect", "stop", "remove", "create"} /\ tasks[w].ref = Tag
       => local # None

\* The row a worker holds is its own and still to be settled, and the image
\* it will be settled with is the one of the container created for that row.
RowOK(w) ==
  tasks[w].pc \in InDeploy
  => /\ tasks[w].row \in DOMAIN deploys
     /\ deploys[tasks[w].row].status = "running"
     /\ deploys[tasks[w].row].digest = None
     /\ tasks[w].digest \in {None, trace[tasks[w].row].image}
     /\ tasks[w].pc \in BeforeCreate => tasks[w].digest = None
     /\ tasks[w].pc \in Confirmed => tasks[w].digest # None

PinOK(w) ==
  /\ tasks[w].pc \in InDeploy /\ tasks[w].pin # None => Named(tasks[w].pin)
  /\ tasks[w].pc \in {"rbRead", "rbWrite"} => Named(tasks[w].pin)

DeleteOK(w) == tasks[w].pc \in {"delStop", "delRemove"} => project = Gone

TaskOK(w) == SnapshotOK(w) /\ RowOK(w) /\ PinOK(w) /\ DeleteOK(w)

RowsOwned ==
  \A v, w \in Workers :
    v # w /\ tasks[v].pc \in InDeploy /\ tasks[w].pc \in InDeploy
    => tasks[v].row # tasks[w].row

ContainerOK ==
  container # None => /\ container.row \in DOMAIN deploys
                      /\ trace[container.row].image = container.image

IInv ==
  /\ TypeOK
  /\ \A w \in Workers : TaskOK(w)
  /\ RowsOwned
  /\ HistoryPinsOwnImage
  /\ ContainerOK
  /\ project = Absent => deploys = <<>>

-----------------------------------------------------------------------------
(* How a step of one worker looks to the others.                           *)

\* Only worker w's task changes.
OnlyMoves(w) ==
  /\ tasks' \in [Workers -> Task]
  /\ \A v \in Workers \ {w} : tasks'[v] = tasks[v]

\* Worker w goes on to label, with all that it has read.
MovesTo(w, label) ==
  /\ OnlyMoves(w)
  /\ tasks'[w].pc = label
  /\ tasks'[w].auto = tasks[w].auto /\ tasks'[w].row = tasks[w].row
  /\ tasks'[w].ref = tasks[w].ref /\ tasks'[w].conf = tasks[w].conf
  /\ tasks'[w].pin = tasks[w].pin /\ tasks'[w].digest = tasks[w].digest

\* What a step of w leaves of the history for the others to rely on.
HistoryKept(w) ==
  /\ DOMAIN deploys \subseteq DOMAIN deploys'
  /\ \A i \in DOMAIN deploys :
       /\ deploys'[i].ref = deploys[i].ref
       /\ deploys[i].digest # None => deploys'[i].digest = deploys[i].digest
  /\ \A v \in Workers \ {w} :
       tasks[v].pc \in InDeploy
       => /\ deploys'[tasks[v].row] = deploys[tasks[v].row]
          /\ trace'[tasks[v].row].image = trace[tasks[v].row].image

\* The fields of a task have their types.
LEMMA TaskFields ==
  ASSUME TypeOK, NEW w \in Workers
  PROVE  /\ tasks[w].pc \in Labels
         /\ tasks[w].auto \in BOOLEAN
         /\ tasks[w].row \in Nat
         /\ tasks[w].ref \in Refs \cup {None}
         /\ tasks[w].conf \in Confs \cup {None}
         /\ tasks[w].pin \in Refs \cup {None}
         /\ tasks[w].digest \in Digests \cup {None}
  BY DEF TypeOK, Task

\* Ids of deploys are the places of their rows, in both sequences.
LEMMA RowFields ==
  ASSUME TypeOK
  PROVE  /\ DOMAIN deploys = 1..Len(deploys) /\ DOMAIN trace = DOMAIN deploys
         /\ Len(deploys) \in Nat
         /\ \A i \in DOMAIN deploys :
              /\ deploys[i] \in Row /\ trace[i] \in Trace
              /\ deploys[i].status \in {"running", "live", "failed"}
              /\ deploys[i].ref \in Refs
              /\ deploys[i].digest \in Digests \cup {None}
              /\ trace[i].image \in Digests \cup {None}
  <1>1. /\ deploys \in Seq(Row) /\ trace \in Seq(Trace)
        /\ Len(trace) = Len(deploys)
    BY DEF TypeOK
  <1>2. /\ DOMAIN deploys = 1..Len(deploys) /\ DOMAIN trace = 1..Len(trace)
        /\ Len(deploys) \in Nat
    BY <1>1, LenProperties
  <1>3. \A i \in 1..Len(deploys) : deploys[i] \in Row /\ trace[i] \in Trace
    BY <1>1, ElementOfSeq
  <1> QED
    BY <1>1, <1>2, <1>3 DEF Row, Trace

LEMMA GotoMoves ==
  ASSUME TypeOK, NEW w \in Workers, NEW label \in Labels, Goto(w, label)
  PROVE  MovesTo(w, label)
  <1>1. tasks[w] \in Task
    BY DEF TypeOK
  <1>2. [tasks[w] EXCEPT !.pc = label] \in Task
    BY <1>1 DEF Task
  <1>3. tasks' = [tasks EXCEPT ![w] = [tasks[w] EXCEPT !.pc = label]]
    BY DEF Goto
  <1>4. OnlyMoves(w) /\ tasks'[w] = [tasks[w] EXCEPT !.pc = label]
    BY <1>2, <1>3 DEF TypeOK, OnlyMoves
  <1> QED
    BY <1>1, <1>4 DEF MovesTo, Task

LEMMA ReturnIdles ==
  ASSUME TypeOK, NEW w \in Workers, Return(w)
  PROVE  OnlyMoves(w) /\ tasks'[w].pc = "idle"
  <1>1. IdleTask \in Task /\ IdleTask.pc = "idle"
    BY DEF IdleTask, Task, Labels
  <1> QED
    BY <1>1 DEF TypeOK, OnlyMoves, Return

\* What the others know stays true as long as the history is kept, the Tag
\* stays on the host and a deleted project stays deleted.
LEMMA OthersOK ==
  ASSUME IInv, NEW w \in Workers, OnlyMoves(w), HistoryKept(w),
         local # None => local' # None,
         project = Gone => project' = Gone
  PROVE  \A v \in Workers \ {w} : TaskOK(v)'
  <1> SUFFICES ASSUME NEW v \in Workers \ {w} PROVE TaskOK(v)'
    OBVIOUS
  <1>1. tasks'[v] = tasks[v] /\ TaskOK(v)
    BY DEF OnlyMoves, IInv
  <1>2. SnapshotOK(v)'
    BY <1>1 DEF TaskOK, SnapshotOK, At
  <1>3. RowOK(v)'
    BY <1>1 DEF TaskOK, RowOK, HistoryKept
  <1>4. ASSUME Named(tasks[v].pin) PROVE Named(tasks[v].pin)'
    <2>1. PICK i \in DOMAIN deploys : tasks[v].pin \in {deploys[i].ref, deploys[i].digest}
      BY <1>4 DEF Named
    <2>2. tasks[v].pin # None
      BY <1>4 DEF Named
    <2>3. i \in DOMAIN deploys' /\ tasks'[v].pin \in {deploys'[i].ref, deploys'[i].digest}
      BY <1>1, <2>1, <2>2 DEF HistoryKept
    <2> QED
      BY <1>1, <2>2, <2>3 DEF Named
  <1>5. PinOK(v)'
    BY <1>1, <1>4 DEF TaskOK, PinOK, Named
  <1>6. DeleteOK(v)'
    BY <1>1 DEF TaskOK, DeleteOK
  <1> QED
    BY <1>2, <1>3, <1>5, <1>6 DEF TaskOK

\* A step that leaves the history alone.
LEMMA QuietStep ==
  ASSUME IInv, NEW w \in Workers, OnlyMoves(w),
         UNCHANGED <<deploys, trace>>,
         requests' \in Nat, joined' \subseteq Workers, cutOff' \in BOOLEAN,
         registry' \in Digests,
         local' \in Digests \cup {None},
         local # None => local' # None,
         container' \in Container \cup {None},
         ContainerOK',
         project' \in Record \cup {Absent, Gone},
         project' = Absent => project = Absent,
         project = Gone => project' = Gone,
         TaskOK(w)',
         tasks'[w].pc \in InDeploy => tasks[w].pc \in InDeploy /\ tasks'[w].row = tasks[w].row
  PROVE  IInv'
  <1>1. TypeOK'
    BY DEF IInv, TypeOK, OnlyMoves
  <1>2. HistoryKept(w)
    BY DEF HistoryKept
  <1>3. \A v \in Workers : TaskOK(v)'
    BY <1>2, OthersOK
  <1>4. RowsOwned'
    BY DEF IInv, RowsOwned, OnlyMoves
  <1>5. HistoryPinsOwnImage'
    BY DEF IInv, HistoryPinsOwnImage
  <1>6. project' = Absent => deploys' = <<>>
    BY DEF IInv
  <1> QED
    BY <1>1, <1>3, <1>4, <1>5, <1>6 DEF IInv

\* A step that changes nothing but w's task and the project's record.
LEMMA LocalStep ==
  ASSUME IInv, NEW w \in Workers, OnlyMoves(w),
         UNCHANGED <<deploys, container, registry, local, trace>>,
         requests' \in Nat, joined' \subseteq Workers, cutOff' \in BOOLEAN,
         project' \in Record \cup {Absent, Gone},
         project' = Absent => project = Absent,
         project = Gone => project' = Gone,
         TaskOK(w)',
         tasks'[w].pc \in InDeploy => tasks[w].pc \in InDeploy /\ tasks'[w].row = tasks[w].row
  PROVE  IInv'
  <1>1. ContainerOK'
    BY DEF IInv, ContainerOK
  <1>2. /\ registry' \in Digests /\ local' \in Digests \cup {None}
        /\ container' \in Container \cup {None}
    BY DEF IInv, TypeOK
  <1> QED
    BY <1>1, <1>2, QuietStep

\* A step that gives up: the worker is idle again.
LEMMA ReturnStep ==
  ASSUME IInv, NEW w \in Workers, Return(w),
         cutOff' \in BOOLEAN \cup {cutOff},
         UNCHANGED <<project, deploys, container, registry, local, requests, joined, trace>>
  PROVE  IInv'
  <1>1. TypeOK
    BY DEF IInv
  <1>2. OnlyMoves(w) /\ tasks'[w].pc = "idle"
    BY <1>1, ReturnIdles
  <1>3. TaskOK(w)'
    BY <1>2 DEF TaskOK, SnapshotOK, RowOK, PinOK, DeleteOK, At, InDeploy, BeforeCreate, Confirmed
  <1> QED
    BY <1>1, <1>2, <1>3, LocalStep DEF TypeOK, InDeploy, BeforeCreate, Confirmed

\* A step that only moves a deploy on to a label its local copy is fit for.
LEMMA GotoStep ==
  ASSUME IInv, NEW w \in Workers, NEW label \in InDeploy, Goto(w, label),
         cutOff' \in BOOLEAN \cup {cutOff},
         UNCHANGED <<project, deploys, container, registry, local, requests, joined, trace>>,
         tasks[w].pc \in InDeploy,
         label \in BeforeCreate => tasks[w].pc \in BeforeCreate,
         label \in Confirmed => tasks[w].pc \in Confirmed,
         label \in {"inspect", "stop", "remove", "create"}
           => tasks[w].pc \in {"inspect", "stop", "remove", "create"}
  PROVE  IInv'
  <1>1. TypeOK /\ TaskOK(w)
    BY DEF IInv
  <1>2. MovesTo(w, label)
    BY <1>1, GotoMoves DEF Labels, InDeploy, BeforeCreate, Confirmed
  <1>3. label \notin {"rbRead", "rbWrite", "delStop", "delRemove"}
    BY DEF InDeploy, BeforeCreate, Confirmed
  <1>4. TaskOK(w)'
    <2>1. SnapshotOK(w)'
      BY <1>1, <1>2, <1>3 DEF TaskOK, SnapshotOK, MovesTo, At
    <2>2. RowOK(w)'
      BY <1>1, <1>2 DEF TaskOK, RowOK, MovesTo
    <2>3. PinOK(w)' /\ DeleteOK(w)'
      BY <1>1, <1>2, <1>3 DEF TaskOK, PinOK, DeleteOK, Named, MovesTo
    <2> QED
      BY <2>1, <2>2, <2>3 DEF TaskOK
  <1> QED
    BY <1>1, <1>2, <1>4, LocalStep DEF TypeOK, MovesTo

-----------------------------------------------------------------------------
(* The inductive invariant: one lemma per action.                          *)

LEMMA RecordFields ==
  ASSUME TypeOK, Exists
  PROVE  /\ project \in Record /\ project.image \in Refs /\ project.conf \in Confs
         /\ project # Absent /\ project # Gone
  BY DEF TypeOK, Exists, Record

\* A request enters its worker: what it does to the counter and the history.
LEMMA EnterTypes ==
  ASSUME TypeOK, NEW w \in Workers, Enter(w)
  PROVE  joined' \subseteq Workers
  BY DEF TypeOK, Enter

LEMMA AcceptTypes ==
  ASSUME TypeOK, NEW w \in Workers, Accept(w)
  PROVE  requests' \in Nat /\ joined' \subseteq Workers
  <1>1. requests' \in Nat
    BY DEF TypeOK, Accept
  <1> QED
    BY <1>1, EnterTypes DEF Accept

LEMMA CreateStep ==
  ASSUME IInv, NEW w \in Workers, Create(w)
  PROVE  IInv'
  <1>1. PICK c \in Confs, skipDeploy \in BOOLEAN :
          /\ project' = [image |-> Tag, conf |-> c]
          /\ IF skipDeploy THEN UNCHANGED tasks ELSE Goto(w, "load")
    BY DEF Create
  <1>2. project' \in Record /\ project' # Absent /\ project # Gone
    BY <1>1, AbsentAssumption DEF Record, Refs, Create
  <1>3. TypeOK /\ tasks \in [Workers -> Task]
    BY DEF IInv, TypeOK
  <1>4. OnlyMoves(w) /\ tasks'[w].pc \in {"idle", "load"}
    <2>1. CASE skipDeploy
      BY <1>1, <1>3, <2>1 DEF OnlyMoves, Create, Enter, At
    <2>2. CASE ~skipDeploy
      <3>1. Goto(w, "load") /\ "load" \in Labels
        BY <1>1, <2>2 DEF Labels
      <3> QED
        BY <1>3, <3>1, GotoMoves DEF MovesTo
    <2> QED
      BY <2>1, <2>2
  <1>5. TaskOK(w)'
    BY <1>4 DEF TaskOK, SnapshotOK, RowOK, PinOK, DeleteOK, At, InDeploy, BeforeCreate, Confirmed
  <1> QED
    BY <1>2, <1>3, <1>4, <1>5, LocalStep, EnterTypes
    DEF Create, TypeOK, InDeploy, BeforeCreate, Confirmed

\* The deploy starts from a copy of the record as it is now.
LEMMA SnapshotStep ==
  ASSUME IInv, NEW w \in Workers, Exists, tasks' = [tasks EXCEPT ![w] = Snapshot(@)],
         UNCHANGED <<project, deploys, container, registry, local, trace>>,
         requests' \in Nat, joined' \subseteq Workers, cutOff' \in BOOLEAN \cup {cutOff}
  PROVE  IInv'
  <1>1. tasks[w] \in Task /\ TypeOK
    BY DEF IInv, TypeOK
  <1>2. project.image \in Refs /\ project.conf \in Confs
    BY <1>1, RecordFields
  <1>3. /\ Snapshot(tasks[w]) \in Task
        /\ Snapshot(tasks[w]).pc = "start"
        /\ Snapshot(tasks[w]).ref = project.image
        /\ Snapshot(tasks[w]).conf = project.conf
    BY <1>1, <1>2 DEF Snapshot, Task, Labels
  <1>4. OnlyMoves(w) /\ tasks'[w] = Snapshot(tasks[w])
    BY <1>1, <1>3 DEF TypeOK, OnlyMoves
  <1>5. TaskOK(w)'
    BY <1>2, <1>3, <1>4
    DEF TaskOK, SnapshotOK, RowOK, PinOK, DeleteOK, At, InDeploy, BeforeCreate, Confirmed
  <1> QED
    BY <1>1, <1>3, <1>4, <1>5, LocalStep DEF TypeOK, InDeploy, BeforeCreate, Confirmed

LEMMA RedeployStep ==
  ASSUME IInv, NEW w \in Workers, Redeploy(w)
  PROVE  IInv'
  <1>1. requests' \in Nat /\ joined' \subseteq Workers
    BY AcceptTypes DEF IInv, Redeploy
  <1>2. cutOff' \in BOOLEAN
    BY DEF IInv, TypeOK, Redeploy
  <1> QED
    BY <1>1, <1>2, SnapshotStep DEF Redeploy

LEMMA UpdateStep ==
  ASSUME IInv, NEW w \in Workers, Update(w)
  PROVE  IInv'
  <1>1. TypeOK /\ requests' \in Nat /\ joined' \subseteq Workers /\ cutOff' \in BOOLEAN
    BY AcceptTypes DEF IInv, TypeOK, Update
  <1>2. project.image \in Refs /\ project # Gone /\ project # Absent
    BY <1>1, RecordFields DEF Update
  <1>3. project' \in Record
    BY <1>2, FormRefsAssumption DEF Update, Record, Refs
  <1>4. MovesTo(w, "load")
    BY <1>1, GotoMoves DEF Update, Labels
  <1>5. TaskOK(w)'
    BY <1>4
    DEF MovesTo, TaskOK, SnapshotOK, RowOK, PinOK, DeleteOK, At, InDeploy, BeforeCreate, Confirmed
  <1> QED
    BY <1>1, <1>2, <1>3, <1>4, <1>5, LocalStep, AbsentAssumption
    DEF Update, MovesTo, InDeploy, BeforeCreate, Confirmed

LEMMA RollbackStep ==
  ASSUME IInv, NEW w \in Workers, Rollback(w)
  PROVE  IInv'
  <1>1. TypeOK /\ requests' \in Nat /\ joined' \subseteq Workers /\ cutOff' \in BOOLEAN
    BY AcceptTypes DEF IInv, TypeOK, Rollback
  <1>2. PICK i \in DOMAIN deploys, pin \in Refs :
          /\ pin \in {deploys[i].ref, deploys[i].digest} /\ pin # None
          /\ tasks' = [tasks EXCEPT ![w].pc = "rbRead", ![w].pin = pin]
    <2>1. PICK i \in DOMAIN deploys :
            LET pin == IF deploys[i].digest # None THEN deploys[i].digest ELSE deploys[i].ref
            IN  tasks' = [tasks EXCEPT ![w].pc = "rbRead", ![w].pin = pin]
      BY DEF Rollback
    <2>2. deploys[i].ref \in Refs /\ deploys[i].digest \in Digests \cup {None}
      BY <1>1, RowFields
    <2> QED
      BY <2>1, <2>2, DigestsAssumption DEF Refs
  <1> DEFINE t == [tasks[w] EXCEPT !.pc = "rbRead", !.pin = pin]
  <1>3. tasks[w] \in Task
    BY <1>1 DEF TypeOK
  <1>4. t \in Task /\ t.pc = "rbRead" /\ t.pin = pin
    BY <1>3 DEF Task, Labels
  <1>5. tasks' = [tasks EXCEPT ![w] = t]
    BY <1>2
  <1> HIDE DEF t
  <1>6. OnlyMoves(w) /\ tasks'[w].pc = "rbRead" /\ tasks'[w].pin = pin
    BY <1>1, <1>4, <1>5 DEF TypeOK, OnlyMoves
  <1>7. UNCHANGED <<project, deploys, container, registry, local, trace>>
    BY DEF Rollback
  <1>8. Named(tasks[w].pin)'
    BY <1>2, <1>6, <1>7 DEF Named
  <1>9. TaskOK(w)'
    BY <1>6, <1>8
    DEF TaskOK, SnapshotOK, RowOK, PinOK, DeleteOK, At, InDeploy, BeforeCreate, Confirmed
  <1> QED
    BY <1>1, <1>6, <1>7, <1>9, LocalStep DEF TypeOK, InDeploy, BeforeCreate, Confirmed

LEMMA DeleteStep ==
  ASSUME IInv, NEW w \in Workers, Delete(w)
  PROVE  IInv'
  <1>1. TypeOK /\ requests' \in Nat /\ joined' \subseteq Workers /\ cutOff' \in BOOLEAN
    BY AcceptTypes DEF IInv, TypeOK, Delete
  <1>2. MovesTo(w, "delStop")
    BY <1>1, GotoMoves DEF Delete, Labels
  <1>3. TaskOK(w)'
    BY <1>2
    DEF Delete, MovesTo, TaskOK, SnapshotOK, RowOK, PinOK, DeleteOK, At, InDeploy,
        BeforeCreate, Confirmed
  <1> QED
    BY <1>1, <1>2, <1>3, LocalStep, AbsentAssumption
    DEF Delete, MovesTo, InDeploy, BeforeCreate, Confirmed

LEMMA ReadRecordStep ==
  ASSUME IInv, NEW w \in Workers, ReadRecord(w)
  PROVE  IInv'
  <1>1. CASE ~Exists
    BY <1>1, ReturnStep DEF ReadRecord
  <1>2. CASE Exists
    <2> DEFINE t == [tasks[w] EXCEPT !.pc = "rbWrite", !.conf = project.conf]
    <2>1. TypeOK /\ TaskOK(w) /\ tasks[w] \in Task
      BY DEF IInv, TypeOK
    <2>2. project.conf \in Confs
      BY <1>2, <2>1, RecordFields
    <2>3. t \in Task /\ t.pc = "rbWrite" /\ t.conf = project.conf /\ t.pin = tasks[w].pin
      BY <2>1, <2>2 DEF Task, Labels
    <2>4. tasks' = [tasks EXCEPT ![w] = t]
      BY <1>2 DEF ReadRecord
    <2> HIDE DEF t
    <2>5. /\ OnlyMoves(w) /\ tasks'[w].pc = "rbWrite" /\ tasks'[w].conf = project.conf
          /\ tasks'[w].pin = tasks[w].pin
      BY <2>1, <2>3, <2>4 DEF TypeOK, OnlyMoves
    <2>6. Named(tasks[w].pin)'
      BY <2>1, <2>5 DEF TaskOK, PinOK, ReadRecord, At, Named
    <2>7. TaskOK(w)'
      BY <2>2, <2>5, <2>6
      DEF TaskOK, SnapshotOK, RowOK, PinOK, DeleteOK, At, InDeploy, BeforeCreate, Confirmed
    <2> QED
      BY <2>1, <2>5, <2>7, LocalStep DEF TypeOK, ReadRecord, InDeploy, BeforeCreate, Confirmed
  <1> QED
    BY <1>1, <1>2

LEMMA WritePinStep ==
  ASSUME IInv, NEW w \in Workers, WritePin(w)
  PROVE  IInv'
  <1>1. CASE ~Exists
    BY <1>1, ReturnStep DEF WritePin
  <1>2. CASE Exists
    <2>1. TypeOK /\ TaskOK(w)
      BY DEF IInv
    <2>2. tasks[w].pin \in Refs /\ tasks[w].conf \in Confs
      BY <2>1, TaskFields DEF WritePin, At, TaskOK, PinOK, SnapshotOK, Named
    <2>3. project' \in Record
      BY <1>2, <2>2 DEF WritePin, Record
    <2>4. MovesTo(w, "load")
      BY <1>2, <2>1, GotoMoves DEF WritePin, Labels
    <2>5. TaskOK(w)'
      BY <2>4
      DEF MovesTo, TaskOK, SnapshotOK, RowOK, PinOK, DeleteOK, At, InDeploy, BeforeCreate, Confirmed
    <2>6. project # Gone /\ project' # Absent
      BY <1>2, <2>3, AbsentAssumption DEF Exists
    <2> QED
      BY <2>1, <2>3, <2>4, <2>5, <2>6, LocalStep
      DEF WritePin, TypeOK, MovesTo, InDeploy, BeforeCreate, Confirmed
  <1> QED
    BY <1>1, <1>2

LEMMA LoadStep ==
  ASSUME IInv, NEW w \in Workers, Load(w)
  PROVE  IInv'
  <1>1. requests' \in Nat /\ joined' \subseteq Workers
    BY DEF IInv, TypeOK, Load
  <1> QED
    BY <1>1, SnapshotStep, ReturnStep DEF Load

\* The newest of some rows exists: CHOOSE in PreviousHealthyPin finds it.
LEMMA GreatestExists ==
  ASSUME NEW n \in Nat, NEW B, B \subseteq 1..n, B # {}
  PROVE  \E i \in B : \A j \in B : j <= i
  <1> DEFINE Less == OpToRel(<, Nat)
             T == {n - i : i \in B}
  <1>1. T \subseteq Nat /\ T # {}
    <2>1. \A i \in 1..n : n - i \in Nat
      OBVIOUS
    <2>2. \A i \in B : n - i \in Nat
      BY <2>1
    <2> QED
      BY <2>2
  <1>2. IsWellFoundedOn(Less, Nat)
    BY NatLessThanWellFounded
  <1>3. \A x, y \in Nat : x < y => <<x, y>> \in Less
    BY DEF OpToRel
  <1> HIDE DEF Less, T
  <1>4. PICK x \in T : \A y \in T : <<y, x>> \notin Less
    BY <1>1, <1>2, WFMin
  <1>5. PICK i \in B : x = n - i
    BY DEF T
  <1>6. ASSUME NEW j \in B PROVE j <= i
    <2>1. n - j \in T /\ x \in Nat /\ n - j \in Nat
      BY <1>1 DEF T
    <2>2. ~(n - j < x)
      BY <1>3, <1>4, <2>1
    <2> QED
      BY <1>5, <2>1, <2>2
  <1> QED
    BY <1>6

LEMMA ListDeploysStep ==
  ASSUME IInv, NEW w \in Workers, ListDeploys(w)
  PROVE  IInv'
  <1> DEFINE pin == PreviousHealthyPin(tasks[w].row)
             t == [tasks[w] EXCEPT !.pin = pin, !.pc = "pull"]
  <1>1. TypeOK /\ TaskOK(w) /\ tasks[w] \in Task
    BY DEF IInv, TypeOK
  <1>2. pin \in Refs \cup {None} /\ (pin # None => Named(pin))
    <2>1. CASE LiveBefore(tasks[w].row) = {}
      BY <2>1 DEF PreviousHealthyPin
    <2>2. CASE LiveBefore(tasks[w].row) # {}
      <3>1. \E i \in LiveBefore(tasks[w].row) : \A j \in LiveBefore(tasks[w].row) : j <= i
        <4> DEFINE B == LiveBefore(tasks[w].row)
        <4>1. B \subseteq 1..Len(deploys) /\ Len(deploys) \in Nat /\ B # {}
          BY <1>1, <2>2, RowFields DEF LiveBefore
        <4> HIDE DEF B
        <4>2. \E i \in B : \A j \in B : j <= i
          BY <4>1, GreatestExists
        <4> QED
          BY <4>2 DEF B
      <3>2. PICK i \in LiveBefore(tasks[w].row) : pin = deploys[i].digest
        BY <2>2, <3>1 DEF PreviousHealthyPin
      <3>3. i \in DOMAIN deploys /\ deploys[i].digest # None
        BY <3>2 DEF LiveBefore
      <3>4. deploys[i].digest \in Digests
        BY <1>1, <3>3, RowFields
      <3> HIDE DEF pin
      <3> QED
        BY <3>2, <3>3, <3>4 DEF Named, Refs
    <2> QED
      BY <2>1, <2>2
  <1>3. tasks' = [tasks EXCEPT ![w] = t]
    BY DEF ListDeploys
  <1> HIDE DEF pin
  <1>4. /\ t \in Task /\ t.pc = "pull" /\ t.pin = pin /\ t.ref = tasks[w].ref
        /\ t.conf = tasks[w].conf /\ t.row = tasks[w].row /\ t.digest = tasks[w].digest
    BY <1>1, <1>2 DEF Task, Labels
  <1> HIDE DEF t
  <1>5. OnlyMoves(w) /\ tasks'[w] = t
    BY <1>1, <1>3, <1>4 DEF TypeOK, OnlyMoves
  <1>6. /\ tasks[w].pc = "list"
        /\ UNCHANGED <<project, deploys, container, registry, local, requests, joined, cutOff, trace>>
    BY DEF ListDeploys, At
  <1>7. tasks'[w].pin # None => Named(tasks[w].pin)'
    BY <1>2, <1>4, <1>5, <1>6 DEF Named
  <1>8. SnapshotOK(w)' /\ RowOK(w)'
    BY <1>1, <1>4, <1>5, <1>6 DEF TaskOK, SnapshotOK, RowOK, At, InDeploy, BeforeCreate, Confirmed
  <1>9. PinOK(w)' /\ DeleteOK(w)'
    BY <1>4, <1>5, <1>7 DEF PinOK, DeleteOK
  <1> QED
    BY <1>1, <1>4, <1>5, <1>6, <1>8, <1>9, LocalStep
    DEF TaskOK, TypeOK, InDeploy, BeforeCreate, Confirmed

LEMMA PullStep ==
  ASSUME IInv, NEW w \in Workers, Pull(w)
  PROVE  IInv'
  <1>1. TypeOK /\ TaskOK(w) /\ ContainerOK
    BY DEF IInv
  <1>2. MovesTo(w, "inspect")
    BY <1>1, GotoMoves DEF Pull, Labels
  <1>3. /\ tasks[w].pc = "pull" /\ local' \in Digests \cup {None}
        /\ UNCHANGED <<project, deploys, container, registry, requests, joined, cutOff, trace>>
    BY <1>1 DEF Pull, At, TypeOK
  <1>4. /\ local # None => local' # None
        /\ tasks[w].ref = Tag => local' # None
    BY <1>1, DigestsAssumption DEF Pull, TypeOK
  <1>5. SnapshotOK(w)' /\ RowOK(w)'
    BY <1>1, <1>2, <1>3, <1>4
    DEF TaskOK, SnapshotOK, RowOK, MovesTo, At, InDeploy, BeforeCreate, Confirmed
  <1>6. PinOK(w)' /\ DeleteOK(w)'
    BY <1>1, <1>2, <1>3
    DEF TaskOK, PinOK, DeleteOK, Named, MovesTo, InDeploy, BeforeCreate, Confirmed
  <1>7. ContainerOK'
    BY <1>1, <1>3 DEF ContainerOK
  <1> QED
    BY <1>1, <1>2, <1>3, <1>4, <1>5, <1>6, <1>7, QuietStep
    DEF TypeOK, TaskOK, MovesTo, InDeploy, BeforeCreate, Confirmed

LEMMA PullFailsStep ==
  ASSUME IInv, NEW w \in Workers, PullFails(w)
  PROVE  IInv'
  BY GotoStep DEF PullFails, At, InDeploy, BeforeCreate, Confirmed

LEMMA InspectOldStep ==
  ASSUME IInv, NEW w \in Workers, InspectOld(w)
  PROVE  IInv'
  <1>1. CASE container = None
    BY <1>1, GotoStep DEF InspectOld, At, InDeploy, BeforeCreate, Confirmed
  <1>2. CASE container # None
    BY <1>2, GotoStep DEF InspectOld, At, InDeploy, BeforeCreate, Confirmed
  <1> QED
    BY <1>1, <1>2

\* Stopping or removing the old container: whatever becomes of the container,
\* a step from the stop to the remove or from there to the create.
LEMMA OldContainerStep ==
  ASSUME IInv, NEW w \in Workers, NEW label \in {"remove", "create", "delRemove"},
         Goto(w, label),
         label = "remove" => At(w, "stop"),
         label = "create" => At(w, "remove"),
         label = "delRemove" => At(w, "delStop"),
         UNCHANGED <<project, deploys, registry, local, requests, joined, cutOff, trace>>,
         container' \in Container \cup {None}, ContainerOK'
  PROVE  IInv'
  <1>1. TypeOK /\ TaskOK(w)
    BY DEF IInv
  <1>2. MovesTo(w, label)
    BY <1>1, GotoMoves DEF Labels
  <1>3. SnapshotOK(w)' /\ RowOK(w)'
    BY <1>1, <1>2
    DEF TaskOK, SnapshotOK, RowOK, MovesTo, At, InDeploy, BeforeCreate, Confirmed
  <1>4. PinOK(w)' /\ DeleteOK(w)'
    BY <1>1, <1>2
    DEF TaskOK, PinOK, DeleteOK, Named, MovesTo, At, InDeploy, BeforeCreate, Confirmed
  <1> QED
    BY <1>1, <1>2, <1>3, <1>4, QuietStep
    DEF TypeOK, TaskOK, MovesTo, At, InDeploy, BeforeCreate, Confirmed

LEMMA StopOldStep ==
  ASSUME IInv, NEW w \in Workers, StopOld(w)
  PROVE  IInv'
  <1>1. TypeOK /\ ContainerOK
    BY DEF IInv
  <1>2. container' \in Container \cup {None} /\ ContainerOK'
    <2>1. CASE container = None
      BY <1>1, <2>1 DEF StopOld, ContainerOK
    <2>2. CASE container # None
      <3>1. container \in Container
        BY <1>1, <2>2 DEF TypeOK
      <3>2. container' = [container EXCEPT !.running = FALSE]
        BY <2>2 DEF StopOld
      <3>3. /\ container' \in Container
            /\ container'.row = container.row /\ container'.image = container.image
        BY <3>1, <3>2 DEF Container
      <3> QED
        BY <1>1, <2>2, <3>3 DEF ContainerOK, StopOld
    <2> QED
      BY <2>1, <2>2
  <1> QED
    BY <1>2, OldContainerStep DEF StopOld

LEMMA RemoveOldStep ==
  ASSUME IInv, NEW w \in Workers, RemoveOld(w)
  PROVE  IInv'
  <1>1. container' = None /\ ContainerOK'
    BY DEF RemoveOld, ContainerOK
  <1>2. CASE At(w, "remove") /\ Goto(w, "create")
    BY <1>1, <1>2, OldContainerStep DEF RemoveOld
  <1>3. CASE At(w, "delRemove") /\ Return(w)
    <2>1. TypeOK
      BY DEF IInv
    <2>2. OnlyMoves(w) /\ tasks'[w].pc = "idle"
      BY <1>3, <2>1, ReturnIdles
    <2>3. TaskOK(w)'
      BY <2>2 DEF TaskOK, SnapshotOK, RowOK, PinOK, DeleteOK, At, InDeploy, BeforeCreate, Confirmed
    <2> QED
      BY <1>1, <2>1, <2>2, <2>3, QuietStep DEF RemoveOld, TypeOK, InDeploy, BeforeCreate, Confirmed
  <1> QED
    BY <1>2, <1>3 DEF RemoveOld

LEMMA ConfirmStep ==
  ASSUME IInv, NEW w \in Workers, Confirm(w)
  PROVE  IInv'
  <1>1. CASE ~OwnsContainer(w)
    BY <1>1, GotoStep DEF Confirm, At, InDeploy, BeforeCreate, Confirmed
  <1>2. CASE OwnsContainer(w)
    <2> DEFINE t == [tasks[w] EXCEPT !.digest = container.image,
                                     !.pc = AfterContainer(tasks[w])]
    <2>1. TypeOK /\ TaskOK(w) /\ ContainerOK /\ tasks[w] \in Task
      BY DEF IInv, TypeOK
    <2>2. container.image \in Digests /\ container.image = trace[tasks[w].row].image
      BY <1>2, <2>1 DEF OwnsContainer, TypeOK, Container, ContainerOK
    <2>3. AfterContainer(tasks[w]) \in {"health", "publish"}
      BY DEF AfterContainer
    <2>4. tasks' = [tasks EXCEPT ![w] = t]
      BY <1>2 DEF Confirm
    <2>5. /\ t \in Task /\ t.pc \in {"health", "publish"} /\ t.digest = container.image
          /\ t.ref = tasks[w].ref /\ t.conf = tasks[w].conf /\ t.row = tasks[w].row
          /\ t.pin = tasks[w].pin
      BY <2>1, <2>2, <2>3 DEF Task, Labels
    <2> HIDE DEF t
    <2>6. OnlyMoves(w) /\ tasks'[w] = t
      BY <2>1, <2>4, <2>5 DEF TypeOK, OnlyMoves
    <2>7. /\ tasks[w].pc = "confirm"
          /\ UNCHANGED <<project, deploys, container, registry, local, requests, joined, cutOff, trace>>
      BY DEF Confirm, At
    <2>8. SnapshotOK(w)' /\ DeleteOK(w)'
      BY <2>1, <2>5, <2>6, <2>7
      DEF TaskOK, SnapshotOK, DeleteOK, At, InDeploy, BeforeCreate, Confirmed
    <2>9. RowOK(w)'
      BY <2>1, <2>2, <2>5, <2>6, <2>7, DigestsAssumption
      DEF TaskOK, RowOK, InDeploy, BeforeCreate, Confirmed
    <2>10. PinOK(w)'
      BY <2>1, <2>5, <2>6, <2>7 DEF TaskOK, PinOK, Named, InDeploy, BeforeCreate, Confirmed
    <2> QED
      BY <2>1, <2>5, <2>6, <2>7, <2>8, <2>9, <2>10, LocalStep
      DEF TaskOK, TypeOK, InDeploy, BeforeCreate, Confirmed
  <1> QED
    BY <1>1, <1>2

LEMMA DockerFailsStep ==
  ASSUME IInv, NEW w \in Workers, DockerFails(w)
  PROVE  IInv'
  <1> cutOff' \in BOOLEAN
    BY DEF DockerFails
  <1>1. CASE Return(w)
    BY <1>1, ReturnStep DEF DockerFails
  <1>2. CASE /\ tasks[w].pc \in {"inspect", "stop", "remove", "create", "boot", "confirm"}
             /\ Goto(w, "failed")
    BY <1>2, GotoStep DEF DockerFails, InDeploy, BeforeCreate, Confirmed
  <1> QED
    BY <1>1, <1>2 DEF DockerFails

LEMMA HealthFailsStep ==
  ASSUME IInv, NEW w \in Workers, HealthFails(w)
  PROVE  IInv'
  BY GotoStep DEF HealthFails, At, InDeploy, BeforeCreate, Confirmed

LEMMA PublishStep ==
  ASSUME IInv, NEW w \in Workers, Publish(w)
  PROVE  IInv'
  <1>1. CASE Goto(w, "live")
    BY <1>1, GotoStep DEF Publish, At, InDeploy, BeforeCreate, Confirmed
  <1>2. CASE Goto(w, "failed")
    BY <1>2, GotoStep DEF Publish, At, InDeploy, BeforeCreate, Confirmed
  <1> QED
    BY <1>1, <1>2 DEF Publish

LEMMA CancelStep ==
  ASSUME IInv, NEW w \in Workers, Cancel(w)
  PROVE  IInv'
  <1> cutOff' \in BOOLEAN
    BY DEF Cancel
  <1> QED
    BY ReturnStep DEF Cancel

LEMMA PushStep ==
  ASSUME IInv, Push
  PROVE  IInv'
  <1>1. /\ registry' \in Digests
        /\ UNCHANGED <<project, deploys, container, local, tasks, requests, joined, cutOff, trace>>
    BY DEF Push
  <1>2. TypeOK'
    BY <1>1 DEF IInv, TypeOK
  <1>3. \A w \in Workers : TaskOK(w)'
    BY <1>1 DEF IInv, TaskOK, SnapshotOK, RowOK, PinOK, Named, DeleteOK, At
  <1>4. RowsOwned' /\ HistoryPinsOwnImage' /\ ContainerOK'
    BY <1>1 DEF IInv, RowsOwned, HistoryPinsOwnImage, ContainerOK
  <1> QED
    BY <1>1, <1>2, <1>3, <1>4 DEF IInv

LEMMA RestartStep ==
  ASSUME IInv, Restart
  PROVE  IInv'
  <1>1. /\ tasks' = [w \in Workers |-> IdleTask]
        /\ UNCHANGED <<project, deploys, container, registry, local, requests, joined, trace>>
        /\ cutOff' \in BOOLEAN
    BY DEF Restart
  <1>2. IdleTask \in Task /\ IdleTask.pc = "idle"
    BY DEF IdleTask, Task, Labels
  <1>3. TypeOK'
    BY <1>1, <1>2 DEF IInv, TypeOK
  <1>4. \A w \in Workers : tasks'[w].pc = "idle"
    BY <1>1, <1>2
  <1>5. \A w \in Workers : TaskOK(w)'
    BY <1>4 DEF TaskOK, SnapshotOK, RowOK, PinOK, DeleteOK, At, InDeploy, BeforeCreate, Confirmed
  <1>6. RowsOwned' /\ HistoryPinsOwnImage' /\ ContainerOK'
    BY <1>1, <1>4
    DEF IInv, RowsOwned, HistoryPinsOwnImage, ContainerOK, InDeploy, BeforeCreate, Confirmed
  <1> QED
    BY <1>1, <1>3, <1>5, <1>6 DEF IInv

\* A step of w that writes the history, but only at the row it holds.
LEMMA HistoryStep ==
  ASSUME IInv, NEW w \in Workers, tasks[w].pc \in InDeploy,
         OnlyMoves(w), tasks'[w].pc \in InDeploy => tasks'[w].row = tasks[w].row,
         UNCHANGED <<project, registry, local, requests, joined, cutOff>>,
         project # Absent,
         container' \in Container \cup {None},
         deploys' \in Seq(Row), Len(deploys') = Len(deploys),
         trace' \in Seq(Trace), Len(trace') = Len(trace),
         \A i \in DOMAIN deploys \ {tasks[w].row} :
           deploys'[i] = deploys[i] /\ trace'[i].image = trace[i].image,
         deploys'[tasks[w].row].ref = deploys[tasks[w].row].ref,
         LET row == deploys'[tasks[w].row]
         IN  /\ row.digest # None => row.digest = trace'[tasks[w].row].image
             /\ row.status = "live" => row.digest # None,
         TaskOK(w)', ContainerOK'
  PROVE  IInv'
  <1>1. TypeOK /\ TaskOK(w) /\ RowsOwned
    BY DEF IInv
  <1>2. TypeOK'
    BY <1>1 DEF TypeOK, OnlyMoves
  <1>3. /\ DOMAIN deploys = 1..Len(deploys)
        /\ DOMAIN deploys' = 1..Len(deploys')
    BY <1>1, <1>2, RowFields DEF TypeOK
  <1>4. DOMAIN deploys' = DOMAIN deploys
    BY <1>3
  <1>5. tasks[w].row \in DOMAIN deploys /\ deploys[tasks[w].row].digest = None
    BY <1>1 DEF TaskOK, RowOK
  <1>6. \A v \in Workers \ {w} :
          tasks[v].pc \in InDeploy => tasks[v].row \in DOMAIN deploys \ {tasks[w].row}
    BY <1>1 DEF IInv, TaskOK, RowOK, RowsOwned
  <1>7. HistoryKept(w)
    BY <1>4, <1>5, <1>6 DEF HistoryKept
  <1>8. \A v \in Workers : TaskOK(v)'
    BY <1>7, OthersOK
  <1>9. RowsOwned'
    BY <1>1 DEF RowsOwned, OnlyMoves
  <1>10. HistoryPinsOwnImage'
    BY <1>4 DEF IInv, HistoryPinsOwnImage
  <1> QED
    BY <1>2, <1>8, <1>9, <1>10 DEF IInv

LEMMA CreateContainerStep ==
  ASSUME IInv, NEW w \in Workers, CreateContainer(w)
  PROVE  IInv'
  <1>1. CASE container # None
    BY <1>1, GotoStep DEF CreateContainer, At, InDeploy, BeforeCreate, Confirmed
  <1>2. CASE container = None
    <2> DEFINE r == tasks[w].row
               image == Resolve(tasks[w].ref)
               new == [trace[r] EXCEPT !.image = image]
    <2>1. TypeOK /\ TaskOK(w) /\ tasks[w].pc = "create" /\ tasks[w].pc \in InDeploy
      BY DEF IInv, CreateContainer, At, InDeploy, BeforeCreate
    <2>2. /\ r \in DOMAIN deploys /\ r \in 1..Len(trace) /\ r \in Nat
          /\ deploys[r].digest = None /\ deploys[r].status = "running"
          /\ tasks[w].digest = None
          /\ tasks[w].ref \in Refs /\ tasks[w].conf \in Confs
          /\ tasks[w].ref = Tag => local # None
      BY <2>1, RowFields DEF TaskOK, RowOK, SnapshotOK, BeforeCreate, TypeOK
    <2>3. image \in Digests
      BY <2>1, <2>2 DEF Resolve, Refs, TypeOK
    <2>4. /\ container' = NewContainer(tasks[w])
          /\ trace' = [trace EXCEPT ![r].image = image]
          /\ Goto(w, "boot")
          /\ UNCHANGED <<project, deploys, registry, local, requests, joined, cutOff>>
      BY <1>2 DEF CreateContainer
    <2>5. /\ container' \in Container
          /\ container'.row = r /\ container'.image = image
      BY <2>2, <2>3, <2>4 DEF NewContainer, Container
    <2>6. trace[r] \in Trace /\ new \in Trace /\ new.image = image
      BY <2>1, <2>2, <2>3, RowFields DEF Trace
    <2>7. trace' = [trace EXCEPT ![r] = new]
      BY <2>4
    <2> HIDE DEF new, image
    <2>8. /\ trace' \in Seq(Trace) /\ Len(trace') = Len(trace)
          /\ \A i \in 1..Len(trace) : trace'[i] = IF i = r THEN new ELSE trace[i]
      BY <2>1, <2>2, <2>6, <2>7, ExceptSeq DEF TypeOK
    <2>9. trace'[r].image = image
      BY <2>2, <2>6, <2>8
    <2>10. MovesTo(w, "boot")
      BY <2>1, <2>4, GotoMoves DEF Labels
    <2>11. SnapshotOK(w)' /\ DeleteOK(w)'
      BY <2>1, <2>4, <2>10
      DEF TaskOK, SnapshotOK, DeleteOK, MovesTo, At, InDeploy, BeforeCreate, Confirmed
    <2>12. RowOK(w)'
      BY <2>1, <2>2, <2>4, <2>10 DEF TaskOK, RowOK, MovesTo, InDeploy, BeforeCreate, Confirmed
    <2>13. PinOK(w)'
      BY <2>1, <2>4, <2>10 DEF TaskOK, PinOK, Named, MovesTo, InDeploy, BeforeCreate, Confirmed
    <2>14. ContainerOK'
      BY <2>2, <2>4, <2>5, <2>9 DEF ContainerOK
    <2>15. project # Absent
      <3>1. deploys # <<>>
        BY <2>2
      <3> QED
        BY <3>1 DEF IInv
    <2>16. \A i \in DOMAIN deploys \ {r} : deploys'[i] = deploys[i] /\ trace'[i].image = trace[i].image
      BY <2>1, <2>4, <2>8, RowFields DEF TypeOK
    <2>17. TaskOK(w)'
      BY <2>11, <2>12, <2>13 DEF TaskOK
    <2> QED
      BY <2>1, <2>2, <2>4, <2>5, <2>8, <2>10, <2>14, <2>15, <2>16, <2>17, HistoryStep
      DEF TypeOK, MovesTo
  <1> QED
    BY <1>1, <1>2

LEMMA BootContainerStep ==
  ASSUME IInv, NEW w \in Workers, BootContainer(w)
  PROVE  IInv'
  <1>1. CASE ~OwnsContainer(w)
    <2>1. cutOff' \in BOOLEAN
      BY <1>1 DEF BootContainer, IInv, TypeOK
    <2> QED
      BY <1>1, <2>1, GotoStep DEF BootContainer, At, InDeploy, BeforeCreate, Confirmed
  <1>2. CASE OwnsContainer(w)
    <2>1. TypeOK /\ TaskOK(w) /\ ContainerOK
      BY DEF IInv
    <2>2. container \in Container
      BY <1>2, <2>1 DEF OwnsContainer, TypeOK
    <2>3. /\ container' = [container EXCEPT !.running = TRUE] /\ tasks[w].pc = "boot"
          /\ cutOff' = FALSE
          /\ UNCHANGED <<project, deploys, registry, local, requests, joined, trace>>
      BY <1>2 DEF BootContainer, At
    <2>4. /\ container' \in Container
          /\ container'.row = container.row /\ container'.image = container.image
      BY <2>2, <2>3 DEF Container
    <2>5. ContainerOK'
      BY <1>2, <2>1, <2>3, <2>4 DEF ContainerOK, OwnsContainer
    <2>6. MovesTo(w, "confirm")
      BY <1>2, <2>1, GotoMoves DEF BootContainer, Labels
    <2>7. SnapshotOK(w)' /\ RowOK(w)'
      BY <2>1, <2>3, <2>6
      DEF TaskOK, SnapshotOK, RowOK, MovesTo, At, InDeploy, BeforeCreate, Confirmed
    <2>8. PinOK(w)' /\ DeleteOK(w)'
      BY <2>1, <2>3, <2>6
      DEF TaskOK, PinOK, DeleteOK, Named, MovesTo, InDeploy, BeforeCreate, Confirmed
    <2> QED
      BY <2>1, <2>3, <2>4, <2>5, <2>6, <2>7, <2>8, QuietStep
      DEF TaskOK, TypeOK, MovesTo, InDeploy, BeforeCreate, Confirmed
  <1> QED
    BY <1>1, <1>2

LEMMA HealthPassesStep ==
  ASSUME IInv, NEW w \in Workers, HealthPasses(w)
  PROVE  IInv'
  <1> DEFINE r == tasks[w].row
             new == [trace[r] EXCEPT !.passed = TRUE]
  <1>1. /\ TypeOK /\ TaskOK(w) /\ ContainerOK
        /\ tasks[w].pc = "health" /\ tasks[w].pc \in InDeploy
        /\ UNCHANGED <<project, deploys, container, registry, local, requests, joined, cutOff>>
    BY DEF IInv, HealthPasses, At, InDeploy, Confirmed
  <1>2. /\ r \in DOMAIN deploys /\ r \in 1..Len(trace)
        /\ deploys[r].digest = None /\ deploys[r].status = "running"
    BY <1>1, RowFields DEF TaskOK, RowOK, TypeOK
  <1>3. trace[r] \in Trace /\ new \in Trace /\ new.image = trace[r].image
    BY <1>1, <1>2, RowFields DEF Trace
  <1>4. trace' = [trace EXCEPT ![r] = new]
    BY DEF HealthPasses
  <1> HIDE DEF new
  <1>5. /\ trace' \in Seq(Trace) /\ Len(trace') = Len(trace)
        /\ \A i \in 1..Len(trace) : trace'[i] = IF i = r THEN new ELSE trace[i]
    BY <1>1, <1>2, <1>3, <1>4, ExceptSeq DEF TypeOK
  <1>6. \A i \in DOMAIN deploys : trace'[i].image = trace[i].image
    BY <1>1, <1>3, <1>5, RowFields DEF TypeOK
  <1>7. MovesTo(w, "publish")
    BY <1>1, GotoMoves DEF HealthPasses, Labels
  <1>8. SnapshotOK(w)' /\ DeleteOK(w)'
    BY <1>1, <1>7
    DEF TaskOK, SnapshotOK, DeleteOK, MovesTo, At, InDeploy, BeforeCreate, Confirmed
  <1>9. RowOK(w)'
    BY <1>1, <1>2, <1>6, <1>7
    DEF TaskOK, RowOK, MovesTo, InDeploy, BeforeCreate, Confirmed
  <1>10. PinOK(w)'
    BY <1>1, <1>7 DEF TaskOK, PinOK, Named, MovesTo, InDeploy, BeforeCreate, Confirmed
  <1>11. ContainerOK'
    BY <1>1, <1>6 DEF ContainerOK
  <1>12. project # Absent
    <2>1. deploys # <<>>
      BY <1>2
    <2> QED
      BY <2>1 DEF IInv
  <1> QED
    BY <1>1, <1>2, <1>5, <1>6, <1>7, <1>8, <1>9, <1>10, <1>11, <1>12, HistoryStep
    DEF TaskOK, TypeOK, MovesTo

LEMMA StartDeployStep ==
  ASSUME IInv, NEW w \in Workers, StartDeploy(w)
  PROVE  IInv'
  <1>1. CASE ~Exists
    BY <1>1, ReturnStep DEF StartDeploy
  <1>2. CASE Exists
    <2> DEFINE n == Len(deploys) + 1
               row == [status |-> "running", ref |-> tasks[w].ref, digest |-> None]
               tr == [image |-> None, passed |-> FALSE, auto |-> tasks[w].auto,
                      alone |-> \A v \in Workers : tasks[v].row = 0]
               t == [tasks[w] EXCEPT !.row = n, !.pin = None, !.digest = None,
                                     !.pc = IF tasks[w].auto THEN "pull" ELSE "list"]
    <2>1. /\ TypeOK /\ TaskOK(w) /\ tasks[w] \in Task /\ tasks[w].pc = "start"
          /\ UNCHANGED <<project, container, registry, local, requests, joined, cutOff>>
      BY DEF IInv, TypeOK, StartDeploy, At
    <2>2. tasks[w].ref \in Refs /\ tasks[w].conf \in Confs /\ tasks[w].auto \in BOOLEAN
      BY <2>1, TaskFields DEF TaskOK, SnapshotOK
    <2>3. /\ deploys' = Append(deploys, row) /\ trace' = Append(trace, tr)
          /\ tasks' = [tasks EXCEPT ![w] = t]
      BY <1>2 DEF StartDeploy
    <2>4. row \in Row /\ tr \in Trace /\ n \in Nat
      BY <2>1, <2>2, RowFields DEF Row, Trace
    <2>5. /\ t \in Task /\ t.pc \in {"pull", "list"} /\ t.row = n /\ t.pin = None
          /\ t.digest = None /\ t.ref = tasks[w].ref /\ t.conf = tasks[w].conf
      BY <2>1, <2>4 DEF Task, Labels
    <2>6. /\ deploys' \in Seq(Row) /\ Len(deploys') = n /\ deploys'[n] = row
          /\ \A i \in 1..Len(deploys) : deploys'[i] = deploys[i]
          /\ trace' \in Seq(Trace) /\ Len(trace') = n /\ trace'[n] = tr
          /\ \A i \in 1..Len(deploys) : trace'[i] = trace[i]
      BY <2>1, <2>3, <2>4, AppendProperties DEF TypeOK
    <2>7. row.status = "running" /\ row.digest = None
      OBVIOUS
    <2> HIDE DEF t, row, tr
    <2>8. OnlyMoves(w) /\ tasks'[w] = t
      BY <2>1, <2>3, <2>5 DEF TypeOK, OnlyMoves
    <2>9. TypeOK'
      BY <2>1, <2>6, <2>8 DEF TypeOK, OnlyMoves
    <2>10. /\ DOMAIN deploys = 1..Len(deploys) /\ DOMAIN deploys' = 1..n
           /\ Len(deploys) \in Nat
      BY <2>1, <2>6, <2>9, RowFields, LenProperties
    <2>11. DOMAIN deploys \subseteq DOMAIN deploys' /\ n \in DOMAIN deploys' /\ n \notin DOMAIN deploys
      BY <2>10
    <2>12. \A v \in Workers : tasks[v].pc \in InDeploy => tasks[v].row \in DOMAIN deploys
      BY DEF IInv, TaskOK, RowOK
    <2>13. HistoryKept(w)
      BY <2>6, <2>10, <2>11, <2>12 DEF HistoryKept
    <2>14. TaskOK(w)'
      <3>1. SnapshotOK(w)' /\ PinOK(w)' /\ DeleteOK(w)'
        BY <2>2, <2>5, <2>8 DEF SnapshotOK, PinOK, DeleteOK, At
      <3>2. RowOK(w)'
        BY <2>5, <2>6, <2>7, <2>8, <2>11 DEF RowOK, BeforeCreate, Confirmed
      <3> QED
        BY <3>1, <3>2 DEF TaskOK
    <2>15. \A v \in Workers : TaskOK(v)'
      BY <2>1, <2>8, <2>13, <2>14, OthersOK
    <2>16. RowsOwned'
      BY <2>5, <2>8, <2>11, <2>12 DEF IInv, RowsOwned, OnlyMoves
    <2>17. HistoryPinsOwnImage'
      BY <2>6, <2>7, <2>10 DEF IInv, HistoryPinsOwnImage
    <2>18. ContainerOK'
      BY <2>1, <2>6, <2>10, <2>11 DEF IInv, ContainerOK
    <2>19. project' # Absent
      BY <1>2, <2>1 DEF Exists
    <2> QED
      BY <2>9, <2>15, <2>16, <2>17, <2>18, <2>19 DEF IInv
  <1> QED
    BY <1>1, <1>2

\* Settling its own row, a worker that has what a live row needs.
LEMMA FinishRowEffect ==
  ASSUME IInv, NEW w \in Workers, tasks[w].pc \in InDeploy, Exists,
         NEW status \in {"live", "failed"}, FinishRow(w, status),
         status = "live" => tasks[w].pc \in Confirmed
  PROVE  /\ deploys' \in Seq(Row) /\ Len(deploys') = Len(deploys)
         /\ DOMAIN deploys' = DOMAIN deploys
         /\ \A i \in DOMAIN deploys \ {tasks[w].row} : deploys'[i] = deploys[i]
         /\ tasks[w].row \in DOMAIN deploys
         /\ LET row == deploys'[tasks[w].row]
            IN  /\ row.ref = deploys[tasks[w].row].ref
                /\ row.status = status /\ row.digest = tasks[w].digest
                /\ row.digest # None => row.digest = trace[tasks[w].row].image
                /\ row.status = "live" => row.digest # None
  <1> DEFINE r == tasks[w].row
             new == [deploys[r] EXCEPT !.status = status, !.digest = tasks[w].digest]
  <1>1. TypeOK /\ TaskOK(w)
    BY DEF IInv
  <1>2. /\ r \in DOMAIN deploys /\ r \in 1..Len(deploys)
        /\ tasks[w].digest \in Digests \cup {None}
        /\ tasks[w].digest \in {None, trace[r].image}
        /\ status = "live" => tasks[w].digest # None
    BY <1>1, RowFields, TaskFields DEF TaskOK, RowOK
  <1>3. deploys[r] \in Row
    BY <1>1, <1>2, RowFields
  <1>4. /\ new \in Row /\ new.ref = deploys[r].ref
        /\ new.status = status /\ new.digest = tasks[w].digest
    BY <1>2, <1>3 DEF Row
  <1>5. deploys' = [deploys EXCEPT ![r] = new]
    BY DEF FinishRow
  <1> HIDE DEF new
  <1>6. /\ deploys' \in Seq(Row) /\ Len(deploys') = Len(deploys)
        /\ \A i \in 1..Len(deploys) : deploys'[i] = IF i = r THEN new ELSE deploys[i]
    BY <1>1, <1>2, <1>4, <1>5, ExceptSeq DEF TypeOK
  <1>7. DOMAIN deploys = 1..Len(deploys) /\ DOMAIN deploys' = 1..Len(deploys)
    BY <1>1, <1>5, RowFields
  <1> QED
    BY <1>2, <1>4, <1>6, <1>7

LEMMA FinishStep ==
  ASSUME IInv, NEW w \in Workers, Finish(w)
  PROVE  IInv'
  <1>1. CASE ~Exists
    BY <1>1, ReturnStep DEF Finish, FinishRow
  <1>2. CASE Exists
    <2>1. /\ TypeOK /\ ContainerOK /\ tasks[w].pc \in InDeploy
          /\ UNCHANGED <<project, container, registry, local, requests, joined, cutOff, trace>>
      BY DEF IInv, Finish, At, InDeploy, Confirmed
    <2>2. PICK status \in {"live", "failed"} :
            FinishRow(w, status) /\ (status = "live" => tasks[w].pc \in Confirmed)
      BY DEF Finish, At, Confirmed
    <2>3. /\ deploys' \in Seq(Row) /\ Len(deploys') = Len(deploys)
          /\ DOMAIN deploys' = DOMAIN deploys
          /\ \A i \in DOMAIN deploys \ {tasks[w].row} : deploys'[i] = deploys[i]
          /\ LET row == deploys'[tasks[w].row]
             IN  /\ row.ref = deploys[tasks[w].row].ref
                 /\ row.digest # None => row.digest = trace[tasks[w].row].image
                 /\ row.status = "live" => row.digest # None
      BY <1>2, <2>1, <2>2, FinishRowEffect
    <2>4. OnlyMoves(w) /\ tasks'[w].pc = "idle"
      BY <2>1, ReturnIdles DEF Finish
    <2>5. TaskOK(w)'
      BY <2>4 DEF TaskOK, SnapshotOK, RowOK, PinOK, DeleteOK, At, InDeploy, BeforeCreate, Confirmed
    <2>6. ContainerOK' /\ project # Absent
      BY <1>2, <2>1, <2>3 DEF ContainerOK, Exists
    <2>7. tasks'[w].pc \notin InDeploy
      BY <2>4 DEF InDeploy, BeforeCreate, Confirmed
    <2> QED
      BY <2>1, <2>3, <2>4, <2>5, <2>6, <2>7, HistoryStep DEF TypeOK
  <1> QED
    BY <1>1, <1>2

LEMMA FinishUnhealthyStep ==
  ASSUME IInv, NEW w \in Workers, FinishUnhealthy(w)
  PROVE  IInv'
  <1>1. CASE ~Exists
    BY <1>1, ReturnStep DEF FinishUnhealthy, FinishRow
  <1>2. CASE Exists
    <2>1. /\ TypeOK /\ TaskOK(w) /\ ContainerOK /\ tasks[w].pc \in InDeploy
          /\ UNCHANGED <<project, container, registry, local, requests, joined, cutOff, trace>>
      BY DEF IInv, FinishUnhealthy, At, InDeploy, Confirmed
    <2>2. /\ deploys' \in Seq(Row) /\ Len(deploys') = Len(deploys)
          /\ DOMAIN deploys' = DOMAIN deploys
          /\ \A i \in DOMAIN deploys \ {tasks[w].row} : deploys'[i] = deploys[i]
          /\ tasks[w].row \in DOMAIN deploys
          /\ LET row == deploys'[tasks[w].row]
             IN  /\ row.ref = deploys[tasks[w].row].ref
                 /\ row.digest # None => row.digest = trace[tasks[w].row].image
                 /\ row.status = "live" => row.digest # None
      BY <1>2, <2>1, FinishRowEffect DEF FinishUnhealthy
    <2>3. ContainerOK' /\ project # Absent
      BY <1>2, <2>1, <2>2 DEF ContainerOK, Exists
    <2>4. OnlyMoves(w) /\ tasks'[w].pc \notin InDeploy /\ TaskOK(w)'
      <3>1. CASE Return(w)
        <4>1. OnlyMoves(w) /\ tasks'[w].pc = "idle"
          BY <2>1, <3>1, ReturnIdles
        <4> QED
          BY <4>1
          DEF TaskOK, SnapshotOK, RowOK, PinOK, DeleteOK, At, InDeploy, BeforeCreate, Confirmed
      <3>2. CASE tasks[w].pin # None /\ tasks' = [tasks EXCEPT ![w] = RollbackTask(tasks[w].pin)]
        <4> DEFINE t == RollbackTask(tasks[w].pin)
        <4>1. tasks[w].pin \in Refs \cup {None}
          BY <2>1, TaskFields
        <4>2. t \in Task /\ t.pc = "rbRead" /\ t.pin = tasks[w].pin
          BY <4>1 DEF RollbackTask, IdleTask, Task, Labels
        <4> HIDE DEF t
        <4>3. OnlyMoves(w) /\ tasks'[w] = t
          BY <2>1, <3>2, <4>2 DEF TypeOK, OnlyMoves, t
        <4>4. Named(tasks[w].pin)
          BY <2>1, <3>2 DEF TaskOK, PinOK
        <4>5. PICK i \in DOMAIN deploys : tasks[w].pin \in {deploys[i].ref, deploys[i].digest}
          BY <4>4 DEF Named
        <4>6. deploys'[i].ref = deploys[i].ref
          BY <2>2
        <4>7. deploys[i].digest # None => deploys'[i].digest = deploys[i].digest
          BY <2>1, <2>2 DEF TaskOK, RowOK
        <4>8. Named(tasks[w].pin)'
          BY <2>2, <3>2, <4>2, <4>3, <4>5, <4>6, <4>7 DEF Named
        <4> QED
          BY <4>2, <4>3, <4>8
          DEF TaskOK, SnapshotOK, RowOK, PinOK, DeleteOK, At, InDeploy, BeforeCreate, Confirmed
      <3> QED
        BY <3>1, <3>2 DEF FinishUnhealthy
    <2> QED
      BY <2>1, <2>2, <2>3, <2>4, HistoryStep DEF TypeOK
  <1> QED
    BY <1>1, <1>2

LEMMA InitHolds == Init => IInv
  <1> SUFFICES ASSUME Init PROVE IInv
    OBVIOUS
  <1>1. IdleTask \in Task /\ IdleTask.pc = "idle"
    BY DEF IdleTask, Task, Labels
  <1>2. \A w \in Workers : tasks[w] = IdleTask
    BY DEF Init
  <1>3. TypeOK
    BY <1>1, EmptySeq DEF Init, TypeOK
  <1>4. \A w \in Workers : TaskOK(w)
    BY <1>1, <1>2
    DEF TaskOK, SnapshotOK, RowOK, PinOK, DeleteOK, At, InDeploy, BeforeCreate, Confirmed
  <1>5. RowsOwned
    BY <1>1, <1>2 DEF RowsOwned, InDeploy, BeforeCreate, Confirmed
  <1>6. DOMAIN deploys = {}
    BY DEF Init
  <1>7. HistoryPinsOwnImage /\ ContainerOK
    BY <1>6 DEF Init, HistoryPinsOwnImage, ContainerOK
  <1> QED
    BY <1>3, <1>4, <1>5, <1>7 DEF Init, IInv

LEMMA StepPreserves == IInv /\ [Next]_vars => IInv'
  <1> SUFFICES ASSUME IInv, [Next]_vars PROVE IInv'
    OBVIOUS
  <1>1. CASE UNCHANGED vars
    BY <1>1
    DEF vars, IInv, TypeOK, TaskOK, SnapshotOK, RowOK, PinOK, Named, DeleteOK, At, RowsOwned,
        HistoryPinsOwnImage, ContainerOK
  <1>2. ASSUME NEW w \in Workers, Apply(w) PROVE IInv'
    BY <1>2, ReadRecordStep, WritePinStep, LoadStep, StartDeployStep, ListDeploysStep,
       PullStep, PullFailsStep, InspectOldStep, StopOldStep, RemoveOldStep,
       CreateContainerStep, BootContainerStep, ConfirmStep, DockerFailsStep,
       HealthPassesStep, HealthFailsStep, PublishStep, FinishStep, FinishUnhealthyStep
    DEF Apply
  <1>3. ASSUME NEW w \in Workers,
               Create(w) \/ Redeploy(w) \/ Update(w) \/ Rollback(w) \/ Delete(w) \/ Cancel(w)
        PROVE  IInv'
    BY <1>3, CreateStep, RedeployStep, UpdateStep, RollbackStep, DeleteStep, CancelStep
  <1>4. CASE Push \/ Restart
    BY <1>4, PushStep, RestartStep
  <1> QED
    BY <1>1, <1>2, <1>3, <1>4 DEF Next

THEOREM Invariance == Spec => []IInv
  BY InitHolds, StepPreserves, PTL DEF Spec

\* The state always has the shape the code's types give it: no deploy works
\* with a reference, a row or an image it has not got.
THEOREM TypeCorrect == Spec => []TypeOK
  <1>1. IInv => TypeOK
    BY DEF IInv
  <1> QED
    BY <1>1, Invariance, PTL

\* However many deploys interleave, are cancelled or crash, an image pin of the
\* history is the image of the container that the same deploy created.
THEOREM PinsCorrect == Spec => []HistoryPinsOwnImage
  <1>1. IInv => HistoryPinsOwnImage
    BY DEF IInv
  <1> QED
    BY <1>1, Invariance, PTL

-----------------------------------------------------------------------------
\* Unless a replacement was cut off: with the container removed, a worker is
\* about to create one; with it stopped, a worker is about to remove it or its
\* creator is about to start it.
ServingInv ==
  project # Gone /\ ~cutOff =>
    /\ (\E i \in DOMAIN trace : trace[i].image # None) /\ container = None
         => \E w \in Workers : At(w, "create")
    /\ container # None /\ ~container.running
         => \E w \in Workers : At(w, "remove") \/ (At(w, "boot") /\ OwnsContainer(w))

LEMMA InitServing == Init => ServingInv
  BY DEF Init, ServingInv

\* A step of a worker that is not replacing the container, and that touches
\* neither the container nor the images of the history.
LEMMA ServingQuiet ==
  ASSUME ServingInv, NEW w \in Workers,
         ~Replacing(w),
         \A v \in Workers \ {w} : tasks'[v] = tasks[v],
         project = Gone => project' = Gone,
         cutOff => cutOff',
         UNCHANGED container,
         (\E i \in DOMAIN trace' : trace'[i].image # None)
           => \E i \in DOMAIN trace : trace[i].image # None
  PROVE  ServingInv'
  BY DEF ServingInv, At, OwnsContainer, Replacing

\* Handlers, reads of the record and of the history, and the end of a deploy.
LEMMA HandlerServing ==
  ASSUME IInv, ServingInv, NEW w \in Workers,
         \/ Create(w) \/ Redeploy(w) \/ Update(w) \/ Rollback(w) \/ Delete(w)
         \/ ReadRecord(w) \/ WritePin(w) \/ Load(w) \/ ListDeploys(w)
         \/ Finish(w) \/ FinishUnhealthy(w)
  PROVE  ServingInv'
  <1>1. tasks \in [Workers -> Task]
    BY DEF IInv, TypeOK
  <1>2. ~Replacing(w)
    BY DEF Replacing, Create, Redeploy, Update, Rollback, Delete, Accept, Enter, ReadRecord,
           WritePin, Load, ListDeploys, Finish, FinishUnhealthy, At
  <1>3. UNCHANGED <<container, cutOff, trace>>
    BY DEF Create, Redeploy, Update, Rollback, Delete, ReadRecord, WritePin, Load, ListDeploys,
           Finish, FinishUnhealthy
  <1>4. project = Gone => project' = Gone
    BY AbsentAssumption
    DEF Exists, Create, Redeploy, Update, Rollback, Delete, ReadRecord, WritePin, Load,
        ListDeploys, Finish, FinishUnhealthy
  <1>5. \A v \in Workers \ {w} : tasks'[v] = tasks[v]
    <2>1. CASE Create(w) \/ Redeploy(w) \/ Update(w) \/ Delete(w)
      BY <1>1, <2>1 DEF Create, Redeploy, Update, Delete, Goto
    <2>2. CASE Rollback(w)
      BY <1>1, <2>2 DEF Rollback
    <2>3. CASE ReadRecord(w) \/ WritePin(w) \/ Load(w) \/ ListDeploys(w)
      BY <1>1, <2>3 DEF ReadRecord, WritePin, Load, ListDeploys, Goto, Return
    <2>4. CASE Finish(w) \/ FinishUnhealthy(w)
      BY <1>1, <2>4 DEF Finish, FinishUnhealthy, Return
    <2> QED
      BY <2>1, <2>2, <2>3, <2>4
  <1> QED
    BY <1>2, <1>3, <1>4, <1>5, ServingQuiet

\* The steps of a deploy outside RecreateContainer.
LEMMA DeployServing ==
  ASSUME IInv, ServingInv, NEW w \in Workers,
         \/ StartDeploy(w) \/ Pull(w) \/ PullFails(w) \/ InspectOld(w) \/ Confirm(w)
         \/ HealthPasses(w) \/ HealthFails(w) \/ Publish(w)
  PROVE  ServingInv'
  <1>1. TypeOK /\ IInv' /\ tasks \in [Workers -> Task]
    BY StartDeployStep, PullStep, PullFailsStep, InspectOldStep, ConfirmStep, HealthPassesStep,
       HealthFailsStep, PublishStep DEF IInv, TypeOK
  <1>2. ~Replacing(w)
    BY DEF Replacing, StartDeploy, Pull, PullFails, InspectOld, Confirm, HealthPasses,
           HealthFails, Publish, At
  <1>3. UNCHANGED <<container, cutOff, project>>
    BY DEF StartDeploy, Pull, PullFails, InspectOld, Confirm, HealthPasses, HealthFails, Publish
  <1>4. \A v \in Workers \ {w} : tasks'[v] = tasks[v]
    <2>1. CASE StartDeploy(w) \/ Confirm(w)
      BY <1>1, <2>1 DEF StartDeploy, Confirm, Goto, Return
    <2>2. CASE Pull(w) \/ PullFails(w) \/ InspectOld(w)
      BY <1>1, <2>2 DEF Pull, PullFails, InspectOld, Goto
    <2>3. CASE HealthPasses(w) \/ HealthFails(w) \/ Publish(w)
      BY <1>1, <2>3 DEF HealthPasses, HealthFails, Publish, Goto
    <2> QED
      BY <2>1, <2>2, <2>3
  <1>5. ASSUME NEW i \in DOMAIN trace', trace'[i].image # None
        PROVE  i \in DOMAIN trace /\ trace[i].image # None
    <2>1. CASE UNCHANGED trace
      BY <1>5, <2>1
    <2>2. CASE HealthPasses(w)
      <3>1. trace' = [trace EXCEPT ![tasks[w].row].passed = TRUE]
        BY <2>2 DEF HealthPasses
      <3>2. DOMAIN trace' = DOMAIN trace
        BY <3>1
      <3>3. trace[i] \in Trace
        BY <1>1, <1>5, <3>2, RowFields
      <3>4. trace'[i].image = trace[i].image
        BY <1>5, <3>1, <3>2, <3>3 DEF Trace
      <3> QED
        BY <1>5, <3>2, <3>4
    <2>3. CASE StartDeploy(w) /\ Exists
      <3> DEFINE tr == [image |-> None, passed |-> FALSE, auto |-> tasks[w].auto,
                        alone |-> \A v \in Workers : tasks[v].row = 0]
      <3>1. trace' = Append(trace, tr)
        BY <2>3 DEF StartDeploy
      <3>2. tr \in Trace /\ tr.image = None
        BY <1>1, TaskFields DEF Trace
      <3> HIDE DEF tr
      <3>3. /\ trace'[Len(trace) + 1] = tr /\ Len(trace') = Len(trace) + 1
            /\ \A k \in 1..Len(trace) : trace'[k] = trace[k]
        BY <1>1, <3>1, <3>2, AppendProperties DEF TypeOK
      <3>4. /\ DOMAIN trace = 1..Len(trace) /\ DOMAIN trace' = 1..Len(trace')
            /\ Len(trace) \in Nat
        BY <1>1, LenProperties DEF IInv, TypeOK
      <3> QED
        BY <1>5, <3>2, <3>3, <3>4
    <2> QED
      BY <2>1, <2>2, <2>3
      DEF StartDeploy, Pull, PullFails, InspectOld, Confirm, HealthFails, Publish
  <1> QED
    BY <1>2, <1>3, <1>4, <1>5, ServingQuiet

\* The replacement itself: each step hands the container on to the next.
LEMMA ReplacementServing ==
  ASSUME IInv, ServingInv, NEW w \in Workers,
         \/ StopOld(w) \/ RemoveOld(w) \/ CreateContainer(w) \/ BootContainer(w)
  PROVE  ServingInv'
  <1>1. TypeOK /\ tasks \in [Workers -> Task] /\ DeleteOK(w)
    BY DEF IInv, TypeOK, TaskOK
  <1>2. UNCHANGED project
    BY DEF StopOld, RemoveOld, CreateContainer, BootContainer
  <1>3. CASE At(w, "delStop") \/ At(w, "delRemove")
    BY <1>1, <1>2, <1>3 DEF DeleteOK, At, ServingInv
  <1>4. CASE At(w, "stop") /\ StopOld(w)
    <2>1. MovesTo(w, "remove") /\ UNCHANGED <<cutOff, trace>>
      BY <1>1, <1>4, GotoMoves DEF StopOld, At, Labels
    <2>2. At(w, "remove")'
      BY <2>1 DEF MovesTo, At
    <2>3. container = None => container' = None
      BY <1>4 DEF StopOld
    <2>4. container # None => container' # None
      <3>1. ASSUME container # None PROVE container' # None
        <4>1. container' = [container EXCEPT !.running = FALSE] /\ container \in Container
          BY <1>1, <1>4, <3>1 DEF StopOld, TypeOK
        <4>2. container' \in Container
          BY <4>1 DEF Container
        <4> QED
          BY <4>2, ContainerAssumption
      <3> QED
        BY <3>1
    <2>5. \A v \in Workers : At(v, "create") => At(v, "create")'
      BY <1>4, <2>1 DEF At, MovesTo, OnlyMoves
    <2> QED
      BY <1>2, <2>1, <2>2, <2>4, <2>5 DEF ServingInv
  <1>5. CASE At(w, "remove") /\ RemoveOld(w)
    <2>1. MovesTo(w, "create") /\ container' = None
      BY <1>1, <1>5, GotoMoves DEF RemoveOld, At, Labels
    <2>2. At(w, "create")'
      BY <2>1 DEF MovesTo, At
    <2> QED
      BY <2>1, <2>2 DEF ServingInv
  <1>6. CASE CreateContainer(w) /\ container = None
    <2>1. MovesTo(w, "boot") /\ container' = NewContainer(tasks[w])
      BY <1>1, <1>6, GotoMoves DEF CreateContainer, Labels
    <2>2. IInv'
      BY <1>6, CreateContainerStep
    <2>3. container'.row = tasks'[w].row
      BY <2>1 DEF MovesTo, NewContainer
    <2>4. container' # None
      <3>1. container' \in Container
        <4>1. tasks[w].ref \in Refs /\ tasks[w].conf \in Confs /\ tasks[w].row \in Nat
          BY <1>1, <1>6, TaskFields
          DEF IInv, TaskOK, SnapshotOK, CreateContainer, At, InDeploy, BeforeCreate
        <4>2. Resolve(tasks[w].ref) \in Digests
          BY <1>1, <1>6, <4>1
          DEF IInv, TypeOK, TaskOK, SnapshotOK, CreateContainer, At, Resolve, Refs
        <4> QED
          BY <2>1, <4>1, <4>2 DEF NewContainer, Container
      <3> QED
        BY <3>1, ContainerAssumption
    <2>5. At(w, "boot")' /\ OwnsContainer(w)'
      BY <2>1, <2>3, <2>4 DEF MovesTo, At, OwnsContainer
    <2> QED
      BY <2>4, <2>5 DEF ServingInv
  <1>7. CASE CreateContainer(w) /\ container # None
    <2>1. UNCHANGED <<container, cutOff, trace>> /\ At(w, "create")
      BY <1>7 DEF CreateContainer
    <2>2. \A v \in Workers \ {w} : tasks'[v] = tasks[v]
      BY <1>1, <1>7 DEF CreateContainer, Goto
    <2> QED
      BY <1>2, <1>7, <2>1, <2>2 DEF ServingInv, At, OwnsContainer
  <1>8. CASE BootContainer(w) /\ OwnsContainer(w)
    <2>1. container \in Container /\ container' = [container EXCEPT !.running = TRUE]
      BY <1>1, <1>8 DEF BootContainer, OwnsContainer, TypeOK
    <2>2. container' \in Container /\ container'.running
      BY <2>1 DEF Container
    <2> QED
      BY <2>2, ContainerAssumption DEF ServingInv
  <1>9. CASE BootContainer(w) /\ ~OwnsContainer(w)
    <2>1. UNCHANGED <<container, cutOff, trace>> /\ At(w, "boot")
      BY <1>9 DEF BootContainer
    <2>2. \A v \in Workers \ {w} : tasks'[v] = tasks[v]
      BY <1>1, <1>9 DEF BootContainer, Goto
    <2> QED
      BY <1>2, <1>9, <2>1, <2>2 DEF ServingInv, At, OwnsContainer
  <1> QED
    BY <1>3, <1>4, <1>5, <1>6, <1>7, <1>8, <1>9 DEF StopOld, RemoveOld

\* A fault in the middle of a replacement is on record; any other leaves the
\* container, and those that work on it, as they were.
LEMMA FaultServing ==
  ASSUME IInv, ServingInv, NEW w \in Workers, DockerFails(w) \/ Cancel(w)
  PROVE  ServingInv'
  <1>1. tasks \in [Workers -> Task]
    BY DEF IInv, TypeOK
  <1>2. UNCHANGED <<project, container, trace>> /\ cutOff' = (cutOff \/ Replacing(w))
    BY DEF DockerFails, Cancel
  <1>3. CASE Replacing(w)
    BY <1>2, <1>3 DEF ServingInv
  <1>4. CASE ~Replacing(w)
    <2>1. \A v \in Workers \ {w} : tasks'[v] = tasks[v]
      BY <1>1 DEF DockerFails, Cancel, Goto, Return
    <2> QED
      BY <1>2, <1>4, <2>1, ServingQuiet
  <1> QED
    BY <1>3, <1>4

\* So it is with a restart, which ends the steps of every worker at once.
LEMMA RestartServing ==
  ASSUME IInv, ServingInv, Restart
  PROVE  ServingInv'
  <1>1. /\ UNCHANGED <<project, container, trace>>
        /\ cutOff' = (cutOff \/ \E w \in Workers : Replacing(w))
    BY DEF Restart
  <1>2. CASE \E w \in Workers : Replacing(w)
    BY <1>1, <1>2 DEF ServingInv
  <1>3. CASE \A w \in Workers : ~Replacing(w)
    BY <1>1, <1>3 DEF ServingInv, Replacing, At
  <1> QED
    BY <1>2, <1>3

LEMMA ServingStep == IInv /\ ServingInv /\ [Next]_vars => ServingInv'
  <1> SUFFICES ASSUME IInv, ServingInv, [Next]_vars PROVE ServingInv'
    OBVIOUS
  <1>1. CASE UNCHANGED vars
    BY <1>1 DEF vars, ServingInv, At, OwnsContainer
  <1>2. ASSUME NEW w \in Workers, Apply(w) PROVE ServingInv'
    BY <1>2, HandlerServing, DeployServing, ReplacementServing, FaultServing DEF Apply
  <1>3. ASSUME NEW w \in Workers,
               Create(w) \/ Redeploy(w) \/ Update(w) \/ Rollback(w) \/ Delete(w) \/ Cancel(w)
        PROVE  ServingInv'
    BY <1>3, HandlerServing, FaultServing
  <1>4. CASE Restart
    BY <1>4, RestartServing
  <1>5. CASE Push
    BY <1>5 DEF Push, ServingInv, At, OwnsContainer
  <1> QED
    BY <1>1, <1>2, <1>3, <1>4, <1>5 DEF Next

\* No interleaving of deploys, rollbacks and deletes, with Docker failing, requests
\* interrupted and the controller restarted at any point, leaves an existing
\* project without a running container once nobody is replacing it, unless a
\* replacement itself was cut off and no container has started since.
THEOREM ServingCorrect == Spec => []ServingSurvives
  <1>1. ServingInv => ServingSurvives
    BY DEF ServingInv, ServingSurvives, Exists, Replacing, At
  <1>2. IInv /\ ServingInv /\ [Next]_vars => ServingInv'
    BY ServingStep
  <1> QED
    BY <1>1, <1>2, InitServing, Invariance, PTL DEF Spec

-----------------------------------------------------------------------------
(* The history implements DeployLog.                                       *)

\* The image reference that DeployLog sees.
Image == IF Exists THEN project.image ELSE None

\* Most steps touch neither the history nor the record.
LEMMA LogStutters ==
  ASSUME UNCHANGED <<project, deploys>>
  PROVE  UNCHANGED <<deploys, Image>>
  BY DEF Image, Exists

LEMMA HandlerImplements ==
  ASSUME IInv, NEW w \in Workers, Create(w) \/ Update(w) \/ Delete(w) \/ WritePin(w)
  PROVE  [History!Next]_<<deploys, Image>>
  <1>1. TypeOK /\ UNCHANGED deploys
    BY DEF IInv, Create, Update, Delete, WritePin
  <1>2. Exists => Image # None /\ Image \in Refs
    BY <1>1, RecordFields, DigestsAssumption DEF Image, Refs
  <1>3. CASE Create(w)
    <2>1. Exists' /\ project'.image = Tag
      BY <1>3, AbsentAssumption DEF Create, Exists, Record, Refs
    <2>2. deploys = <<>>
      BY <1>3 DEF IInv, Create
    <2>3. History!Type(Tag)
      BY <1>1, <2>1, <2>2 DEF History!Type, Image
    <2> QED
      BY <2>3 DEF History!Next
  <1>4. CASE Update(w)
    <2>1. PICK ref \in FormRefs \cup {project.image}, c \in Confs :
            project' = [image |-> ref, conf |-> c]
      BY <1>4 DEF Update
    <2>2. Exists' /\ Exists /\ project'.image = ref
      BY <1>1, <1>4, <2>1, RecordFields, AbsentAssumption, FormRefsAssumption
      DEF Update, Exists, Record, Refs
    <2>3. CASE ref \in FormRefs
      <3>1. History!Type(ref)
        BY <1>1, <1>2, <2>2, <2>3 DEF History!Type, Image
      <3> QED
        BY <2>3, <3>1 DEF History!Next
    <2>4. CASE ref = project.image
      BY <1>1, <2>2, <2>4 DEF Image
    <2> QED
      BY <2>3, <2>4
  <1>5. CASE Delete(w)
    <2>1. History!Purge
      BY <1>1, <1>5 DEF Delete, Exists, Image, History!Purge
    <2> QED
      BY <2>1 DEF History!Next
  <1>6. CASE WritePin(w)
    <2>1. CASE ~Exists
      BY <1>1, <1>6, <2>1, LogStutters DEF WritePin
    <2>2. CASE Exists
      <3>1. project' = [image |-> tasks[w].pin, conf |-> tasks[w].conf]
        BY <1>6, <2>2 DEF WritePin
      <3>2. TaskOK(w) /\ tasks[w].pc = "rbWrite"
        BY <1>6 DEF IInv, WritePin, At
      <3>3. Named(tasks[w].pin) /\ tasks[w].pin \in Refs /\ tasks[w].conf \in Confs
        BY <1>1, <3>2, TaskFields DEF TaskOK, PinOK, SnapshotOK, Named, At
      <3>4. PICK i \in DOMAIN deploys : tasks[w].pin \in {deploys[i].ref, deploys[i].digest}
        BY <3>3 DEF Named
      <3>5. Exists' /\ project'.image = tasks[w].pin
        BY <3>1, <3>3, AbsentAssumption DEF Exists, Record
      <3>6. History!UseEntry(i)
        BY <1>1, <1>2, <2>2, <3>3, <3>4, <3>5 DEF History!UseEntry, Image, Named
      <3> QED
        BY <3>4, <3>6 DEF History!Next
    <2> QED
      BY <2>1, <2>2
  <1> QED
    BY <1>3, <1>4, <1>5, <1>6

LEMMA DeployImplements ==
  ASSUME IInv, NEW w \in Workers, StartDeploy(w) \/ Finish(w) \/ FinishUnhealthy(w)
  PROVE  [History!Next]_<<deploys, Image>>
  <1>1. TypeOK /\ TaskOK(w) /\ UNCHANGED project
    BY DEF IInv, StartDeploy, Finish, FinishUnhealthy
  <1>2. Image' = Image
    BY <1>1 DEF Image, Exists
  <1>3. CASE ~Exists
    <2>1. UNCHANGED deploys
      BY <1>3 DEF StartDeploy, Finish, FinishUnhealthy, FinishRow
    <2> QED
      BY <1>2, <2>1
  <1>4. CASE Exists /\ StartDeploy(w)
    <2>1. tasks[w].ref \in Refs
      BY <1>1, <1>4 DEF TaskOK, SnapshotOK, StartDeploy, At
    <2>2. Image # None
      BY <1>1, <1>4, RecordFields, DigestsAssumption DEF Image, Refs
    <2>3. History!Begin(tasks[w].ref)
      BY <1>2, <1>4, <2>2 DEF StartDeploy, History!Begin, Image
    <2> QED
      BY <2>1, <2>3 DEF History!Next, History!Refs, Refs
  <1>5. CASE Exists /\ (Finish(w) \/ FinishUnhealthy(w))
    <2>1. tasks[w].pc \in InDeploy
      BY <1>5 DEF Finish, FinishUnhealthy, At, InDeploy, Confirmed
    <2>2. PICK status \in {"live", "failed"} :
            FinishRow(w, status) /\ (status = "live" => tasks[w].pc \in Confirmed)
      BY <1>5 DEF Finish, FinishUnhealthy, At, Confirmed
    <2>3. /\ tasks[w].row \in DOMAIN deploys /\ deploys[tasks[w].row].status = "running"
          /\ tasks[w].digest \in Digests \cup {None}
          /\ status = "live" => tasks[w].digest # None
      BY <1>1, <2>1, <2>2, TaskFields DEF TaskOK, RowOK
    <2>4. Image # None
      BY <1>1, <1>5, RecordFields, DigestsAssumption DEF Image, Refs
    <2>5. History!Settle(tasks[w].row, status, tasks[w].digest)
      BY <1>2, <1>5, <2>2, <2>3, <2>4 DEF FinishRow, History!Settle, Image
    <2> QED
      BY <2>3, <2>5 DEF History!Next
  <1> QED
    BY <1>3, <1>4, <1>5

LEMMA StepImplements == IInv /\ [Next]_vars => [History!Next]_<<deploys, Image>>
  <1> SUFFICES ASSUME IInv, [Next]_vars PROVE [History!Next]_<<deploys, Image>>
    OBVIOUS
  <1>1. CASE UNCHANGED vars
    BY <1>1, LogStutters DEF vars
  <1>2. CASE Push \/ Restart
    BY <1>2, LogStutters DEF Push, Restart
  <1>3. ASSUME NEW w \in Workers,
               \/ Redeploy(w) \/ Rollback(w) \/ Cancel(w)
               \/ ReadRecord(w) \/ Load(w) \/ ListDeploys(w) \/ Pull(w) \/ PullFails(w)
               \/ InspectOld(w) \/ StopOld(w) \/ RemoveOld(w) \/ CreateContainer(w)
               \/ BootContainer(w) \/ Confirm(w) \/ DockerFails(w)
               \/ HealthPasses(w) \/ HealthFails(w) \/ Publish(w)
        PROVE  [History!Next]_<<deploys, Image>>
    <2>1. UNCHANGED <<project, deploys>>
      BY <1>3
      DEF Redeploy, Rollback, Cancel, ReadRecord, Load, ListDeploys, Pull, PullFails, InspectOld,
          StopOld, RemoveOld, CreateContainer, BootContainer, Confirm, DockerFails, HealthPasses,
          HealthFails, Publish
    <2> QED
      BY <2>1, LogStutters
  <1> QED
    BY <1>1, <1>2, <1>3, HandlerImplements, DeployImplements DEF Next, Apply

\* Every behaviour of the pipeline, faults and crashes included, keeps the
\* promise of DeployLog: the history is appended to and settled once, and the
\* project's image is the tag, one that is typed into its form, or one that the
\* history names.
THEOREM HistoryImplementsLog == Spec => ImplementsDeployLog
  <1>1. Init => History!Init
    BY DEF Init, Exists, History!Init
  <1>2. IInv /\ [Next]_vars => [History!Next]_<<deploys, IF Exists THEN project.image ELSE None>>
    BY StepImplements DEF Image
  <1> QED
    BY <1>1, <1>2, Invariance, PTL DEF Spec, ImplementsDeployLog, History!Spec
=============================================================================
