--------------------------- MODULE DbEnginesProofs ---------------------------
(***************************************************************************)
(* Theorems about DbEngines, for any projects, names and bounds.           *)
(***************************************************************************)
EXTENDS DbEngines, TLAPS

\* The labels at which a request works on an attachment, and among them those
\* at which it makes one.
Provisioning == {"createFirst", "createSecond", "undoFirst", "grant", "insert"}
Dropping == {"admin", "dropDatabase", "dropUser"}
Working == Provisioning \cup Dropping
           \cup {"inspect", "rootGet", "rootPut", "recreate", "ready", "alter", "update",
                 "deleteRow"}

\* What a worker's task is good for, at each of its labels.
GoodTask(t) ==
  /\ t.pc = "idle" => t = IdleTask
  /\ t.pc # "idle" => t.no \in Numbers /\ t.project \in Projects
  /\ t.pc \in Working => t.name \in Names /\ t.project = Owner[t.name]
  /\ \A s \in t.todo : Owner[s[1]] = t.project
  /\ t.pc \in Provisioning => t.op = "attach"
  /\ t.op = "undo" => t.pc \in Dropping
  /\ t.pc \in {"next", "purge"} => t.op = "delete"
  /\ t.pc \in {"rootPut", "recreate"} => t.root \in Numbers

TasksOK ==
  /\ tasks \in [Workers -> Task]
  /\ \A w \in Workers : GoodTask(tasks[w])

TypeInv == TypeOK /\ TasksOK

-----------------------------------------------------------------------------
(* How a step of a worker leaves the tasks.                                *)

LEMMA TaskReplaced ==
  ASSUME TypeInv, NEW w \in Workers, NEW t \in Task, GoodTask(t),
         tasks' = [tasks EXCEPT ![w] = t]
  PROVE  TasksOK'
  BY DEF TypeInv, TasksOK

LEMMA Moves ==
  ASSUME TypeInv, NEW w \in Workers, NEW label \in Labels, Goto(w, label),
         GoodTask([tasks[w] EXCEPT !.pc = label])
  PROVE  TasksOK'
  <1>1. [tasks[w] EXCEPT !.pc = label] \in Task
    BY DEF TypeInv, TasksOK, Task
  <1>2. tasks' = [tasks EXCEPT ![w] = [tasks[w] EXCEPT !.pc = label]]
    BY DEF Goto
  <1> QED
    BY <1>1, <1>2, TaskReplaced

\* Going on to a label that asks for no more than the present one.
LEMMA GoesOn ==
  ASSUME TypeInv, NEW w \in Workers, NEW label \in Labels, Goto(w, label),
         tasks[w].pc # "idle", label # "idle",
         label \in Working => tasks[w].pc \in Working,
         label \in Provisioning => tasks[w].op = "attach",
         label \in Dropping \/ tasks[w].op # "undo",
         label \in {"next", "purge"} => tasks[w].op = "delete",
         label \in {"rootPut", "recreate"} => tasks[w].root \in Numbers
  PROVE  TasksOK'
  <1>1. tasks[w] \in Task /\ GoodTask(tasks[w])
    BY DEF TypeInv, TasksOK
  <1>2. GoodTask([tasks[w] EXCEPT !.pc = label])
    BY <1>1 DEF GoodTask, Task
  <1> QED
    BY <1>2, Moves

LEMMA Returns ==
  ASSUME TypeInv, NEW w \in Workers, Return(w)
  PROVE  TasksOK'
  <1>1. IdleTask \in Task
    BY DEF IdleTask, Task, Labels
  <1>2. GoodTask(IdleTask)
    BY NoneAssumption DEF IdleTask, GoodTask, Working, Provisioning, Dropping, Ops
  <1> QED
    BY <1>1, <1>2, TaskReplaced DEF Return

LEMMA Fails ==
  ASSUME TypeInv, NEW w \in Workers, Fail(w), tasks[w].pc # "idle"
  PROVE  TasksOK' /\ disturbed' \subseteq Names /\ behind' \subseteq Projects
  <1>1. tasks[w] \in Task /\ GoodTask(tasks[w])
    BY DEF TypeInv, TasksOK
  <1>2. HalfWay(tasks[w]) => tasks[w].name \in Names
    BY <1>1 DEF HalfWay, GoodTask, Working, Provisioning, Dropping
  <1>3. TasksOK'
    BY Returns DEF Fail
  <1> QED
    BY <1>1, <1>2, <1>3 DEF Fail, TypeInv, TypeOK, GoodTask

-----------------------------------------------------------------------------
(* The handlers.                                                           *)

LEMMA BeginStep ==
  ASSUME TypeInv, NEW w \in Workers, NEW p \in Projects, NEW task \in Task,
         task.pc # "idle", Begin(w, p, task),
         GoodTask([task EXCEPT !.no = requests + 1, !.project = p])
  PROVE  TypeInv'
  <1> DEFINE t == [task EXCEPT !.no = requests + 1, !.project = p]
  <1>1. requests + 1 \in Numbers /\ requests' \in 0..MaxRequests
    BY MaxRequestsAssumption DEF Begin, TypeInv, TypeOK, Numbers
  <1>2. t \in Task
    BY <1>1 DEF Task
  <1>3. TasksOK'
    BY <1>2, TaskReplaced DEF Begin
  <1>4. mixed' \subseteq Projects /\ rivals' \in BOOLEAN
    BY DEF Begin, TypeInv, TypeOK
  <1> QED
    BY <1>1, <1>3, <1>4 DEF TypeInv, TypeOK, TasksOK, Begin, engineVars, dataVars, history

LEMMA AttachStep ==
  ASSUME TypeInv, NEW w \in Workers, AttachDatabase(w)
  PROVE  TypeInv'
  <1>1. PICK n \in Names :
          Begin(w, Owner[n], [IdleTask EXCEPT !.pc = "inspect", !.op = "attach", !.name = n])
    BY DEF AttachDatabase
  <1> DEFINE task == [IdleTask EXCEPT !.pc = "inspect", !.op = "attach", !.name = n]
  <1>2. Owner[n] \in Projects
    BY OwnerAssumption
  <1>3. task \in Task
    BY DEF IdleTask, Task, Labels, Ops
  <1>4. requests + 1 \in Numbers
    BY <1>1, MaxRequestsAssumption DEF Begin, TypeInv, TypeOK, Numbers
  <1>5. GoodTask([task EXCEPT !.no = requests + 1, !.project = Owner[n]])
    BY <1>2, <1>4 DEF GoodTask, IdleTask, Working, Provisioning, Dropping
  <1>6. task.pc # "idle"
    BY DEF IdleTask
  <1> HIDE DEF task
  <1> QED
    BY <1>1, <1>2, <1>3, <1>5, <1>6, BeginStep DEF task

LEMMA OnAttachmentStep ==
  ASSUME TypeInv, NEW w \in Workers, NEW op \in {"rotate", "detach"}, OnAttachment(w, op)
  PROVE  TypeInv'
  <1>1. PICK n \in Names :
          /\ rows[n] # None
          /\ Begin(w, Owner[n], [IdleTask EXCEPT !.pc = "inspect", !.op = op, !.name = n,
                                                 !.id = rows[n].id])
    BY DEF OnAttachment
  <1> DEFINE task == [IdleTask EXCEPT !.pc = "inspect", !.op = op, !.name = n,
                                      !.id = rows[n].id]
  <1>2. Owner[n] \in Projects
    BY OwnerAssumption
  <1>3. rows[n].id \in Numbers
    BY <1>1 DEF TypeInv, TypeOK, Row
  <1>4. task \in Task
    BY <1>3 DEF IdleTask, Task, Labels, Ops
  <1>5. requests + 1 \in Numbers
    BY <1>1, MaxRequestsAssumption DEF Begin, TypeInv, TypeOK, Numbers
  <1>6. GoodTask([task EXCEPT !.no = requests + 1, !.project = Owner[n]])
    BY <1>2, <1>5 DEF GoodTask, IdleTask, Working, Provisioning, Dropping
  <1>7. task.pc # "idle"
    BY DEF IdleTask
  <1> HIDE DEF task
  <1> QED
    BY <1>1, <1>2, <1>4, <1>6, <1>7, BeginStep DEF task

LEMMA DeleteProjectStep ==
  ASSUME TypeInv, NEW w \in Workers, DeleteProject(w)
  PROVE  TypeInv'
  <1>1. PICK p \in Projects :
          Begin(w, p, [IdleTask EXCEPT !.pc = "next", !.op = "delete",
                                       !.todo = {<<n, rows[n].id>> : n \in RowsOf(p)}])
    BY DEF DeleteProject
  <1> DEFINE todo == {<<n, rows[n].id>> : n \in RowsOf(p)}
             task == [IdleTask EXCEPT !.pc = "next", !.op = "delete", !.todo = todo]
  <1>2. \A n \in RowsOf(p) : n \in Names /\ rows[n].id \in Numbers
    BY DEF RowsOf, TypeInv, TypeOK, Row
  <1>3. todo \in SUBSET (Names \X Numbers)
    BY <1>2
  <1>4. \A s \in todo : Owner[s[1]] = p
    BY DEF RowsOf
  <1> HIDE DEF todo
  <1>5. task \in Task
    BY <1>3 DEF IdleTask, Task, Labels, Ops
  <1>6. requests + 1 \in Numbers
    BY <1>1, MaxRequestsAssumption DEF Begin, TypeInv, TypeOK, Numbers
  <1>7. GoodTask([task EXCEPT !.no = requests + 1, !.project = p])
    BY <1>6, <1>4 DEF GoodTask, IdleTask, Working, Provisioning, Dropping
  <1>8. task.pc # "idle"
    BY DEF IdleTask
  <1>9. Begin(w, p, task)
    BY <1>1 DEF todo
  <1> HIDE DEF task
  <1> QED
    BY <1>5, <1>7, <1>8, <1>9, BeginStep

LEMMA NextAttachmentStep ==
  ASSUME TypeInv, NEW w \in Workers, NextAttachment(w)
  PROVE  TypeInv'
  <1>1. tasks[w] \in Task /\ GoodTask(tasks[w]) /\ tasks[w].pc = "next"
    BY DEF TypeInv, TasksOK, NextAttachment, At
  <1>2. tasks[w].op = "delete"
    BY <1>1 DEF GoodTask
  <1>3. TasksOK' /\ disturbed' \subseteq Names /\ behind' \subseteq Projects
    <2>1. CASE Goto(w, "purge") /\ UNCHANGED history
      BY <2>1, <1>1, <1>2, GoesOn
         DEF Labels, Working, Provisioning, Dropping, history, TypeInv, TypeOK
    <2>2. CASE Fail(w)
      BY <2>2, <1>1, Fails
    <2>3. ASSUME NEW s \in tasks[w].todo, UNCHANGED history,
                 tasks' = [tasks EXCEPT ![w].pc = "inspect", ![w].name = s[1],
                                        ![w].id = s[2], ![w].todo = @ \ {s}]
          PROVE  TasksOK' /\ disturbed' \subseteq Names /\ behind' \subseteq Projects
      <3> DEFINE t == [tasks[w] EXCEPT !.pc = "inspect", !.name = s[1], !.id = s[2],
                                       !.todo = tasks[w].todo \ {s}]
      <3>1. s \in Names \X Numbers
        BY <1>1, <2>3 DEF Task
      <3>2. t \in Task
        BY ZenonT(30), <1>1, <3>1 DEF Task, Labels
      <3>3. GoodTask(t)
        BY <1>1, <1>2, <3>1 DEF GoodTask, Task, Working, Provisioning, Dropping
      <3> QED
        BY <2>3, <3>2, <3>3, TaskReplaced DEF history, TypeInv, TypeOK
    <2> QED
      BY <2>1, <2>2, <2>3 DEF NextAttachment
  <1> QED
    BY <1>3 DEF NextAttachment, TypeInv, TypeOK, TasksOK, overlaps, engineVars, dataVars

LEMMA PurgeStep ==
  ASSUME TypeInv, NEW w \in Workers, Purge(w)
  PROVE  TypeInv'
  <1>1. TasksOK'
    BY Returns DEF Purge
  <1>2. rows' \in [Names -> Row \cup {None}]
    BY DEF Purge, TypeInv, TypeOK
  <1>3. \A n \in Names : rows'[n] # None => Owner[n] \in projects'
    BY OwnerAssumption DEF Purge, TypeInv, TypeOK
  <1> QED
    BY <1>1, <1>2, <1>3 DEF Purge, TypeInv, TypeOK, TasksOK, overlaps, engineVars, history

-----------------------------------------------------------------------------
(* ensureEngine.                                                           *)

LEMMA InspectEngineStep ==
  ASSUME TypeInv, NEW w \in Workers, InspectEngine(w)
  PROVE  TypeInv'
  <1>1. tasks[w].pc = "inspect" /\ GoodTask(tasks[w])
    BY DEF TypeInv, TasksOK, InspectEngine, At
  <1>2. TasksOK'
    <2>1. tasks[w].op # "undo"
      BY <1>1 DEF GoodTask, Dropping
    <2>2. CASE up
      BY <1>1, <2>1, <2>2, GoesOn DEF InspectEngine, Labels, Working, Provisioning, Dropping
    <2>3. CASE ~up
      BY <1>1, <2>1, <2>3, GoesOn DEF InspectEngine, Labels, Working, Provisioning, Dropping
    <2> QED
      BY <2>2, <2>3
  <1> QED
    BY <1>2 DEF InspectEngine, TypeInv, TypeOK, TasksOK, overlaps, engineVars, dataVars, history

LEMMA GetRootStep ==
  ASSUME TypeInv, NEW w \in Workers, GetRoot(w)
  PROVE  TypeInv'
  <1>1. tasks[w].pc = "rootGet" /\ GoodTask(tasks[w]) /\ tasks[w] \in Task
    BY DEF TypeInv, TasksOK, GetRoot, At
  <1>2. tasks[w].no \in Numbers /\ tasks[w].op # "undo"
    BY <1>1 DEF GoodTask, Dropping
  <1>3. TasksOK'
    <2>1. CASE rootSetting = None
      <3> DEFINE t == [tasks[w] EXCEPT !.root = tasks[w].no, !.pc = "rootPut"]
      <3>1. t \in Task /\ GoodTask(t)
        BY ZenonT(30), <1>1, <1>2 DEF Task, Labels, GoodTask, Working, Provisioning, Dropping
      <3>2. tasks' = [tasks EXCEPT ![w] = t]
        BY <2>1 DEF GetRoot
      <3> QED
        BY <3>1, <3>2, TaskReplaced
    <2>2. CASE rootSetting # None
      <3> DEFINE t == [tasks[w] EXCEPT !.root = rootSetting, !.pc = "recreate"]
      <3>1. rootSetting \in Numbers
        BY <2>2 DEF TypeInv, TypeOK
      <3>2. t \in Task /\ GoodTask(t)
        BY ZenonT(30), <1>1, <1>2, <3>1 DEF Task, Labels, GoodTask, Working, Provisioning, Dropping
      <3>3. tasks' = [tasks EXCEPT ![w] = t]
        BY <2>2 DEF GetRoot
      <3> QED
        BY <3>2, <3>3, TaskReplaced
    <2> QED
      BY <2>1, <2>2
  <1>4. rivals' \in BOOLEAN
    BY DEF GetRoot, TypeInv, TypeOK
  <1> QED
    BY <1>3, <1>4 DEF GetRoot, TypeInv, TypeOK, TasksOK, engineVars, dataVars, history

LEMMA PutRootStep ==
  ASSUME TypeInv, NEW w \in Workers, PutRoot(w)
  PROVE  TypeInv'
  <1>1. tasks[w].pc = "rootPut" /\ GoodTask(tasks[w])
    BY DEF TypeInv, TasksOK, PutRoot, At
  <1>2. tasks[w].root \in Numbers /\ tasks[w].op # "undo"
    BY <1>1 DEF GoodTask, Dropping
  <1>3. TasksOK'
    BY <1>1, <1>2, GoesOn DEF PutRoot, Labels, Working, Provisioning, Dropping
  <1> QED
    BY <1>2, <1>3 DEF PutRoot, TypeInv, TypeOK, TasksOK, overlaps, dataVars, history

LEMMA RecreateEngineStep ==
  ASSUME TypeInv, NEW w \in Workers, RecreateEngine(w)
  PROVE  TypeInv'
  <1>1. tasks[w].pc = "recreate" /\ GoodTask(tasks[w])
    BY DEF TypeInv, TasksOK, RecreateEngine, At
  <1>2. tasks[w].root \in Numbers /\ tasks[w].op # "undo"
    BY <1>1 DEF GoodTask, Dropping
  <1>3. TasksOK'
    BY <1>1, <1>2, GoesOn DEF RecreateEngine, Labels, Working, Provisioning, Dropping
  <1>4. None \notin Numbers
    BY NoneAssumption DEF Numbers
  <1>5. volume' \in Numbers /\ up' = TRUE
    BY <1>2, <1>4 DEF RecreateEngine, TypeInv, TypeOK
  <1> QED
    BY <1>3, <1>4, <1>5 DEF RecreateEngine, TypeInv, TypeOK, TasksOK, overlaps, dataVars, history

LEMMA EngineReadyStep ==
  ASSUME TypeInv, NEW w \in Workers, EngineReady(w)
  PROVE  TypeInv'
  <1>1. tasks[w].pc = "ready" /\ GoodTask(tasks[w])
    BY DEF TypeInv, TasksOK, EngineReady, At
  <1>2. TasksOK' /\ disturbed' \subseteq Names /\ behind' \subseteq Projects
    <2>1. tasks[w].op # "undo"
      BY <1>1 DEF GoodTask, Dropping
    <2>2. CASE Goto(w, "admin") /\ UNCHANGED history
      BY <1>1, <2>1, <2>2, GoesOn
         DEF Labels, Working, Provisioning, Dropping, history, TypeInv, TypeOK
    <2>3. CASE Fail(w)
      BY <1>1, <2>3, Fails
    <2> QED
      BY <2>2, <2>3 DEF EngineReady
  <1> QED
    BY <1>2 DEF EngineReady, TypeInv, TypeOK, TasksOK, overlaps, engineVars, dataVars

LEMMA OpenAdminStep ==
  ASSUME TypeInv, NEW w \in Workers, OpenAdmin(w)
  PROVE  TypeInv'
  <1>1. tasks[w].pc = "admin" /\ GoodTask(tasks[w]) /\ tasks[w] \in Task
    BY DEF TypeInv, TasksOK, OpenAdmin, At
  <1>2. TasksOK' /\ disturbed' \subseteq Names /\ behind' \subseteq Projects
    <2>1. ASSUME Goto(w, FirstStatement(tasks[w].op)) PROVE TasksOK'
      <3> DEFINE label == FirstStatement(tasks[w].op)
      <3>1. CASE tasks[w].op = "attach"
        BY <1>1, <2>1, <3>1, GoesOn DEF FirstStatement, Labels, Working, Provisioning, Dropping
      <3>2. CASE tasks[w].op = "rotate"
        BY <1>1, <2>1, <3>2, GoesOn DEF FirstStatement, Labels, Working, Provisioning, Dropping
      <3>3. CASE tasks[w].op \notin {"attach", "rotate"}
        BY <1>1, <2>1, <3>3, GoesOn DEF FirstStatement, Labels, Working, Provisioning, Dropping
      <3> QED
        BY <3>1, <3>2, <3>3
    <2>2. CASE Fail(w)
      BY <1>1, <2>2, Fails
    <2> QED
      BY <2>1, <2>2 DEF OpenAdmin, history, TypeInv, TypeOK
  <1> QED
    BY <1>2 DEF OpenAdmin, TypeInv, TypeOK, TasksOK, overlaps, engineVars, dataVars

-----------------------------------------------------------------------------
(* The statements.                                                         *)

LEMMA StatementStep ==
  ASSUME TypeInv, NEW w \in Workers, NEW label, Statement(w, label), TasksOK',
         databases' \subseteq Names, users' \in [Names -> Numbers \cup {None}],
         disturbed' \subseteq Names, behind' \subseteq Projects
  PROVE  TypeInv'
  BY DEF Statement, TypeInv, TypeOK, TasksOK, overlaps, engineVars

LEMMA SetUserEffect ==
  ASSUME TypeInv, NEW n \in Names, NEW password \in Numbers \cup {None}, SetUser(n, password)
  PROVE  databases' \subseteq Names /\ users' \in [Names -> Numbers \cup {None}]
  BY DEF SetUser, TypeInv, TypeOK

LEMMA CreateFirstStep ==
  ASSUME TypeInv, NEW w \in Workers, CreateFirst(w)
  PROVE  TypeInv'
  <1>1. tasks[w].pc = "createFirst" /\ GoodTask(tasks[w]) /\ Statement(w, "createFirst")
    BY DEF TypeInv, TasksOK, CreateFirst, Statement, At
  <1>2. tasks[w].no \in Numbers /\ tasks[w].name \in Names /\ tasks[w].op = "attach"
    BY <1>1 DEF GoodTask, Working, Provisioning
  <1>3. TasksOK'
    <2>1. CASE Goto(w, "createSecond")
      BY <1>1, <1>2, <2>1, GoesOn DEF Labels, Working, Provisioning, Dropping
    <2>2. CASE Return(w)
      BY <2>2, Returns
    <2> QED
      BY <2>1, <2>2 DEF CreateFirst
  <1>4. databases' \subseteq Names /\ users' \in [Names -> Numbers \cup {None}]
    BY <1>2, SetUserEffect DEF CreateFirst, TypeInv, TypeOK
  <1> QED
    BY <1>1, <1>3, <1>4, StatementStep DEF CreateFirst, history, TypeInv, TypeOK

LEMMA CreateSecondStep ==
  ASSUME TypeInv, NEW w \in Workers, CreateSecond(w)
  PROVE  TypeInv'
  <1>1. tasks[w].pc = "createSecond" /\ GoodTask(tasks[w]) /\ Statement(w, "createSecond")
    BY DEF TypeInv, TasksOK, CreateSecond, Statement, At
  <1>2. tasks[w].no \in Numbers /\ tasks[w].name \in Names /\ tasks[w].op = "attach"
    BY <1>1 DEF GoodTask, Working, Provisioning
  <1>3. TasksOK'
    <2>1. CASE Goto(w, "insert")
      BY <1>1, <1>2, <2>1, GoesOn DEF Labels, Working, Provisioning, Dropping
    <2>2. CASE Goto(w, "grant")
      BY <1>1, <1>2, <2>2, GoesOn DEF Labels, Working, Provisioning, Dropping
    <2>3. CASE Goto(w, "undoFirst")
      BY <1>1, <1>2, <2>3, GoesOn DEF Labels, Working, Provisioning, Dropping
    <2> QED
      BY <2>1, <2>2, <2>3 DEF CreateSecond
  <1>4. databases' \subseteq Names /\ users' \in [Names -> Numbers \cup {None}]
    BY <1>2, SetUserEffect DEF CreateSecond, TypeInv, TypeOK
  <1> QED
    BY <1>1, <1>3, <1>4, StatementStep DEF CreateSecond, history, TypeInv, TypeOK

LEMMA UndoFirstStep ==
  ASSUME TypeInv, NEW w \in Workers, UndoFirst(w)
  PROVE  TypeInv'
  <1>1. tasks[w].pc = "undoFirst" /\ GoodTask(tasks[w]) /\ Statement(w, "undoFirst")
    BY DEF TypeInv, TasksOK, UndoFirst, Statement, At
  <1>2. tasks[w].name \in Names
    BY <1>1 DEF GoodTask, Working, Provisioning
  <1>3. TasksOK'
    BY Returns DEF UndoFirst
  <1>4. databases' \subseteq Names /\ users' \in [Names -> Numbers \cup {None}]
    <2> DEFINE n == tasks[w].name
    <2>1. CASE databases' = databases \ {n} /\ UNCHANGED users
      BY <2>1 DEF TypeInv, TypeOK
    <2>2. CASE SetUser(n, None)
      BY <1>2, <2>2, SetUserEffect
    <2>3. CASE UNCHANGED <<databases, users>>
      BY <2>3 DEF TypeInv, TypeOK
    <2>4. kind \in {"pg", "mariadb"}
      BY DEF TypeInv, TypeOK
    <2> QED
      BY <2>1, <2>2, <2>3, <2>4 DEF UndoFirst
  <1> QED
    BY <1>1, <1>3, <1>4, StatementStep DEF UndoFirst, history, TypeInv, TypeOK

LEMMA GrantStep ==
  ASSUME TypeInv, NEW w \in Workers, Grant(w)
  PROVE  TypeInv'
  <1>1. tasks[w].pc = "grant" /\ GoodTask(tasks[w]) /\ Statement(w, "grant")
    BY DEF TypeInv, TasksOK, Grant, Statement, At
  <1>2. tasks[w].op = "attach"
    BY <1>1 DEF GoodTask, Provisioning
  <1>3. TasksOK' /\ disturbed' \subseteq Names /\ behind' \subseteq Projects
    <2>1. CASE Goto(w, "insert") /\ UNCHANGED history
      BY <1>1, <1>2, <2>1, GoesOn
         DEF Labels, Working, Provisioning, Dropping, history, TypeInv, TypeOK
    <2>2. CASE Fail(w)
      BY <1>1, <2>2, Fails
    <2> QED
      BY <2>1, <2>2 DEF Grant
  <1> QED
    BY <1>1, <1>3, StatementStep DEF Grant, TypeInv, TypeOK

LEMMA AlterStep ==
  ASSUME TypeInv, NEW w \in Workers, Alter(w)
  PROVE  TypeInv'
  <1>1. tasks[w].pc = "alter" /\ GoodTask(tasks[w]) /\ Statement(w, "alter")
    BY DEF TypeInv, TasksOK, Alter, Statement, At
  <1>2. tasks[w].no \in Numbers /\ tasks[w].name \in Names /\ tasks[w].op # "undo"
    BY <1>1 DEF GoodTask, Working, Dropping
  <1>3. TasksOK'
    <2>1. CASE Goto(w, "update")
      BY <1>1, <1>2, <2>1, GoesOn DEF Labels, Working, Provisioning, Dropping
    <2>2. CASE Return(w)
      BY <2>2, Returns
    <2> QED
      BY <2>1, <2>2 DEF Alter
  <1>4. databases' \subseteq Names /\ users' \in [Names -> Numbers \cup {None}]
    BY <1>2, SetUserEffect DEF Alter, TypeInv, TypeOK
  <1> QED
    BY <1>1, <1>3, <1>4, StatementStep DEF Alter, history, TypeInv, TypeOK

LEMMA DropDatabaseStep ==
  ASSUME TypeInv, NEW w \in Workers, DropDatabase(w)
  PROVE  TypeInv'
  <1>1. tasks[w].pc = "dropDatabase" /\ Statement(w, "dropDatabase")
    BY DEF DropDatabase, Statement, At
  <1>2. TasksOK'
    BY <1>1, GoesOn DEF DropDatabase, Labels, Working, Provisioning, Dropping
  <1> QED
    BY <1>1, <1>2, StatementStep DEF DropDatabase, history, TypeInv, TypeOK

LEMMA DropUserStep ==
  ASSUME TypeInv, NEW w \in Workers, DropUser(w)
  PROVE  TypeInv'
  <1>1. tasks[w].pc = "dropUser" /\ GoodTask(tasks[w]) /\ Statement(w, "dropUser")
    BY DEF TypeInv, TasksOK, DropUser, Statement, At
  <1>2. tasks[w].name \in Names
    BY <1>1 DEF GoodTask, Working, Dropping
  <1>3. CASE Fail(w) /\ UNCHANGED <<databases, users>>
    BY <1>1, <1>3, Fails, StatementStep DEF TypeInv, TypeOK
  <1>4. CASE SetUser(tasks[w].name, None) /\ UNCHANGED history
    <2>1. TasksOK'
      <3>1. CASE Return(w)
        BY <3>1, Returns
      <3>2. CASE tasks[w].op # "undo" /\ Goto(w, "deleteRow")
        BY <1>1, <3>2, GoesOn DEF Labels, Working, Provisioning, Dropping
      <3>3. CASE Fail(w)
        BY <1>1, <3>3, Fails
      <3> QED
        BY <3>1, <3>2, <3>3 DEF DropUser
    <2>2. databases' \subseteq Names /\ users' \in [Names -> Numbers \cup {None}]
      BY <1>2, <1>4, SetUserEffect
    <2> QED
      BY <1>1, <1>4, <2>1, <2>2, StatementStep DEF history, TypeInv, TypeOK
  <1> QED
    BY <1>3, <1>4 DEF DropUser

LEMMA EngineGoneStep ==
  ASSUME TypeInv, NEW w \in Workers, EngineGone(w)
  PROVE  TypeInv'
  BY Fails DEF EngineGone, TypeInv, TypeOK, TasksOK, overlaps, engineVars, dataVars

-----------------------------------------------------------------------------
(* The rows, the redeploy and the environment.                             *)

LEMMA InsertStep ==
  ASSUME TypeInv, NEW w \in Workers, Insert(w)
  PROVE  TypeInv'
  <1> DEFINE n == tasks[w].name
  <1>1. tasks[w].pc = "insert" /\ GoodTask(tasks[w]) /\ tasks[w] \in Task
    BY DEF TypeInv, TasksOK, Insert, At
  <1>2. /\ tasks[w].no \in Numbers /\ n \in Names /\ tasks[w].op = "attach"
        /\ tasks[w].project = Owner[n]
    BY <1>1 DEF GoodTask, Working, Provisioning
  <1>3. CASE /\ tasks[w].project \in projects
             /\ rows' = [rows EXCEPT ![n] = [id |-> tasks[w].no, password |-> tasks[w].no]]
             /\ Goto(w, "load")
    <2>1. TasksOK'
      BY <1>1, <1>2, <1>3, GoesOn DEF Labels, Working, Provisioning, Dropping
    <2>2. rows' \in [Names -> Row \cup {None}]
      BY <1>2, <1>3 DEF TypeInv, TypeOK, Row
    <2>3. \A m \in Names : rows'[m] # None => Owner[m] \in projects
      BY <1>2, <1>3 DEF TypeInv, TypeOK
    <2> QED
      BY <2>1, <2>2, <2>3 DEF Insert, TypeInv, TypeOK, TasksOK, overlaps, engineVars, history
  <1>4. CASE /\ tasks' = [tasks EXCEPT ![w].op = "undo", ![w].pc = "admin"]
             /\ UNCHANGED rows
    <2> DEFINE t == [tasks[w] EXCEPT !.op = "undo", !.pc = "admin"]
    <2>1. t \in Task /\ GoodTask(t)
      BY ZenonT(30), <1>1, <1>2 DEF Task, Labels, Ops, GoodTask, Working, Provisioning, Dropping
    <2>2. tasks' = [tasks EXCEPT ![w] = t]
      BY <1>4
    <2>3. TasksOK'
      BY <2>1, <2>2, TaskReplaced
    <2> QED
      BY <1>4, <2>3 DEF Insert, TypeInv, TypeOK, TasksOK, overlaps, engineVars, history
  <1> QED
    BY <1>3, <1>4 DEF Insert

LEMMA UpdateRowStep ==
  ASSUME TypeInv, NEW w \in Workers, UpdateRow(w)
  PROVE  TypeInv'
  <1> DEFINE n == tasks[w].name
  <1>1. tasks[w].pc = "update" /\ GoodTask(tasks[w])
    BY DEF TypeInv, TasksOK, UpdateRow, At
  <1>2. tasks[w].no \in Numbers /\ n \in Names /\ tasks[w].op # "undo"
    BY <1>1 DEF GoodTask, Working, Dropping
  <1>3. CASE /\ rows[n] # None /\ rows' = [rows EXCEPT ![n].password = tasks[w].no]
             /\ Goto(w, "load") /\ UNCHANGED history
    <2>1. TasksOK'
      BY <1>1, <1>2, <1>3, GoesOn DEF Labels, Working, Provisioning, Dropping
    <2>2. rows[n] \in Row
      BY <1>2, <1>3 DEF TypeInv, TypeOK
    <2>3. [rows[n] EXCEPT !.password = tasks[w].no] \in Row
      BY <1>2, <2>2 DEF Row
    <2>4. rows' = [rows EXCEPT ![n] = [rows[n] EXCEPT !.password = tasks[w].no]]
      BY <1>3
    <2>5. rows' \in [Names -> Row \cup {None}]
      BY <1>2, <2>3, <2>4 DEF TypeInv, TypeOK
    <2>6. \A m \in Names : rows'[m] # None => Owner[m] \in projects
      BY <1>2, <1>3, <2>4 DEF TypeInv, TypeOK
    <2> QED
      BY <1>3, <2>1, <2>5, <2>6 DEF UpdateRow, TypeInv, TypeOK, TasksOK, overlaps, engineVars, history
  <1>4. CASE Fail(w) /\ UNCHANGED rows
    BY <1>1, <1>4, Fails DEF UpdateRow, TypeInv, TypeOK, TasksOK, overlaps, engineVars
  <1> QED
    BY <1>3, <1>4 DEF UpdateRow, RowIs

LEMMA DeleteRowStep ==
  ASSUME TypeInv, NEW w \in Workers, DeleteRow(w)
  PROVE  TypeInv'
  <1> DEFINE n == tasks[w].name
  <1>1. tasks[w].pc = "deleteRow" /\ GoodTask(tasks[w])
    BY DEF TypeInv, TasksOK, DeleteRow, At
  <1>2. n \in Names /\ tasks[w].op # "undo"
    BY <1>1 DEF GoodTask, Working, Dropping
  <1>3. CASE /\ rows' = [rows EXCEPT ![n] = None]
             /\ Goto(w, IF tasks[w].op = "delete" THEN "next" ELSE "load")
             /\ disturbed' = disturbed \ {n} /\ UNCHANGED behind
    <2>1. TasksOK'
      <3>1. CASE tasks[w].op = "delete" /\ Goto(w, "next")
        BY <1>1, <1>2, <3>1, GoesOn DEF Labels, Working, Provisioning, Dropping
      <3>2. CASE Goto(w, "load")
        BY <1>1, <1>2, <3>2, GoesOn DEF Labels, Working, Provisioning, Dropping
      <3> QED
        BY <1>3, <3>1, <3>2
    <2> QED
      BY <1>3, <2>1 DEF DeleteRow, TypeInv, TypeOK, TasksOK, overlaps, engineVars
  <1>4. CASE Fail(w) /\ UNCHANGED rows
    BY <1>1, <1>4, Fails DEF DeleteRow, TypeInv, TypeOK, TasksOK, overlaps, engineVars
  <1> QED
    BY <1>3, <1>4 DEF DeleteRow

LEMMA LoadStep ==
  ASSUME TypeInv, NEW w \in Workers, Load(w)
  PROVE  TypeInv'
  <1> DEFINE p == tasks[w].project
             given == {<<n, rows[n].password>> : n \in RowsOf(p)}
  <1>1. tasks[w].pc = "load" /\ GoodTask(tasks[w]) /\ tasks[w] \in Task
    BY DEF TypeInv, TasksOK, Load, At
  <1>2. \A n \in RowsOf(p) : n \in Names /\ rows[n].password \in Numbers
    BY DEF RowsOf, TypeInv, TypeOK, Row
  <1>3. given \in SUBSET (Names \X Numbers)
    BY <1>2
  <1>4. TasksOK'
    <2>1. CASE tasks' = [tasks EXCEPT ![w].pc = "deploy", ![w].env = given]
      <3> DEFINE t == [tasks[w] EXCEPT !.pc = "deploy", !.env = given]
      <3> HIDE DEF given
      <3>1. t \in Task
        BY ZenonT(30), <1>1, <1>3 DEF Task, Labels
      <3>2. GoodTask(t)
        BY <1>1 DEF Task, GoodTask, Working, Provisioning, Dropping
      <3>3. tasks' = [tasks EXCEPT ![w] = t]
        BY <2>1
      <3> QED
        BY <3>1, <3>2, <3>3, TaskReplaced
    <2>2. CASE Return(w)
      BY <2>2, Returns
    <2> QED
      BY <2>1, <2>2 DEF Load
  <1> QED
    BY <1>4 DEF Load, TypeInv, TypeOK, TasksOK, overlaps, engineVars, dataVars, history

LEMMA DeployStep ==
  ASSUME TypeInv, NEW w \in Workers, Deploy(w)
  PROVE  TypeInv'
  <1>1. tasks[w].pc = "deploy" /\ GoodTask(tasks[w]) /\ tasks[w] \in Task
    BY DEF TypeInv, TasksOK, Deploy, At
  <1>2. tasks[w].project \in Projects /\ tasks[w].env \in SUBSET (Names \X Numbers)
    BY <1>1 DEF GoodTask, Task
  <1>3. TasksOK'
    BY Returns DEF Deploy
  <1>4. env' \in [Projects -> SUBSET (Names \X Numbers)] /\ behind' \subseteq Projects
    BY <1>2 DEF Deploy, TypeInv, TypeOK
  <1> QED
    BY <1>3, <1>4 DEF Deploy, TypeInv, TypeOK, TasksOK, overlaps, engineVars, dataVars

LEMMA InterruptStep ==
  ASSUME TypeInv, NEW w \in Workers, Interrupt(w)
  PROVE  TypeInv'
  BY Fails DEF Interrupt, At, TypeInv, TypeOK, TasksOK, overlaps, engineVars, dataVars

LEMMA EngineStopsStep ==
  ASSUME TypeInv, EngineStops
  PROVE  TypeInv'
  BY DEF EngineStops, TypeInv, TypeOK, TasksOK, overlaps, dataVars, history

-----------------------------------------------------------------------------

LEMMA InitTypeInv == Init => TypeInv
  <1> SUFFICES ASSUME Init PROVE TypeInv
    OBVIOUS
  <1>1. IdleTask \in Task /\ GoodTask(IdleTask)
    BY NoneAssumption
       DEF IdleTask, Task, Labels, Ops, GoodTask, Working, Provisioning, Dropping
  <1>2. requests \in 0..MaxRequests
    BY MaxRequestsAssumption DEF Init
  <1> QED
    BY <1>1, <1>2 DEF Init, TypeInv, TypeOK, TasksOK

LEMMA StepTypeInv == TypeInv /\ [Next]_vars => TypeInv'
  <1> SUFFICES ASSUME TypeInv, [Next]_vars PROVE TypeInv'
    OBVIOUS
  <1>1. CASE UNCHANGED vars
    BY <1>1 DEF vars, TypeInv, TypeOK, TasksOK, engineVars, dataVars, history
  <1>2. ASSUME NEW w \in Workers,
               \/ AttachDatabase(w) \/ RotateDatabaseAttachment(w)
               \/ DeleteDatabaseAttachment(w) \/ DeleteProject(w)
               \/ NextAttachment(w) \/ Purge(w)
        PROVE  TypeInv'
    BY <1>2, AttachStep, OnAttachmentStep, DeleteProjectStep, NextAttachmentStep, PurgeStep
       DEF RotateDatabaseAttachment, DeleteDatabaseAttachment
  <1>3. ASSUME NEW w \in Workers,
               \/ InspectEngine(w) \/ GetRoot(w) \/ PutRoot(w) \/ RecreateEngine(w)
               \/ EngineReady(w) \/ OpenAdmin(w)
        PROVE  TypeInv'
    BY <1>3, InspectEngineStep, GetRootStep, PutRootStep, RecreateEngineStep,
       EngineReadyStep, OpenAdminStep
  <1>4. ASSUME NEW w \in Workers,
               \/ CreateFirst(w) \/ CreateSecond(w) \/ UndoFirst(w) \/ Grant(w)
               \/ Alter(w) \/ DropDatabase(w) \/ DropUser(w) \/ EngineGone(w)
        PROVE  TypeInv'
    BY <1>4, CreateFirstStep, CreateSecondStep, UndoFirstStep, GrantStep, AlterStep,
       DropDatabaseStep, DropUserStep, EngineGoneStep
  <1>5. ASSUME NEW w \in Workers,
               \/ Insert(w) \/ UpdateRow(w) \/ DeleteRow(w) \/ Load(w) \/ Deploy(w)
               \/ Interrupt(w)
        PROVE  TypeInv'
    BY <1>5, InsertStep, UpdateRowStep, DeleteRowStep, LoadStep, DeployStep, InterruptStep
  <1>6. CASE EngineStops
    BY <1>6, EngineStopsStep
  <1> QED
    BY <1>1, <1>2, <1>3, <1>4, <1>5, <1>6 DEF Next

\* However requests interleave and wherever they are cut off: the state has
\* the shape of the tables and types, no row outlives its project, and a
\* running engine has been given a root password.
THEOREM EnginesTypeCorrect == Spec => []TypeOK
  <1>1. TypeInv => TypeOK
    BY DEF TypeInv
  <1> QED
    BY <1>1, InitTypeInv, StepTypeInv, PTL DEF Spec

-----------------------------------------------------------------------------
(* The root password.                                                      *)

\* Until two requests generate one at once: a password on its way to the
\* settings is the only one there is, and one on its way to the container is
\* the one in the settings.
RootInv ==
  /\ RootPasswordKnown
  /\ ~rivals =>
       \A w \in Workers :
         /\ At(w, "rootPut") => /\ rootSetting = None
                                /\ \A v \in Workers \ {w} : ~At(v, "rootPut")
         /\ At(w, "recreate") => rootSetting = tasks[w].root

LEMMA InitRootInv == Init => RootInv
  BY DEF Init, RootInv, RootPasswordKnown, At, IdleTask

\* A step that touches neither the password nor the volume, and that leaves
\* no worker at the two labels that it was not at before.
LEMMA RootQuiet ==
  ASSUME RootInv, UNCHANGED <<volume, rootSetting, rivals>>,
         \A w \in Workers :
           \/ tasks'[w] = tasks[w]
           \/ tasks'[w].pc \notin {"rootPut", "recreate"}
  PROVE  RootInv'
  BY DEF RootInv, RootPasswordKnown, At

\* All the steps of a worker but those that deal with the root password.
Other(w) ==
  \/ AttachDatabase(w) \/ RotateDatabaseAttachment(w) \/ DeleteDatabaseAttachment(w)
  \/ DeleteProject(w) \/ NextAttachment(w) \/ Purge(w)
  \/ InspectEngine(w) \/ EngineReady(w) \/ OpenAdmin(w)
  \/ CreateFirst(w) \/ CreateSecond(w) \/ UndoFirst(w) \/ Grant(w)
  \/ Alter(w) \/ DropDatabase(w) \/ DropUser(w) \/ EngineGone(w)
  \/ Insert(w) \/ UpdateRow(w) \/ DeleteRow(w) \/ Load(w) \/ Deploy(w)
  \/ Interrupt(w)

LEMMA OtherStep ==
  ASSUME TasksOK, NEW w \in Workers, Other(w)
  PROVE  /\ UNCHANGED <<volume, rootSetting, rivals>>
         /\ tasks'[w].pc \notin {"rootPut", "recreate"}
         /\ \A v \in Workers \ {w} : tasks'[v] = tasks[v]
  <1> DEFINE Quiet == /\ tasks'[w].pc \notin {"rootPut", "recreate"}
                      /\ \A v \in Workers \ {w} : tasks'[v] = tasks[v]
  <1>1. ASSUME NEW label \in Labels \ {"rootPut", "recreate"}, Goto(w, label) PROVE Quiet
    BY <1>1 DEF Goto, TasksOK, Task
  <1>2. Return(w) => Quiet
    BY DEF Return, IdleTask, TasksOK
  <1>3. Fail(w) => Quiet
    BY <1>2 DEF Fail
  <1>4. UNCHANGED <<volume, rootSetting, rivals>>
    BY DEF Other, AttachDatabase, RotateDatabaseAttachment, DeleteDatabaseAttachment,
           OnAttachment, Begin, DeleteProject, NextAttachment, Purge, InspectEngine,
           EngineReady, OpenAdmin, CreateFirst, CreateSecond, UndoFirst, Grant, Alter,
           DropDatabase, DropUser, EngineGone, Insert, UpdateRow, DeleteRow, Load,
           Deploy, Interrupt, Statement, engineVars, overlaps
  <1>5. ASSUME NEW p, NEW task,
               \A no, project : [task EXCEPT !.no = no, !.project = project].pc
                                \in {"inspect", "next"},
               Begin(w, p, task)
        PROVE  Quiet
    <2>1. tasks' = [tasks EXCEPT ![w] = [task EXCEPT !.no = requests + 1, !.project = p]]
      BY <1>5 DEF Begin
    <2> QED
      BY <1>5, <2>1 DEF TasksOK
  <1>6. CASE AttachDatabase(w) \/ RotateDatabaseAttachment(w) \/ DeleteDatabaseAttachment(w)
             \/ DeleteProject(w)
    <2>1. ASSUME NEW n \in Names,
                 Begin(w, Owner[n], [IdleTask EXCEPT !.pc = "inspect", !.op = "attach", !.name = n])
          PROVE  Quiet
      <3> DEFINE task == [IdleTask EXCEPT !.pc = "inspect", !.op = "attach", !.name = n]
      <3>1. \A no, project : [task EXCEPT !.no = no, !.project = project].pc
                             \in {"inspect", "next"}
        BY DEF IdleTask
      <3>2. Begin(w, Owner[n], task)
        BY <2>1
      <3> HIDE DEF task
      <3> QED
        BY <1>5, <3>1, <3>2
    <2>2. ASSUME NEW n \in Names, NEW op,
                 Begin(w, Owner[n], [IdleTask EXCEPT !.pc = "inspect", !.op = op, !.name = n,
                                                     !.id = rows[n].id])
          PROVE  Quiet
      <3> DEFINE task == [IdleTask EXCEPT !.pc = "inspect", !.op = op, !.name = n,
                                          !.id = rows[n].id]
      <3>1. \A no, project : [task EXCEPT !.no = no, !.project = project].pc
                             \in {"inspect", "next"}
        BY DEF IdleTask
      <3>2. Begin(w, Owner[n], task)
        BY <2>2
      <3> HIDE DEF task
      <3> QED
        BY <1>5, <3>1, <3>2
    <2>3. ASSUME NEW p \in Projects, NEW todo,
                 Begin(w, p, [IdleTask EXCEPT !.pc = "next", !.op = "delete", !.todo = todo])
          PROVE  Quiet
      <3> DEFINE task == [IdleTask EXCEPT !.pc = "next", !.op = "delete", !.todo = todo]
      <3>1. \A no, project : [task EXCEPT !.no = no, !.project = project].pc
                             \in {"inspect", "next"}
        BY DEF IdleTask
      <3>2. Begin(w, p, task)
        BY <2>3
      <3> HIDE DEF task
      <3> QED
        BY <1>5, <3>1, <3>2
    <2> HIDE DEF Quiet
    <2>4. ASSUME AttachDatabase(w) PROVE Quiet
      BY <2>1, <2>4, Zenon DEF AttachDatabase
    <2>5. ASSUME RotateDatabaseAttachment(w) \/ DeleteDatabaseAttachment(w) PROVE Quiet
      BY <2>2, <2>5, Zenon DEF RotateDatabaseAttachment, DeleteDatabaseAttachment, OnAttachment
    <2>6. ASSUME DeleteProject(w) PROVE Quiet
      BY <2>3, <2>6, Zenon DEF DeleteProject
    <2> QED
      BY <1>4, <1>6, <2>4, <2>5, <2>6 DEF Quiet
  <1>7. CASE NextAttachment(w)
    <2>1. \A s \in tasks[w].todo :
            tasks' = [tasks EXCEPT ![w].pc = "inspect", ![w].name = s[1],
                                   ![w].id = s[2], ![w].todo = @ \ {s}]
            => Quiet
      BY DEF TasksOK, Task
    <2> QED
      BY <1>1, <1>3, <1>4, <1>7, <2>1 DEF NextAttachment, Labels
  <1>8. CASE Purge(w) \/ InspectEngine(w) \/ EngineReady(w) \/ OpenAdmin(w) \/ EngineGone(w)
             \/ Interrupt(w) \/ Deploy(w)
    <2> HIDE DEF Quiet
    <2>1. CASE Purge(w) \/ EngineGone(w) \/ Interrupt(w) \/ Deploy(w)
      BY <1>2, <1>3, <1>4, <2>1 DEF Purge, EngineGone, Interrupt, Deploy, Quiet
    <2>2. CASE InspectEngine(w) \/ EngineReady(w)
      BY <1>1, <1>3, <1>4, <2>2 DEF InspectEngine, EngineReady, Labels, Quiet
    <2>3. CASE OpenAdmin(w)
      <3>1. FirstStatement(tasks[w].op) \in Labels \ {"rootPut", "recreate"}
        BY DEF FirstStatement, Labels
      <3> QED
        BY <1>1, <1>3, <1>4, <2>3, <3>1 DEF OpenAdmin, Quiet
    <2> QED
      BY <1>8, <2>1, <2>2, <2>3
  <1>9. CASE CreateFirst(w) \/ CreateSecond(w) \/ UndoFirst(w) \/ Grant(w) \/ Alter(w)
             \/ DropDatabase(w) \/ DropUser(w) \/ UpdateRow(w) \/ DeleteRow(w)
    BY <1>1, <1>2, <1>3, <1>4, <1>9
       DEF CreateFirst, CreateSecond, UndoFirst, Grant, Alter, DropDatabase, DropUser,
           UpdateRow, DeleteRow, Labels
  <1>10. CASE Insert(w)
    <2>1. tasks' = [tasks EXCEPT ![w].op = "undo", ![w].pc = "admin"] => Quiet
      BY DEF TasksOK, Task
    <2> QED
      BY <1>1, <1>4, <1>10, <2>1 DEF Insert, Labels
  <1>11. CASE Load(w)
    <2>1. ASSUME NEW given, tasks' = [tasks EXCEPT ![w].pc = "deploy", ![w].env = given]
          PROVE  Quiet
      BY <2>1 DEF TasksOK, Task
    <2> QED
      BY <1>2, <1>4, <1>11, <2>1 DEF Load
  <1> QED
    BY <1>6, <1>7, <1>8, <1>9, <1>10, <1>11 DEF Other

\* However many requests interleave and wherever they are cut off: the stored
\* root password is the one that the engine's volume was initialised with,
\* unless two first requests generated one at once.
THEOREM RootPasswordCorrect == Spec => []RootPasswordKnown
  <1>1. TypeInv /\ RootInv /\ [Next]_vars => RootInv'
    <2> SUFFICES ASSUME TypeInv, RootInv, [Next]_vars PROVE RootInv'
      OBVIOUS
    <2>1. CASE UNCHANGED vars
      BY <2>1, RootQuiet DEF vars, engineVars
    <2>2. CASE EngineStops
      BY <2>2, RootQuiet DEF EngineStops, overlaps
    <2>3. ASSUME NEW w \in Workers, GetRoot(w) PROVE RootInv'
      <3>1. At(w, "rootGet") /\ UNCHANGED <<volume, rootSetting>>
        BY <2>3 DEF GetRoot, engineVars
      <3>2. /\ tasks'[w].pc = "rootPut" => rootSetting = None
            /\ tasks'[w].pc = "recreate" => rootSetting = tasks'[w].root
            /\ \A v \in Workers \ {w} : tasks'[v] = tasks[v]
        BY <2>3, <3>1 DEF GetRoot, TypeInv, TasksOK, Task
      <3>3. ~rivals' => ~rivals /\ \A v \in Workers : ~At(v, "rootPut")
        BY <2>3 DEF GetRoot
      <3> QED
        BY <3>1, <3>2, <3>3 DEF RootInv, RootPasswordKnown, At
    <2>4. ASSUME NEW w \in Workers, PutRoot(w) PROVE RootInv'
      <3>1. UNCHANGED <<volume, rivals>>
        BY <2>4 DEF PutRoot, overlaps
      <3>2. /\ tasks'[w].pc = "recreate" /\ tasks'[w].root = tasks[w].root
            /\ \A v \in Workers \ {w} : tasks'[v] = tasks[v]
        BY <2>4 DEF PutRoot, Goto, TypeInv, TasksOK, Task
      <3>3. ~rivals => rootSetting = None /\ volume = None
        BY <2>4 DEF RootInv, RootPasswordKnown, PutRoot
      <3>4. ~rivals => \A v \in Workers \ {w} : ~At(v, "rootPut") /\ ~At(v, "recreate")
        <4>1. \A v \in Workers : At(v, "recreate") => tasks[v].root # None
          BY NoneAssumption DEF TypeInv, TasksOK, GoodTask, At, Numbers
        <4> QED
          BY <2>4, <3>3, <4>1 DEF RootInv, PutRoot
      <3> QED
        BY <2>4, <3>1, <3>2, <3>3, <3>4 DEF PutRoot, RootInv, RootPasswordKnown, At
    <2>5. ASSUME NEW w \in Workers, RecreateEngine(w) PROVE RootInv'
      <3>1. tasks'[w].pc = "ready" /\ \A v \in Workers \ {w} : tasks'[v] = tasks[v]
        BY <2>5 DEF RecreateEngine, Goto, TypeInv, TasksOK, Task
      <3> QED
        BY <2>5, <3>1 DEF RecreateEngine, RootInv, RootPasswordKnown, At, overlaps
    <2>6. ASSUME NEW w \in Workers, Other(w) PROVE RootInv'
      BY <2>6, RootQuiet, OtherStep DEF TypeInv
    <2> QED
      BY <2>1, <2>2, <2>3, <2>4, <2>5, <2>6 DEF Next, Other
  <1>2. Init => TypeInv /\ RootInv
    BY InitTypeInv, InitRootInv
  <1>3. TypeInv /\ RootInv => RootPasswordKnown
    BY DEF RootInv
  <1> QED
    BY <1>1, <1>2, <1>3, StepTypeInv, PTL DEF Spec
=============================================================================
