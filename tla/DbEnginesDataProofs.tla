------------------------- MODULE DbEnginesDataProofs -------------------------
(***************************************************************************)
(* Theorems about the data of DbEngines, project by project: row, database  *)
(* and user stay together, and the container is told, however the requests *)
(* on other projects interleave.                                           *)
(***************************************************************************)
EXTENDS DbEnginesProofs

\* Row, database and user of a name are all there, with one password, or none.
Together(n) ==
  IF rows[n] = None THEN n \notin databases /\ users[n] = None
                    ELSE n \in databases /\ users[n] = rows[n].password

\* What follows is about a project and the one worker w that may be at work on
\* it.  No request has ended half-way with the name, and none is half-way.
Settled(w, n) == n \notin disturbed /\ (HalfWay(tasks[w]) => tasks[w].name # n)

\* The container of the project has its attachments, by passwords that work.
Wanted(p) == {<<n, rows[n].password>> : n \in RowsOf(p)}
Knows(w, p) ==
  /\ \A n \in RowsOf(p) : <<n, rows[n].password>> \in env[p]
  /\ \A e \in env[p] : Settled(w, e[1]) => users[e[1]] = e[2]

NamesOK(w, p) == \A n \in Names : Owner[n] = p /\ Settled(w, n) => Together(n)

EnvsOK(w, p) ==
  /\ \A e \in env[p] : Owner[e[1]] = p
  /\ p \in projects \ behind /\ (Undeployed(tasks[w]) => tasks[w].project # p)
       => Knows(w, p)

\* What is there while the request is half-way with its name: what it has made
\* itself, and what it has dropped even of a name that was disturbed before.
DataOK(w) ==
  LET t == tasks[w]
      n == tasks[w].name
  IN  /\ t.pc \in {"dropUser", "deleteRow"} => n \notin databases
      /\ t.pc = "deleteRow" => users[n] = None
      /\ n \notin disturbed =>
           /\ t.pc \in {"createSecond", "undoFirst"} =>
                IF kind = "pg" THEN n \notin databases /\ users[n] = t.no
                               ELSE n \in databases /\ users[n] = None
           /\ t.pc \in {"grant", "insert", "update"} => n \in databases /\ users[n] = t.no
           /\ HalfWay(t) /\ t.op \in {"attach", "undo"} => rows[n] = None
           /\ t.pc = "update" => rows[n] # None

\* The labels suit the operation, and a deletion has every row still before it.
ScopeOK(w) ==
  LET t == tasks[w]
  IN  /\ t.pc \in {"alter", "update"} => t.op = "rotate"
      /\ t.pc \in {"dropDatabase", "dropUser", "deleteRow"} => t.op # "attach"
      /\ t.pc = "purge" => t.todo = {}
      /\ t.op = "delete" =>
           \A n \in RowsOf(t.project) :
             <<n, rows[n].id>> \in t.todo \/ (t.pc \in Working /\ n = t.name)

\* No container knows the name that is being made, and what was loaded for the
\* container is what it must know.
EnvOK(w) ==
  LET t == tasks[w]
  IN  /\ HalfWay(t) /\ t.op \in {"attach", "undo"} /\ t.name \notin disturbed
           /\ t.project \in projects \ behind
         => \A e \in env[t.project] : e[1] # t.name
      /\ t.pc = "deploy" => t.env = Wanted(t.project)

Sync(w, p) ==
  /\ NamesOK(w, p) /\ EnvsOK(w, p)
  /\ tasks[w].project = p => DataOK(w) /\ ScopeOK(w) /\ EnvOK(w)

-----------------------------------------------------------------------------
(* What the type invariant says of the parts.                              *)

LEMMA Parts ==
  ASSUME TypeInv
  PROVE  /\ None \notin Numbers /\ kind \in {"pg", "mariadb"} /\ projects \subseteq Projects
         /\ \A n \in Names : rows[n] # None => rows[n].password \in Numbers
         /\ \A n \in Names : Owner[n] \in Projects
         /\ \A p \in Projects : \A e \in env[p] : e[1] \in Names /\ e[2] \in Numbers
  BY NoneAssumption, OwnerAssumption DEF TypeInv, TypeOK, Row, Numbers

LEMMA TaskParts ==
  ASSUME TypeInv, NEW w \in Workers
  PROVE  GoodTask(tasks[w]) /\ tasks[w] \in Task
  BY DEF TypeInv, TasksOK

\* A request at a label has got the fields the label asks for.
LEMMA Named ==
  ASSUME TypeInv, NEW w \in Workers, tasks[w].pc \in Working
  PROVE  /\ tasks[w].name \in Names /\ tasks[w].no \in Numbers
         /\ tasks[w].project \in Projects /\ Owner[tasks[w].name] = tasks[w].project
  BY TaskParts DEF GoodTask, Working, Provisioning, Dropping

LEMMA AfterGoto ==
  ASSUME TypeInv, NEW w \in Workers, NEW label, Goto(w, label)
  PROVE  /\ tasks'[w].pc = label /\ tasks'[w].op = tasks[w].op
         /\ tasks'[w].name = tasks[w].name /\ tasks'[w].project = tasks[w].project
         /\ tasks'[w].no = tasks[w].no /\ tasks'[w].id = tasks[w].id
         /\ tasks'[w].todo = tasks[w].todo /\ tasks'[w].env = tasks[w].env
  BY DEF Goto, TypeInv, TasksOK, Task

LEMMA AfterReturn ==
  ASSUME TypeInv, NEW w \in Workers, Return(w)
  PROVE  tasks'[w] = IdleTask
  BY DEF Return, TypeInv, TasksOK

\* An idle worker asks nothing of the state but that it is in order.
LEMMA Idle ==
  ASSUME NEW w \in Workers, tasks'[w] = IdleTask
  PROVE  /\ ~HalfWay(tasks'[w]) /\ ~Undeployed(tasks'[w])
         /\ DataOK(w)' /\ ScopeOK(w)' /\ EnvOK(w)'
  <1>1. tasks'[w].pc = "idle" /\ tasks'[w].op = None /\ tasks'[w].todo = {}
    BY DEF IdleTask
  <1>2. None \notin Ops
    BY NoneAssumption
  <1>3. ~HalfWay(tasks'[w]) /\ ~Undeployed(tasks'[w])
    BY <1>1, <1>2 DEF HalfWay, Undeployed, Ops
  <1>4. tasks'[w].pc \notin Working
    BY <1>1 DEF Working, Provisioning, Dropping
  <1> QED
    BY <1>1, <1>2, <1>3, <1>4 DEF DataOK, ScopeOK, EnvOK, Ops

\* However a request fails, what it leaves out of step is on record.
LEMMA FailSync ==
  ASSUME TypeInv, NEW w \in Workers, NEW p \in Projects, Sync(w, p), Fail(w),
         UNCHANGED <<kind, projects, rows, databases, users, env>>
  PROVE  Sync(w, p)'
  <1>1. tasks'[w] = IdleTask
    BY AfterReturn DEF Fail
  <1>2. /\ ~HalfWay(tasks'[w]) /\ ~Undeployed(tasks'[w])
        /\ DataOK(w)' /\ ScopeOK(w)' /\ EnvOK(w)'
    BY <1>1, Idle
  <1>3. \A n : Settled(w, n)' => Settled(w, n)
    BY DEF Fail, Settled
  <1>4. \A n : Settled(w, n) => Settled(w, n)'
    BY <1>2 DEF Fail, Settled
  <1>5. NamesOK(w, p)'
    BY <1>3 DEF Sync, NamesOK, Together
  <1>6. EnvsOK(w, p)'
    BY <1>2, <1>3, <1>4 DEF Sync, EnvsOK, Fail, Knows, RowsOf
  <1> QED
    BY <1>2, <1>5, <1>6 DEF Sync

\* A step that leaves the data alone and the request as far in or out of step
\* as it was; a request may begin to owe a deployment.
LEMMA QuietSync ==
  ASSUME TypeInv, NEW w \in Workers, NEW p \in Projects, Sync(w, p),
         UNCHANGED <<kind, projects, rows, databases, users, env, disturbed, behind>>,
         HalfWay(tasks'[w]) <=> HalfWay(tasks[w]),
         HalfWay(tasks[w]) => tasks'[w].name = tasks[w].name,
         Undeployed(tasks[w]) => Undeployed(tasks'[w]) /\ tasks'[w].project = tasks[w].project,
         DataOK(w)', ScopeOK(w)', EnvOK(w)'
  PROVE  Sync(w, p)'
  <1>1. \A n : Settled(w, n)' <=> Settled(w, n)
    BY DEF Settled
  <1>2. NamesOK(w, p)'
    BY <1>1 DEF Sync, NamesOK, Together
  <1>3. Knows(w, p) => Knows(w, p)'
    BY <1>1 DEF Knows, RowsOf
  <1>4. EnvsOK(w, p)'
    BY <1>3 DEF Sync, EnvsOK
  <1> QED
    BY <1>2, <1>4 DEF Sync

\* The labels at which a request, unless it undoes, is in step.
Calm == {"inspect", "rootGet", "rootPut", "recreate", "ready", "admin", "createFirst",
         "alter", "dropDatabase"}

\* From one calm label to another.
LEMMA CalmSync ==
  ASSUME TypeInv, NEW w \in Workers, NEW p \in Projects, Sync(w, p), tasks[w].project = p,
         UNCHANGED <<kind, projects, rows, databases, users, env, disturbed, behind>>,
         tasks[w].pc \in Calm, tasks'[w].pc \in Calm,
         tasks'[w].op = tasks[w].op, tasks'[w].name = tasks[w].name,
         tasks'[w].project = tasks[w].project, tasks'[w].no = tasks[w].no,
         tasks'[w].todo = tasks[w].todo,
         tasks'[w].pc = "alter" => tasks[w].op = "rotate",
         tasks'[w].pc = "dropDatabase" => tasks[w].op # "attach"
  PROVE  Sync(w, p)'
  <1>1. HalfWay(tasks'[w]) <=> HalfWay(tasks[w])
    BY DEF HalfWay, Calm
  <1>2. Undeployed(tasks'[w]) <=> Undeployed(tasks[w])
    BY DEF Undeployed, Calm
  <1>3. tasks[w].pc \in Working /\ tasks'[w].pc \in Working
    BY DEF Calm, Working, Provisioning, Dropping
  <1>4. DataOK(w)'
    BY <1>1 DEF Sync, DataOK, Calm
  <1>5. ScopeOK(w)'
    BY <1>3 DEF Sync, ScopeOK, Calm, RowsOf
  <1>6. EnvOK(w)'
    BY <1>1 DEF Sync, EnvOK, Calm
  <1> QED
    BY <1>1, <1>2, <1>4, <1>5, <1>6, QuietSync

-----------------------------------------------------------------------------
(* The handlers.                                                           *)

\* A request that begins finds everything in step.
LEMMA BeginSync ==
  ASSUME TypeInv, NEW w \in Workers, NEW p \in Projects, Sync(w, p),
         tasks'[w].project = p, At(w, "idle"),
         UNCHANGED <<kind, projects, rows, databases, users, env, disturbed, behind>>,
         tasks'[w].pc \in {"inspect", "next"}, tasks'[w].op # "undo", ScopeOK(w)'
  PROVE  Sync(w, p)'
  <1>1. tasks[w] = IdleTask
    BY TaskParts DEF At, GoodTask
  <1>2. ~HalfWay(tasks[w]) /\ ~Undeployed(tasks[w])
    BY <1>1, NoneAssumption DEF IdleTask, HalfWay, Undeployed, Ops
  <1>3. ~HalfWay(tasks'[w])
    BY DEF HalfWay
  <1>4. DataOK(w)' /\ EnvOK(w)'
    BY <1>3 DEF DataOK, EnvOK
  <1> QED
    BY <1>2, <1>3, <1>4, QuietSync

LEMMA AttachSync ==
  ASSUME TypeInv, NEW w \in Workers, NEW p \in Projects, Sync(w, p),
         tasks'[w].project = p, AttachDatabase(w)
  PROVE  Sync(w, p)'
  <1>1. PICK n \in Names :
          Begin(w, Owner[n], [IdleTask EXCEPT !.pc = "inspect", !.op = "attach", !.name = n])
    BY DEF AttachDatabase
  <1>2. /\ tasks'[w].pc = "inspect" /\ tasks'[w].op = "attach" /\ tasks'[w].name = n
        /\ tasks'[w].project = Owner[n] /\ tasks'[w].todo = {}
    BY <1>1 DEF Begin, IdleTask, TypeInv, TasksOK
  <1>3. ScopeOK(w)'
    BY <1>2 DEF ScopeOK
  <1> QED
    BY <1>1, <1>2, <1>3, BeginSync DEF Begin, dataVars, history

LEMMA OnAttachmentSync ==
  ASSUME TypeInv, NEW w \in Workers, NEW p \in Projects, Sync(w, p),
         tasks'[w].project = p, NEW op \in {"rotate", "detach"},
         OnAttachment(w, op)
  PROVE  Sync(w, p)'
  <1>1. PICK n \in Names :
          Begin(w, Owner[n], [IdleTask EXCEPT !.pc = "inspect", !.op = op, !.name = n,
                                              !.id = rows[n].id])
    BY DEF OnAttachment
  <1>2. /\ tasks'[w].pc = "inspect" /\ tasks'[w].op = op /\ tasks'[w].name = n
        /\ tasks'[w].project = Owner[n] /\ tasks'[w].todo = {}
    BY <1>1 DEF Begin, IdleTask, TypeInv, TasksOK
  <1>3. ScopeOK(w)'
    BY <1>2 DEF ScopeOK
  <1> QED
    BY <1>1, <1>2, <1>3, BeginSync DEF Begin, dataVars, history

LEMMA DeleteProjectSync ==
  ASSUME TypeInv, NEW w \in Workers, NEW p \in Projects, Sync(w, p),
         tasks'[w].project = p, DeleteProject(w)
  PROVE  Sync(w, p)'
  <1>1. PICK q \in Projects :
          Begin(w, q, [IdleTask EXCEPT !.pc = "next", !.op = "delete",
                                       !.todo = {<<n, rows[n].id>> : n \in RowsOf(q)}])
    BY DEF DeleteProject
  <1>2. /\ tasks'[w].pc = "next" /\ tasks'[w].op = "delete"
        /\ q = p /\ tasks'[w].todo = {<<n, rows[n].id>> : n \in RowsOf(p)}
    BY <1>1 DEF Begin, IdleTask, TypeInv, TasksOK
  <1>3. UNCHANGED <<kind, projects, rows, databases, users, env, disturbed, behind>>
    BY <1>1 DEF Begin, dataVars, history
  <1>4. \A n \in RowsOf(p)' : <<n, rows'[n].id>> \in tasks'[w].todo
    BY <1>2, <1>3 DEF RowsOf
  <1>5. ScopeOK(w)'
    BY <1>2, <1>4, <1>4 DEF ScopeOK, Working, Provisioning, Dropping
  <1> QED
    BY <1>1, <1>2, <1>3, <1>5, BeginSync DEF Begin

LEMMA NextAttachmentSync ==
  ASSUME TypeInv, NEW w \in Workers, NEW p \in Projects, Sync(w, p),
         tasks[w].project = p, NextAttachment(w)
  PROVE  Sync(w, p)'
  <1>1. tasks[w].pc = "next" /\ tasks[w].op = "delete"
    BY TaskParts DEF NextAttachment, At, GoodTask
  <1>2. UNCHANGED <<kind, projects, rows, databases, users, env>>
    BY DEF NextAttachment, dataVars
  <1>3. ~HalfWay(tasks[w])
    BY <1>1 DEF HalfWay
  <1>4. CASE tasks[w].todo = {} /\ Goto(w, "purge") /\ UNCHANGED history
    <2>1. /\ tasks'[w].pc = "purge" /\ tasks'[w].op = "delete" /\ tasks'[w].todo = {}
          /\ tasks'[w].project = tasks[w].project
      BY <1>1, <1>4, AfterGoto
    <2>2. ~HalfWay(tasks'[w]) /\ Undeployed(tasks'[w])
      BY <2>1 DEF HalfWay, Undeployed
    <2>3. ScopeOK(w)'
      BY <1>1, <1>2, <1>4, <2>1 DEF Sync, ScopeOK, RowsOf, Working, Provisioning, Dropping
    <2>4. DataOK(w)' /\ EnvOK(w)'
      BY <2>1, <2>2 DEF DataOK, EnvOK
    <2> QED
      BY <1>2, <1>3, <1>4, <2>1, <2>2, <2>3, <2>4, QuietSync DEF history
  <1>5. ASSUME NEW s \in tasks[w].todo, RowIs(s[1], s[2]), UNCHANGED history,
               tasks' = [tasks EXCEPT ![w].pc = "inspect", ![w].name = s[1],
                                      ![w].id = s[2], ![w].todo = @ \ {s}]
        PROVE  Sync(w, p)'
    <2>1. /\ tasks'[w].pc = "inspect" /\ tasks'[w].op = "delete" /\ tasks'[w].name = s[1]
          /\ tasks'[w].todo = tasks[w].todo \ {s} /\ tasks'[w].project = tasks[w].project
      BY <1>1, <1>5, TaskParts DEF TypeInv, TasksOK, Task
    <2>2. ~HalfWay(tasks'[w]) /\ Undeployed(tasks'[w])
      BY <2>1 DEF HalfWay, Undeployed
    <2>3. \A n \in RowsOf(tasks[w].project) : <<n, rows[n].id>> \in tasks[w].todo
      BY <1>1 DEF Sync, ScopeOK, Working, Provisioning, Dropping
    <2>4. \A n \in RowsOf(tasks[w].project) :
            <<n, rows[n].id>> \in tasks'[w].todo \/ n = s[1]
      BY <2>1, <2>3
    <2>5. ScopeOK(w)'
      BY <1>2, <2>1, <2>4
         DEF Sync, ScopeOK, RowsOf, Working, Provisioning, Dropping
    <2>6. DataOK(w)' /\ EnvOK(w)'
      BY <2>1, <2>2 DEF DataOK, EnvOK
    <2> QED
      BY <1>2, <1>3, <1>5, <2>1, <2>2, <2>5, <2>6, QuietSync DEF history
  <1>6. CASE Fail(w)
    BY <1>2, <1>6, FailSync
  <1> QED
    BY <1>4, <1>5, <1>6 DEF NextAttachment

\* When a project is purged its rows are gone already: the cascade deletes
\* nothing, and no database is left without its row.
LEMMA PurgeSync ==
  ASSUME TypeInv, NEW w \in Workers, NEW p \in Projects, Sync(w, p),
         tasks[w].project = p, Purge(w)
  PROVE  Sync(w, p)'
  <1>1. tasks[w].pc = "purge" /\ tasks[w].op = "delete"
    BY TaskParts DEF Purge, At, GoodTask
  <1>2. RowsOf(p) = {}
    BY <1>1 DEF Sync, ScopeOK, Working, Provisioning, Dropping
  <1>3. \A n \in Names : rows'[n] = rows[n]
    BY <1>2 DEF Purge, RowsOf
  <1>4. tasks'[w] = IdleTask
    BY AfterReturn DEF Purge
  <1>5. /\ ~HalfWay(tasks'[w]) /\ ~Undeployed(tasks'[w])
        /\ DataOK(w)' /\ ScopeOK(w)' /\ EnvOK(w)'
    BY <1>4, Idle
  <1>6. ~HalfWay(tasks[w])
    BY <1>1 DEF HalfWay
  <1>7. \A n : Settled(w, n)' <=> Settled(w, n)
    BY <1>5, <1>6 DEF Settled, Purge, history
  <1>8. NamesOK(w, p)'
    BY <1>3, <1>7 DEF Sync, NamesOK, Together, Purge
  <1>9. env'[p] = {} /\ p \notin projects'
    BY DEF Purge, TypeInv, TypeOK
  <1>10. EnvsOK(w, p)'
    BY <1>9 DEF EnvsOK
  <1> QED
    BY <1>5, <1>8, <1>10 DEF Sync

-----------------------------------------------------------------------------
(* ensureEngine: none of its steps touches an attachment.                  *)

LEMMA EnsureEngineSync ==
  ASSUME TypeInv, NEW w \in Workers, NEW p \in Projects, Sync(w, p), tasks[w].project = p,
         InspectEngine(w) \/ GetRoot(w) \/ PutRoot(w) \/ RecreateEngine(w) \/ EngineReady(w)
         \/ OpenAdmin(w)
  PROVE  Sync(w, p)'
  <1>1. UNCHANGED <<kind, projects, rows, databases, users, env>>
    BY DEF InspectEngine, GetRoot, PutRoot, RecreateEngine, EngineReady, OpenAdmin, dataVars
  <1>2. tasks[w].pc \in Calm
    BY DEF InspectEngine, GetRoot, PutRoot, RecreateEngine, EngineReady, OpenAdmin, At, Calm
  <1>3. ASSUME NEW label \in Calm, Goto(w, label), UNCHANGED history,
               label = "alter" => tasks[w].op = "rotate",
               label = "dropDatabase" => tasks[w].op # "attach"
        PROVE  Sync(w, p)'
    BY <1>1, <1>2, <1>3, AfterGoto, CalmSync DEF history
  <1>4. CASE Fail(w)
    BY <1>1, <1>4, FailSync
  <1>5. CASE InspectEngine(w) \/ PutRoot(w) \/ RecreateEngine(w) \/ EngineReady(w)
    BY <1>3, <1>4, <1>5 DEF InspectEngine, PutRoot, RecreateEngine, EngineReady, Calm
  <1>6. CASE OpenAdmin(w)
    <2>1. /\ FirstStatement(tasks[w].op) \in Calm
          /\ FirstStatement(tasks[w].op) = "alter" => tasks[w].op = "rotate"
          /\ FirstStatement(tasks[w].op) = "dropDatabase" => tasks[w].op # "attach"
      BY DEF FirstStatement, Calm
    <2> QED
      BY <1>3, <1>4, <1>6, <2>1 DEF OpenAdmin
  <1>7. CASE GetRoot(w)
    <2>1. ASSUME NEW root, NEW label \in {"rootPut", "recreate"},
                 tasks' = [tasks EXCEPT ![w].root = root, ![w].pc = label]
          PROVE  Sync(w, p)'
      <3>1. /\ tasks'[w].pc = label /\ tasks'[w].op = tasks[w].op
            /\ tasks'[w].name = tasks[w].name /\ tasks'[w].project = tasks[w].project
            /\ tasks'[w].no = tasks[w].no /\ tasks'[w].todo = tasks[w].todo
        BY <2>1 DEF TypeInv, TasksOK, Task
      <3> QED
        BY <1>1, <1>2, <1>7, <3>1, CalmSync DEF GetRoot, history, Calm
    <2> QED
      BY <1>7, <2>1 DEF GetRoot
  <1> QED
    BY <1>5, <1>6, <1>7

-----------------------------------------------------------------------------
(* The statements.                                                         *)

\* A step that touches at most what the engine has of the request's own name.
\* Whether that name is half-way or in step again, and that no container
\* knows a name it takes back, is for the caller to say.
LEMMA OwnName ==
  ASSUME TypeInv, NEW w \in Workers, NEW p \in Projects, Sync(w, p),
         tasks[w].project = p, tasks[w].pc \in Working,
         NEW n \in Names, n = tasks[w].name,
         UNCHANGED <<kind, projects, rows, env, disturbed, behind>>,
         \A m \in Names \ {n} : (m \in databases' <=> m \in databases) /\ users'[m] = users[m],
         HalfWay(tasks'[w]) => tasks'[w].name = n,
         Undeployed(tasks'[w]) <=> Undeployed(tasks[w]),
         Undeployed(tasks[w]) => tasks'[w].project = p,
         Settled(w, n)' =>
           /\ Together(n)'
           /\ p \in projects \ behind =>
                \A e \in env[p] : e[1] = n => users'[e[1]] = e[2],
         DataOK(w)', ScopeOK(w)', EnvOK(w)'
  PROVE  Sync(w, p)'
  <1>1. Owner[n] = p
    BY Named
  <1>2. \A m \in Names \ {n} : Settled(w, m)' => Settled(w, m)
    BY DEF Settled
  <1>3. \A m \in Names \ {n} : Together(m)' <=> Together(m)
    BY DEF Together
  <1>4. NamesOK(w, p)'
    BY <1>2, <1>3 DEF Sync, NamesOK
  <1>5. ASSUME p \in projects \ behind, Undeployed(tasks'[w]) => tasks'[w].project # p
        PROVE  Knows(w, p)'
    <2>1. Knows(w, p)
      BY <1>5 DEF Sync, EnvsOK
    <2>2. \A e \in env[p] : e[1] \in Names /\ Owner[e[1]] = p
      BY <2>1, Parts DEF Sync, EnvsOK
    <2>3. \A e \in env[p] : e[1] # n /\ Settled(w, e[1])' => users'[e[1]] = e[2]
      BY <1>2, <2>1, <2>2 DEF Knows
    <2>4. \A e \in env[p] : e[1] = n /\ Settled(w, n)' => users'[e[1]] = e[2]
      BY <1>1, <1>5, <2>2
    <2>5. \A m \in RowsOf(p)' : <<m, rows'[m].password>> \in env'[p]
      BY <2>1 DEF Knows, RowsOf
    <2>6. \A e \in env'[p] : Settled(w, e[1])' => users'[e[1]] = e[2]
      BY <2>3, <2>4
    <2> QED
      BY <2>5, <2>6 DEF Knows
  <1>6. EnvsOK(w, p)'
    BY <1>5 DEF Sync, EnvsOK
  <1> QED
    BY <1>4, <1>6 DEF Sync

\* A request that has done nothing, or has undone what it did, returns.
LEMMA ReturnSync ==
  ASSUME TypeInv, NEW w \in Workers, NEW p \in Projects, Sync(w, p), Return(w),
         ~HalfWay(tasks[w]), ~Undeployed(tasks[w]),
         UNCHANGED <<kind, projects, rows, databases, users, env, disturbed, behind>>
  PROVE  Sync(w, p)'
  BY AfterReturn, Idle, QuietSync

\* A name without a user is in no container that is up to date.
LEMMA Unknown ==
  ASSUME TypeInv, NEW w \in Workers, NEW p \in Projects, Sync(w, p), p \in projects \ behind,
         NEW n \in Names, Settled(w, n), users[n] = None, ~Undeployed(tasks[w])
  PROVE  \A e \in env[p] : e[1] # n
  <1>1. Knows(w, p)
    BY DEF Sync, EnvsOK
  <1>2. \A e \in env[p] : e[2] \in Numbers
    BY <1>1, Parts
  <1> QED
    BY <1>1, <1>2, Parts DEF Knows

LEMMA CreateFirstSync ==
  ASSUME TypeInv, NEW w \in Workers, NEW p \in Projects, Sync(w, p),
         tasks[w].project = p, CreateFirst(w)
  PROVE  Sync(w, p)'
  <1>1. tasks[w].pc = "createFirst" /\ tasks[w].op = "attach"
    BY TaskParts DEF CreateFirst, Statement, At, GoodTask, Provisioning
  <1>2. UNCHANGED <<kind, projects, rows, env, disturbed, behind>>
    BY DEF CreateFirst, Statement, history
  <1>3. ~HalfWay(tasks[w]) /\ ~Undeployed(tasks[w]) /\ tasks[w].pc \in Working
    BY <1>1 DEF HalfWay, Undeployed, Working, Provisioning
  <1>4. PICK n \in Names : n = tasks[w].name
    BY <1>3, Named
  <1>5. CASE /\ IF kind = "pg" THEN users[n] = None ELSE n \notin databases
             /\ IF kind = "pg" THEN SetUser(n, tasks[w].no)
                               ELSE databases' = databases \cup {n} /\ UNCHANGED users
             /\ Goto(w, "createSecond")
    <2>1. /\ tasks'[w].pc = "createSecond" /\ tasks'[w].op = "attach" /\ tasks'[w].name = n
          /\ tasks'[w].project = tasks[w].project /\ tasks'[w].no = tasks[w].no
          /\ tasks'[w].todo = tasks[w].todo
      BY <1>1, <1>4, <1>5, AfterGoto
    <2>2. HalfWay(tasks'[w]) /\ ~Undeployed(tasks'[w])
      BY <2>1 DEF HalfWay, Undeployed
    <2>3. n \notin disturbed => Settled(w, n) /\ Together(n)
      BY <1>3, <1>4, Named DEF Settled, Sync, NamesOK
    <2>4. n \notin disturbed => rows[n] = None /\ users[n] = None /\ n \notin databases
      BY <1>5, <2>3, Parts DEF Together
    <2>5. \A m \in Names : users'[m] = IF kind = "pg" /\ m = n THEN tasks[w].no ELSE users[m]
      BY <1>5 DEF SetUser, TypeInv, TypeOK
    <2>6. \A m : m \in databases' <=> m \in databases \/ (kind # "pg" /\ m = n)
      BY <1>5 DEF SetUser
    <2>7. DataOK(w)'
      BY <1>2, <2>1, <2>4, <2>5, <2>6 DEF DataOK
    <2>8. ScopeOK(w)'
      BY <1>1, <1>2, <1>3, <1>4, <2>1 DEF Sync, ScopeOK, Working, Provisioning
    <2>9. EnvOK(w)'
      BY <1>2, <1>3, <2>1, <2>3, <2>4, Unknown DEF EnvOK
    <2>10. ~Settled(w, n)'
      BY <2>1, <2>2 DEF Settled
    <2> QED
      BY <1>2, <1>3, <1>4, <2>1, <2>2, <2>5, <2>6, <2>7, <2>8, <2>9, <2>10, OwnName
  <1>6. CASE Return(w) /\ UNCHANGED <<databases, users>>
    BY <1>2, <1>3, <1>6, ReturnSync
  <1> QED
    BY <1>4, <1>5, <1>6 DEF CreateFirst

LEMMA CreateSecondSync ==
  ASSUME TypeInv, NEW w \in Workers, NEW p \in Projects, Sync(w, p),
         tasks[w].project = p, CreateSecond(w)
  PROVE  Sync(w, p)'
  <1>1. tasks[w].pc = "createSecond" /\ tasks[w].op = "attach"
    BY TaskParts DEF CreateSecond, Statement, At, GoodTask, Provisioning
  <1>2. UNCHANGED <<kind, projects, rows, env, disturbed, behind>>
    BY DEF CreateSecond, Statement, history
  <1>3. HalfWay(tasks[w]) /\ ~Undeployed(tasks[w]) /\ tasks[w].pc \in Working
    BY <1>1 DEF HalfWay, Undeployed, Working, Provisioning
  <1>4. PICK n \in Names : n = tasks[w].name
    BY <1>3, Named
  <1>5. ASSUME NEW label \in {"insert", "grant", "undoFirst"}, Goto(w, label),
               \A m \in Names \ {n} :
                 (m \in databases' <=> m \in databases) /\ users'[m] = users[m],
               DataOK(w)'
        PROVE  Sync(w, p)'
    <2>1. /\ tasks'[w].pc = label /\ tasks'[w].op = "attach" /\ tasks'[w].name = n
          /\ tasks'[w].project = tasks[w].project /\ tasks'[w].todo = tasks[w].todo
      BY <1>1, <1>4, <1>5, AfterGoto
    <2>2. HalfWay(tasks'[w]) /\ ~Undeployed(tasks'[w])
      BY <2>1 DEF HalfWay, Undeployed
    <2>3. ScopeOK(w)'
      BY <1>1, <1>2, <1>3, <1>4, <2>1 DEF Sync, ScopeOK, Working, Provisioning
    <2>4. EnvOK(w)'
      BY <1>1, <1>2, <1>3, <1>4, <2>1 DEF Sync, EnvOK
    <2>5. ~Settled(w, n)'
      BY <2>1, <2>2 DEF Settled
    <2> QED
      BY <1>2, <1>3, <1>4, <1>5, <2>1, <2>2, <2>3, <2>4, <2>5, OwnName
  <1>6. n \notin disturbed =>
          /\ rows[n] = None
          /\ IF kind = "pg" THEN n \notin databases /\ users[n] = tasks[w].no
                            ELSE n \in databases /\ users[n] = None
    BY <1>1, <1>3, <1>4 DEF Sync, DataOK
  <1>7. CASE /\ IF kind = "pg" THEN databases' = databases \cup {n} /\ UNCHANGED users
                               ELSE SetUser(n, tasks[w].no)
             /\ Goto(w, IF kind = "pg" THEN "insert" ELSE "grant")
    <2>1. \A m \in Names : users'[m] = IF kind # "pg" /\ m = n THEN tasks[w].no ELSE users[m]
      BY <1>7 DEF SetUser, TypeInv, TypeOK
    <2>2. \A m : m \in databases' <=> m \in databases \/ (kind = "pg" /\ m = n)
      BY <1>7 DEF SetUser
    <2>3. /\ tasks'[w].pc \in {"insert", "grant"} /\ tasks'[w].name = n
          /\ tasks'[w].no = tasks[w].no
      BY <1>4, <1>7, AfterGoto
    <2>4. DataOK(w)'
      BY <1>2, <1>6, <2>1, <2>2, <2>3 DEF DataOK
    <2> QED
      BY <1>5, <1>7, <2>1, <2>2, <2>4
  <1>8. CASE Goto(w, "undoFirst") /\ UNCHANGED <<databases, users>>
    <2>1. /\ tasks'[w].pc = "undoFirst" /\ tasks'[w].name = n
          /\ tasks'[w].no = tasks[w].no
      BY <1>4, <1>8, AfterGoto
    <2>2. DataOK(w)'
      BY <1>2, <1>6, <1>8, <2>1 DEF DataOK
    <2> QED
      BY <1>5, <1>8, <2>2
  <1> QED
    BY <1>4, <1>7, <1>8 DEF CreateSecond

LEMMA UndoFirstSync ==
  ASSUME TypeInv, NEW w \in Workers, NEW p \in Projects, Sync(w, p),
         tasks[w].project = p, UndoFirst(w)
  PROVE  Sync(w, p)'
  <1>1. tasks[w].pc = "undoFirst" /\ tasks[w].op = "attach"
    BY TaskParts DEF UndoFirst, Statement, At, GoodTask, Provisioning
  <1>2. UNCHANGED <<kind, projects, rows, env, disturbed, behind>>
    BY DEF UndoFirst, Statement, history
  <1>3. HalfWay(tasks[w]) /\ ~Undeployed(tasks[w]) /\ tasks[w].pc \in Working
    BY <1>1 DEF HalfWay, Undeployed, Working, Provisioning
  <1>4. PICK n \in Names : n = tasks[w].name
    BY <1>3, Named
  <1>5. tasks'[w] = IdleTask
    BY AfterReturn DEF UndoFirst
  <1>6. /\ ~HalfWay(tasks'[w]) /\ ~Undeployed(tasks'[w])
        /\ DataOK(w)' /\ ScopeOK(w)' /\ EnvOK(w)'
    BY <1>5, Idle
  <1>7. n \notin disturbed =>
          /\ rows[n] = None
          /\ IF kind = "pg" THEN n \notin databases /\ users[n] = tasks[w].no
                            ELSE n \in databases /\ users[n] = None
    BY <1>1, <1>3, <1>4 DEF Sync, DataOK
  <1>8. \A m \in Names \ {n} : (m \in databases' <=> m \in databases) /\ users'[m] = users[m]
    BY <1>4 DEF UndoFirst, SetUser, TypeInv, TypeOK
  <1>9. n \notin disturbed => n \notin databases' /\ users'[n] = None
    <2>1. CASE kind = "pg"
      BY <1>4, <1>7, <2>1 DEF UndoFirst, MayDropUser, SetUser, TypeInv, TypeOK
    <2>2. CASE kind = "mariadb"
      BY <1>4, <1>7, <2>2 DEF UndoFirst
    <2> QED
      BY <2>1, <2>2, Parts
  <1>10. Settled(w, n)' => n \notin disturbed /\ Together(n)'
    BY <1>2, <1>7, <1>9 DEF Settled, Together
  <1>11. n \notin disturbed /\ p \in projects \ behind
         => \A e \in env[p] : e[1] # n
    BY <1>1, <1>3, <1>4 DEF Sync, EnvOK
  <1> QED
    BY <1>2, <1>3, <1>4, <1>6, <1>8, <1>10, <1>11, OwnName

LEMMA GrantSync ==
  ASSUME TypeInv, NEW w \in Workers, NEW p \in Projects, Sync(w, p),
         tasks[w].project = p, Grant(w)
  PROVE  Sync(w, p)'
  <1>1. tasks[w].pc = "grant" /\ tasks[w].op = "attach"
    BY TaskParts DEF Grant, Statement, At, GoodTask, Provisioning
  <1>2. UNCHANGED <<kind, projects, rows, databases, users, env>>
    BY DEF Grant, Statement
  <1>3. HalfWay(tasks[w]) /\ ~Undeployed(tasks[w]) /\ tasks[w].pc \in Working
    BY <1>1 DEF HalfWay, Undeployed, Working, Provisioning
  <1>4. CASE Goto(w, "insert") /\ UNCHANGED history
    <2>1. /\ tasks'[w].pc = "insert" /\ tasks'[w].op = "attach"
          /\ tasks'[w].name = tasks[w].name /\ tasks'[w].no = tasks[w].no
          /\ tasks'[w].project = tasks[w].project /\ tasks'[w].todo = tasks[w].todo
      BY <1>1, <1>4, AfterGoto
    <2>2. HalfWay(tasks'[w])
      BY <2>1 DEF HalfWay
    <2>3. DataOK(w)' /\ EnvOK(w)'
      BY <1>1, <1>2, <1>3, <1>4, <2>1 DEF Sync, DataOK, EnvOK, history
    <2>4. ScopeOK(w)'
      BY <1>1, <1>2, <1>3, <2>1 DEF Sync, ScopeOK, Working, Provisioning
    <2> QED
      BY <1>2, <1>3, <1>4, <2>1, <2>2, <2>3, <2>4, QuietSync DEF history
  <1> QED
    BY <1>2, <1>4, FailSync DEF Grant

LEMMA AlterSync ==
  ASSUME TypeInv, NEW w \in Workers, NEW p \in Projects, Sync(w, p),
         tasks[w].project = p, Alter(w)
  PROVE  Sync(w, p)'
  <1>1. tasks[w].pc = "alter" /\ tasks[w].op = "rotate"
    BY DEF Alter, Statement, At, Sync, ScopeOK
  <1>2. UNCHANGED <<kind, projects, rows, env, disturbed, behind>>
    BY DEF Alter, Statement, history
  <1>3. ~HalfWay(tasks[w]) /\ tasks[w].pc \in Working
    BY <1>1 DEF HalfWay, Working
  <1>4. PICK n \in Names : n = tasks[w].name
    BY <1>3, Named
  <1>5. CASE users[n] # None /\ SetUser(n, tasks[w].no) /\ Goto(w, "update")
    <2>1. /\ tasks'[w].pc = "update" /\ tasks'[w].op = tasks[w].op /\ tasks'[w].name = n
          /\ tasks'[w].project = tasks[w].project /\ tasks'[w].no = tasks[w].no
          /\ tasks'[w].todo = tasks[w].todo
      BY <1>1, <1>4, <1>5, AfterGoto
    <2>2. HalfWay(tasks'[w]) /\ (Undeployed(tasks'[w]) <=> Undeployed(tasks[w]))
      BY <1>1, <2>1 DEF HalfWay, Undeployed
    <2>3. n \notin disturbed => Together(n)
      BY <1>3, <1>4, Named DEF Settled, Sync, NamesOK
    <2>4. n \notin disturbed => rows[n] # None /\ n \in databases
      BY <1>5, <2>3 DEF Together
    <2>5. /\ databases' = databases
          /\ \A m \in Names : users'[m] = IF m = n THEN tasks[w].no ELSE users[m]
      BY <1>5 DEF SetUser, TypeInv, TypeOK
    <2>6. DataOK(w)'
      BY <1>1, <1>2, <2>1, <2>4, <2>5 DEF DataOK
    <2>7. ScopeOK(w)'
      BY <1>1, <1>2, <1>3, <1>4, <2>1 DEF Sync, ScopeOK, Working, RowsOf
    <2>8. EnvOK(w)'
      BY <1>1, <2>1 DEF EnvOK
    <2>9. ~Settled(w, n)'
      BY <2>1, <2>2 DEF Settled
    <2> QED
      BY <1>2, <1>3, <1>4, <2>1, <2>2, <2>5, <2>6, <2>7, <2>8, <2>9, OwnName
  <1>6. CASE Return(w) /\ UNCHANGED <<databases, users>>
    <2>1. ~Undeployed(tasks[w])
      BY <1>1 DEF Undeployed
    <2> QED
      BY <1>2, <1>3, <1>6, <2>1, ReturnSync
  <1> QED
    BY <1>4, <1>5, <1>6 DEF Alter

LEMMA DropDatabaseSync ==
  ASSUME TypeInv, NEW w \in Workers, NEW p \in Projects, Sync(w, p),
         tasks[w].project = p, DropDatabase(w)
  PROVE  Sync(w, p)'
  <1>1. tasks[w].pc = "dropDatabase" /\ tasks[w].op # "attach"
    BY DEF DropDatabase, Statement, At, Sync, ScopeOK
  <1>2. UNCHANGED <<kind, projects, rows, users, env, disturbed, behind>>
    BY DEF DropDatabase, Statement, history
  <1>3. tasks[w].pc \in Working
    BY <1>1 DEF Working, Dropping
  <1>4. PICK n \in Names : n = tasks[w].name
    BY <1>3, Named
  <1>5. /\ tasks'[w].pc = "dropUser" /\ tasks'[w].op = tasks[w].op /\ tasks'[w].name = n
        /\ tasks'[w].project = tasks[w].project /\ tasks'[w].todo = tasks[w].todo
    BY <1>4, AfterGoto DEF DropDatabase
  <1>6. HalfWay(tasks'[w]) /\ (Undeployed(tasks'[w]) <=> Undeployed(tasks[w]))
    BY <1>1, <1>5 DEF HalfWay, Undeployed
  <1>7. databases' = databases \ {n}
    BY <1>4 DEF DropDatabase
  <1>8. tasks[w].op = "undo" => HalfWay(tasks[w])
    BY DEF HalfWay
  <1>9. DataOK(w)'
    BY <1>1, <1>2, <1>4, <1>5, <1>7, <1>8 DEF Sync, DataOK
  <1>10. ScopeOK(w)'
    BY <1>1, <1>2, <1>3, <1>4, <1>5 DEF Sync, ScopeOK, Working, Dropping, RowsOf
  <1>11. EnvOK(w)'
    BY <1>1, <1>2, <1>4, <1>5, <1>8 DEF Sync, EnvOK
  <1>12. ~Settled(w, n)'
    BY <1>5, <1>6 DEF Settled
  <1> QED
    BY <1>2, <1>3, <1>4, <1>5, <1>6, <1>7, <1>9, <1>10, <1>11, <1>12, OwnName

LEMMA DropUserSync ==
  ASSUME TypeInv, NEW w \in Workers, NEW p \in Projects, Sync(w, p),
         tasks[w].project = p, DropUser(w)
  PROVE  Sync(w, p)'
  <1>1. tasks[w].pc = "dropUser" /\ tasks[w].op # "attach"
    BY DEF DropUser, Statement, At, Sync, ScopeOK
  <1>2. UNCHANGED <<kind, projects, rows, databases, env>>
    BY DEF DropUser, Statement, SetUser
  <1>3. HalfWay(tasks[w]) /\ tasks[w].pc \in Working
    BY <1>1 DEF HalfWay, Working, Dropping
  <1>4. PICK n \in Names : n = tasks[w].name
    BY <1>3, Named
  <1>5. CASE Fail(w) /\ UNCHANGED users
    BY <1>2, <1>5, FailSync
  <1>6. ASSUME SetUser(n, None), UNCHANGED history,
               IF tasks[w].op = "undo" THEN Return(w) ELSE Goto(w, "deleteRow")
        PROVE  Sync(w, p)'
    <2>1. \A m \in Names : users'[m] = IF m = n THEN None ELSE users[m]
      BY <1>6 DEF SetUser, TypeInv, TypeOK
    <2>2. n \notin databases
      BY <1>1, <1>4 DEF Sync, DataOK
    <2>3. UNCHANGED <<disturbed, behind>>
      BY <1>6 DEF history
    <2>4. CASE tasks[w].op = "undo"
      <3>1. ~Undeployed(tasks[w])
        BY <1>1, <2>4 DEF Undeployed
      <3>2. tasks'[w] = IdleTask
        BY <1>6, <2>4, AfterReturn
      <3>3. /\ ~HalfWay(tasks'[w]) /\ ~Undeployed(tasks'[w])
            /\ DataOK(w)' /\ ScopeOK(w)' /\ EnvOK(w)'
        BY <3>2, Idle
      <3>4. n \notin disturbed => rows[n] = None
        BY <1>3, <1>4, <2>4 DEF Sync, DataOK
      <3>5. Settled(w, n)' => n \notin disturbed /\ Together(n)'
        BY <1>2, <2>1, <2>2, <2>3, <3>4 DEF Settled, Together
      <3>6. n \notin disturbed /\ p \in projects \ behind
            => \A e \in env[p] : e[1] # n
        BY <1>3, <1>4, <2>4 DEF Sync, EnvOK
      <3> QED
        BY <1>2, <1>3, <1>4, <2>1, <2>3, <3>1, <3>3, <3>5, <3>6, OwnName
    <2>5. CASE tasks[w].op # "undo"
      <3>1. /\ tasks'[w].pc = "deleteRow" /\ tasks'[w].op = tasks[w].op /\ tasks'[w].name = n
            /\ tasks'[w].project = tasks[w].project /\ tasks'[w].todo = tasks[w].todo
        BY <1>4, <1>6, <2>5, AfterGoto
      <3>2. HalfWay(tasks'[w]) /\ (Undeployed(tasks'[w]) <=> Undeployed(tasks[w]))
        BY <1>1, <3>1 DEF HalfWay, Undeployed
      <3>3. DataOK(w)' /\ EnvOK(w)'
        BY <1>1, <1>2, <2>1, <2>2, <2>5, <3>1 DEF DataOK, EnvOK
      <3>4. ScopeOK(w)'
        BY <1>1, <1>2, <1>3, <1>4, <3>1 DEF Sync, ScopeOK, Working, RowsOf
      <3>5. ~Settled(w, n)'
        BY <3>1, <3>2 DEF Settled
      <3> QED
        BY <1>2, <1>3, <1>4, <2>1, <2>3, <3>1, <3>2, <3>3, <3>4, <3>5, OwnName
    <2> QED
      BY <2>4, <2>5
  <1> QED
    BY <1>4, <1>5, <1>6 DEF DropUser

-----------------------------------------------------------------------------
(* The rows, and the redeploy that follows.                                *)

\* A step that changes the row of the request's name and leaves a deployment
\* of the project to be made, or more attachments to be deleted.
LEMMA OwnRow ==
  ASSUME TypeInv, NEW w \in Workers, NEW p \in Projects, Sync(w, p),
         tasks[w].project = p, tasks[w].pc \in Working,
         NEW n \in Names, n = tasks[w].name,
         UNCHANGED <<kind, projects, databases, users, env, behind>>,
         \A m \in Names \ {n} : rows'[m] = rows[m] /\ (m \in disturbed' <=> m \in disturbed),
         ~HalfWay(tasks'[w]), Undeployed(tasks'[w]),
         tasks'[w].project = tasks[w].project,
         n \notin disturbed' => Together(n)',
         DataOK(w)', ScopeOK(w)', EnvOK(w)'
  PROVE  Sync(w, p)'
  <1>1. Owner[n] = p
    BY Named
  <1>2. \A m \in Names \ {n} : Settled(w, m)' <=> Settled(w, m)
    BY DEF Settled
  <1>3. \A m \in Names \ {n} : Together(m)' <=> Together(m)
    BY DEF Together
  <1>4. Settled(w, n)' => n \notin disturbed'
    BY DEF Settled
  <1>5. NamesOK(w, p)'
    BY <1>2, <1>3, <1>4 DEF Sync, NamesOK
  <1>6. EnvsOK(w, p)'
    BY DEF Sync, EnvsOK
  <1> QED
    BY <1>5, <1>6 DEF Sync

LEMMA InsertSync ==
  ASSUME TypeInv, NEW w \in Workers, NEW p \in Projects, Sync(w, p),
         tasks[w].project = p, Insert(w)
  PROVE  Sync(w, p)'
  <1>1. tasks[w].pc = "insert" /\ tasks[w].op = "attach"
    BY TaskParts DEF Insert, At, GoodTask, Provisioning
  <1>2. UNCHANGED <<kind, projects, databases, users, env, disturbed, behind>>
    BY DEF Insert, history
  <1>3. HalfWay(tasks[w]) /\ ~Undeployed(tasks[w]) /\ tasks[w].pc \in Working
    BY <1>1 DEF HalfWay, Undeployed, Working, Provisioning
  <1>4. PICK n \in Names : n = tasks[w].name
    BY <1>3, Named
  <1>5. n \notin disturbed => rows[n] = None /\ n \in databases /\ users[n] = tasks[w].no
    BY <1>1, <1>3, <1>4 DEF Sync, DataOK
  <1>6. CASE /\ rows' = [rows EXCEPT ![n] = [id |-> tasks[w].no, password |-> tasks[w].no]]
             /\ Goto(w, "load")
    <2>1. /\ tasks'[w].pc = "load" /\ tasks'[w].op = "attach"
          /\ tasks'[w].project = tasks[w].project /\ tasks'[w].todo = tasks[w].todo
      BY <1>1, <1>6, AfterGoto
    <2>2. ~HalfWay(tasks'[w]) /\ Undeployed(tasks'[w])
      BY <2>1 DEF HalfWay, Undeployed
    <2>3. DataOK(w)' /\ EnvOK(w)'
      BY <2>1, <2>2 DEF DataOK, EnvOK
    <2>4. ScopeOK(w)'
      BY <1>3, <2>1 DEF Sync, ScopeOK, Working, Provisioning, Dropping
    <2>5. \A m \in Names : rows'[m] = IF m = n THEN [id |-> tasks[w].no, password |-> tasks[w].no]
                                              ELSE rows[m]
      BY <1>6 DEF TypeInv, TypeOK
    <2>6. rows'[n] # None /\ rows'[n].password = tasks[w].no
      BY <1>3, <2>5, Named, NoneAssumption DEF Row
    <2>7. n \notin disturbed' => Together(n)'
      BY <1>2, <1>5, <2>6 DEF Together
    <2> QED
      BY <1>2, <1>3, <1>4, <2>1, <2>2, <2>3, <2>4, <2>5, <2>7, OwnRow
  <1>7. CASE /\ tasks' = [tasks EXCEPT ![w].op = "undo", ![w].pc = "admin"]
             /\ UNCHANGED rows
    <2>1. /\ tasks'[w].pc = "admin" /\ tasks'[w].op = "undo"
          /\ tasks'[w].name = tasks[w].name
          /\ tasks'[w].project = tasks[w].project /\ tasks'[w].todo = tasks[w].todo
      BY <1>7 DEF TypeInv, TasksOK, Task
    <2>2. HalfWay(tasks'[w])
      BY <2>1 DEF HalfWay
    <2>3. DataOK(w)'
      BY <1>2, <1>4, <1>5, <1>7, <2>1 DEF DataOK
    <2>4. EnvOK(w)'
      BY <1>1, <1>2, <1>3, <2>1 DEF Sync, EnvOK
    <2>5. ~Undeployed(tasks[w])
      BY <1>3
    <2>6. ScopeOK(w)'
      BY <1>3, <2>1 DEF Sync, ScopeOK, Working, Dropping
    <2> QED
      BY <1>2, <1>3, <1>7, <2>1, <2>2, <2>3, <2>4, <2>5, <2>6, QuietSync
  <1> QED
    BY <1>4, <1>6, <1>7 DEF Insert

LEMMA UpdateRowSync ==
  ASSUME TypeInv, NEW w \in Workers, NEW p \in Projects, Sync(w, p),
         tasks[w].project = p, UpdateRow(w)
  PROVE  Sync(w, p)'
  <1>1. tasks[w].pc = "update" /\ tasks[w].op = "rotate"
    BY DEF UpdateRow, At, Sync, ScopeOK
  <1>2. UNCHANGED <<kind, projects, databases, users, env>>
    BY DEF UpdateRow
  <1>3. HalfWay(tasks[w]) /\ tasks[w].pc \in Working
    BY <1>1 DEF HalfWay, Working
  <1>4. PICK n \in Names : n = tasks[w].name
    BY <1>3, Named
  <1>5. n \notin disturbed => n \in databases /\ users[n] = tasks[w].no
    BY <1>1, <1>4 DEF Sync, DataOK
  <1>6. CASE /\ rows[n] # None /\ rows' = [rows EXCEPT ![n].password = tasks[w].no]
             /\ Goto(w, "load") /\ UNCHANGED history
    <2>1. /\ tasks'[w].pc = "load" /\ tasks'[w].op = "rotate"
          /\ tasks'[w].project = tasks[w].project /\ tasks'[w].todo = tasks[w].todo
      BY <1>1, <1>6, AfterGoto
    <2>2. ~HalfWay(tasks'[w]) /\ Undeployed(tasks'[w])
      BY <2>1 DEF HalfWay, Undeployed
    <2>3. DataOK(w)' /\ EnvOK(w)'
      BY <2>1, <2>2 DEF DataOK, EnvOK
    <2>4. ScopeOK(w)'
      BY <1>3, <2>1 DEF Sync, ScopeOK, Working, Provisioning, Dropping
    <2>5. rows[n] \in Row
      BY <1>6 DEF TypeInv, TypeOK
    <2>6. \A m \in Names : rows'[m] = IF m = n THEN [rows[n] EXCEPT !.password = tasks[w].no]
                                              ELSE rows[m]
      BY <1>6 DEF TypeInv, TypeOK
    <2>7. rows'[n] \in Row /\ rows'[n].password = tasks[w].no
      BY <1>3, <2>5, <2>6, Named DEF Row
    <2>8. n \notin disturbed' => Together(n)'
      BY <1>2, <1>5, <1>6, <2>7, NoneAssumption DEF Together, history
    <2> QED
      BY <1>2, <1>3, <1>4, <1>6, <2>1, <2>2, <2>3, <2>4, <2>6, <2>8, OwnRow DEF history
  <1>7. CASE Fail(w) /\ UNCHANGED rows
    BY <1>2, <1>7, FailSync
  <1> QED
    BY <1>4, <1>6, <1>7 DEF UpdateRow, RowIs

LEMMA DeleteRowSync ==
  ASSUME TypeInv, NEW w \in Workers, NEW p \in Projects, Sync(w, p),
         tasks[w].project = p, DeleteRow(w)
  PROVE  Sync(w, p)'
  <1>1. tasks[w].pc = "deleteRow" /\ tasks[w].op # "attach"
    BY DEF DeleteRow, At, Sync, ScopeOK
  <1>2. UNCHANGED <<kind, projects, databases, users, env>>
    BY DEF DeleteRow
  <1>3. tasks[w].pc \in Working
    BY <1>1 DEF Working
  <1>4. PICK n \in Names : n = tasks[w].name
    BY <1>3, Named
  <1>5. n \notin databases /\ users[n] = None
    BY <1>1, <1>4 DEF Sync, DataOK
  <1>6. CASE /\ rows' = [rows EXCEPT ![n] = None]
             /\ Goto(w, IF tasks[w].op = "delete" THEN "next" ELSE "load")
             /\ disturbed' = disturbed \ {n} /\ UNCHANGED behind
    <2>1. /\ tasks'[w].pc = IF tasks[w].op = "delete" THEN "next" ELSE "load"
          /\ tasks'[w].op = tasks[w].op
          /\ tasks'[w].project = tasks[w].project /\ tasks'[w].todo = tasks[w].todo
      BY <1>6, AfterGoto
    <2>2. tasks[w].op # "undo"
      BY <1>1, TaskParts DEF GoodTask, Dropping
    <2>3. ~HalfWay(tasks'[w]) /\ Undeployed(tasks'[w])
      BY <2>1, <2>2 DEF HalfWay, Undeployed
    <2>4. DataOK(w)' /\ EnvOK(w)'
      BY <2>1, <2>3 DEF DataOK, EnvOK
    <2>5. \A m \in Names : rows'[m] = IF m = n THEN None ELSE rows[m]
      BY <1>6 DEF TypeInv, TypeOK
    <2>6. tasks[w].op = "delete" =>
            \A m \in Names :
              Owner[m] = tasks[w].project /\ rows'[m] # None
              => <<m, rows'[m].id>> \in tasks[w].todo
      BY <1>4, <2>5 DEF Sync, ScopeOK, RowsOf
    <2>7. tasks'[w].pc \notin Working \cup {"idle", "purge"}
      BY <2>1 DEF Working, Provisioning, Dropping
    <2>8. tasks'[w].op = "delete" =>
            \A m \in Names :
              Owner[m] = tasks'[w].project /\ rows'[m] # None
              => <<m, rows'[m].id>> \in tasks'[w].todo
      BY <2>1, <2>6
    <2>9. ScopeOK(w)'
      BY <2>7, <2>8 DEF ScopeOK, Working, Dropping, RowsOf
    <2>10. Together(n)'
      BY <1>2, <1>5, <2>5 DEF Together
    <2> QED
      BY <1>2, <1>3, <1>4, <1>6, <2>1, <2>3, <2>4, <2>5, <2>9, <2>10, OwnRow
  <1>7. CASE Fail(w) /\ UNCHANGED rows
    BY <1>2, <1>7, FailSync
  <1> QED
    BY <1>4, <1>6, <1>7 DEF DeleteRow

LEMMA LoadSync ==
  ASSUME TypeInv, NEW w \in Workers, NEW p \in Projects, Sync(w, p),
         tasks[w].project = p, Load(w)
  PROVE  Sync(w, p)'
  <1>1. tasks[w].pc = "load"
    BY DEF Load, At
  <1>2. UNCHANGED <<kind, projects, rows, databases, users, env, disturbed, behind>>
    BY DEF Load, dataVars, history
  <1>3. tasks[w].op # "undo"
    BY <1>1, TaskParts DEF GoodTask, Dropping
  <1>4. ~HalfWay(tasks[w]) /\ Undeployed(tasks[w])
    BY <1>1, <1>3 DEF HalfWay, Undeployed
  <1>5. CASE tasks' = [tasks EXCEPT ![w].pc = "deploy",
                                    ![w].env = {<<n, rows[n].password>> : n \in RowsOf(p)}]
    <2>1. /\ tasks'[w].pc = "deploy" /\ tasks'[w].op = tasks[w].op
          /\ tasks'[w].project = p /\ tasks'[w].todo = tasks[w].todo
          /\ tasks'[w].env = {<<n, rows[n].password>> : n \in RowsOf(p)}
      BY <1>5 DEF TypeInv, TasksOK, Task
    <2>2. ~HalfWay(tasks'[w]) /\ Undeployed(tasks'[w])
      BY <1>3, <2>1 DEF HalfWay, Undeployed
    <2>3. tasks'[w].env = Wanted(p)'
      BY <1>2, <2>1 DEF Wanted, RowsOf
    <2>4. DataOK(w)' /\ EnvOK(w)'
      BY <2>1, <2>2, <2>3 DEF DataOK, EnvOK, Wanted, RowsOf
    <2>5. ScopeOK(w)'
      BY <1>1, <1>2, <2>1 DEF Sync, ScopeOK, RowsOf, Working, Provisioning, Dropping
    <2> QED
      BY <1>2, <1>4, <2>1, <2>2, <2>4, <2>5, QuietSync
  <1>6. CASE p \notin projects /\ Return(w)
    <2>1. tasks'[w] = IdleTask
      BY <1>6, AfterReturn
    <2>2. /\ ~HalfWay(tasks'[w]) /\ ~Undeployed(tasks'[w])
          /\ DataOK(w)' /\ ScopeOK(w)' /\ EnvOK(w)'
      BY <2>1, Idle
    <2>3. \A n : Settled(w, n)' <=> Settled(w, n)
      BY <1>2, <1>4, <2>2 DEF Settled
    <2>4. NamesOK(w, p)'
      BY <1>2, <2>3 DEF Sync, NamesOK, Together
    <2>5. Knows(w, p) => Knows(w, p)'
      BY <1>2, <2>3 DEF Knows, RowsOf
    <2>6. EnvsOK(w, p)'
      BY <1>2, <1>6, <2>5 DEF Sync, EnvsOK
    <2> QED
      BY <2>2, <2>4, <2>6 DEF Sync
  <1> QED
    BY <1>5, <1>6 DEF Load

\* What was loaded is still what the project must know: with one request at a
\* time no row has changed since.
LEMMA DeploySync ==
  ASSUME TypeInv, NEW w \in Workers, NEW p \in Projects, Sync(w, p),
         tasks[w].project = p, Deploy(w)
  PROVE  Sync(w, p)'
  <1>1. tasks[w].pc = "deploy"
    BY DEF Deploy, At
  <1>2. UNCHANGED <<kind, projects, rows, databases, users, disturbed>>
    BY DEF Deploy, dataVars
  <1>3. tasks[w].op # "undo"
    BY <1>1, TaskParts DEF GoodTask, Dropping
  <1>4. ~HalfWay(tasks[w])
    BY <1>1, <1>3 DEF HalfWay
  <1>5. tasks'[w] = IdleTask
    BY AfterReturn DEF Deploy
  <1>6. /\ ~HalfWay(tasks'[w]) /\ ~Undeployed(tasks'[w])
        /\ DataOK(w)' /\ ScopeOK(w)' /\ EnvOK(w)'
    BY <1>5, Idle
  <1>7. \A n : Settled(w, n)' <=> Settled(w, n)
    BY <1>2, <1>4, <1>6 DEF Settled
  <1>8. NamesOK(w, p)'
    BY <1>2, <1>7 DEF Sync, NamesOK, Together
  <1>9. tasks[w].env = {<<n, rows[n].password>> : n \in RowsOf(p)}
    BY <1>1 DEF Sync, EnvOK, Wanted
  <1>10. CASE env' = [env EXCEPT ![p] = tasks[w].env]
    <2>1. env'[p] = {<<n, rows[n].password>> : n \in RowsOf(p)}
      BY <1>9, <1>10 DEF TypeInv, TypeOK
    <2>2. \A e \in env'[p] : \E n \in RowsOf(p) : e[1] = n /\ e[2] = rows[n].password
      BY <2>1
    <2>3. \A e \in env'[p] : Owner[e[1]] = p
      BY <2>2 DEF RowsOf
    <2>4. \A n \in RowsOf(p)' : <<n, rows'[n].password>> \in env'[p]
      BY <1>2, <2>1 DEF RowsOf
    <2>5. \A n \in RowsOf(p) : Settled(w, n) => users[n] = rows[n].password
      BY DEF Sync, NamesOK, Together, RowsOf
    <2>6. \A e \in env'[p] : Settled(w, e[1])' => users'[e[1]] = e[2]
      BY <1>2, <1>7, <2>2, <2>5
    <2>7. EnvsOK(w, p)'
      BY <2>3, <2>4, <2>6 DEF EnvsOK, Knows
    <2> QED
      BY <1>6, <1>8, <2>7 DEF Sync
  <1>11. CASE UNCHANGED env /\ behind' = behind \cup {p}
    <2>1. EnvsOK(w, p)'
      BY <1>11 DEF Sync, EnvsOK
    <2> QED
      BY <1>6, <1>8, <2>1 DEF Sync
  <1> QED
    BY <1>10, <1>11 DEF Deploy

-----------------------------------------------------------------------------

LEMMA CutOffSync ==
  ASSUME TypeInv, NEW w \in Workers, NEW p \in Projects, Sync(w, p), EngineGone(w) \/ Interrupt(w)
  PROVE  Sync(w, p)'
  BY FailSync DEF EngineGone, Interrupt, dataVars

LEMMA StillSync ==
  ASSUME NEW w \in Workers, NEW p \in Projects, Sync(w, p), EngineStops \/ UNCHANGED vars
  PROVE  Sync(w, p)'
  <1>1. UNCHANGED <<kind, projects, rows, databases, users, env, disturbed, behind, tasks>>
    BY DEF EngineStops, vars, dataVars, history
  <1>2. \A n : Settled(w, n)' <=> Settled(w, n)
    BY <1>1 DEF Settled
  <1>3. Knows(w, p)' <=> Knows(w, p)
    BY <1>1, <1>2 DEF Knows, RowsOf
  <1>4. NamesOK(w, p)' /\ EnvsOK(w, p)'
    BY <1>1, <1>2, <1>3 DEF Sync, NamesOK, Together, EnvsOK
  <1>5. tasks'[w].project = p => DataOK(w)' /\ ScopeOK(w)' /\ EnvOK(w)'
    BY <1>1 DEF Sync, DataOK, ScopeOK, EnvOK, Wanted, RowsOf
  <1> QED
    BY <1>4, <1>5 DEF Sync

LEMMA InitSync ==
  ASSUME Init, NEW w \in Workers, NEW p \in Projects
  PROVE  Sync(w, p)
  <1>1. tasks[w] = IdleTask
    BY DEF Init
  <1>2. tasks[w].pc = "idle" /\ tasks[w].op = None /\ tasks[w].todo = {}
    BY <1>1 DEF IdleTask
  <1>3. None \notin Ops
    BY NoneAssumption
  <1>4. ~HalfWay(tasks[w]) /\ ~Undeployed(tasks[w])
    BY <1>2, <1>3 DEF HalfWay, Undeployed, Ops
  <1>5. NamesOK(w, p)
    BY DEF Init, NamesOK, Together
  <1>6. \A q : RowsOf(q) = {}
    BY DEF Init, RowsOf
  <1>7. EnvsOK(w, p)
    BY <1>6 DEF Init, EnvsOK, Knows
  <1>8. DataOK(w) /\ EnvOK(w)
    BY <1>2, <1>4 DEF DataOK, EnvOK
  <1>9. ScopeOK(w)
    BY <1>1, <1>2, <1>6 DEF ScopeOK, Working, Provisioning, Dropping
  <1> QED
    BY <1>5, <1>7, <1>8, <1>9 DEF Sync

-----------------------------------------------------------------------------
(* What a step leaves alone: the other workers, and the other projects.    *)

\* The steps with which a request begins.
Starts(u) ==
  AttachDatabase(u) \/ RotateDatabaseAttachment(u) \/ DeleteDatabaseAttachment(u)
  \/ DeleteProject(u)

\* A request begins in an idle worker, changes no data, and is in company on
\* its project only if that is put on record.
Begun(u, p) ==
  /\ tasks[u] = IdleTask
  /\ UNCHANGED <<kind, projects, rows, databases, users, env, disturbed, behind>>
  /\ tasks'[u].project = p
  /\ mixed' = IF Busy(p) THEN mixed \cup {p} ELSE mixed

LEMMA BeginEffect ==
  ASSUME TypeInv, NEW u \in Workers, NEW p \in Projects, NEW task, Begin(u, p, task),
         \A no, project : [task EXCEPT !.no = no, !.project = project].project = project
  PROVE  Begun(u, p)
  <1>1. tasks[u] = IdleTask
    BY TaskParts DEF Begin, At, GoodTask
  <1>2. tasks' = [tasks EXCEPT ![u] = [task EXCEPT !.no = requests + 1, !.project = p]]
    BY DEF Begin
  <1>3. tasks'[u].project = p
    BY <1>2 DEF TypeInv, TasksOK
  <1> QED
    BY <1>1, <1>3 DEF Begun, Begin, dataVars, history

LEMMA StartsEffect ==
  ASSUME TypeInv, NEW u \in Workers, Starts(u)
  PROVE  \E p \in Projects : Begun(u, p)
  <1>1. \A n \in Names : Owner[n] \in Projects
    BY OwnerAssumption
  <1>2. CASE AttachDatabase(u)
    <2>1. PICK n \in Names :
            Begin(u, Owner[n], [IdleTask EXCEPT !.pc = "inspect", !.op = "attach", !.name = n])
      BY <1>2 DEF AttachDatabase
    <2> DEFINE task == [IdleTask EXCEPT !.pc = "inspect", !.op = "attach", !.name = n]
    <2>2. \A no, project : [task EXCEPT !.no = no, !.project = project].project = project
      BY DEF IdleTask
    <2>3. Begin(u, Owner[n], task)
      BY <2>1
    <2> HIDE DEF task
    <2> QED
      BY <1>1, <2>2, <2>3, BeginEffect
  <1>3. ASSUME NEW op, OnAttachment(u, op) PROVE \E p \in Projects : Begun(u, p)
    <2>1. PICK n \in Names :
            Begin(u, Owner[n], [IdleTask EXCEPT !.pc = "inspect", !.op = op, !.name = n,
                                                !.id = rows[n].id])
      BY <1>3 DEF OnAttachment
    <2> DEFINE task == [IdleTask EXCEPT !.pc = "inspect", !.op = op, !.name = n,
                                        !.id = rows[n].id]
    <2>2. \A no, project : [task EXCEPT !.no = no, !.project = project].project = project
      BY DEF IdleTask
    <2>3. Begin(u, Owner[n], task)
      BY <2>1
    <2> HIDE DEF task
    <2> QED
      BY <1>1, <2>2, <2>3, BeginEffect
  <1>4. CASE DeleteProject(u)
    <2>1. PICK p \in Projects :
            Begin(u, p, [IdleTask EXCEPT !.pc = "next", !.op = "delete",
                                         !.todo = {<<n, rows[n].id>> : n \in RowsOf(p)}])
      BY <1>4 DEF DeleteProject
    <2> DEFINE todo == {<<n, rows[n].id>> : n \in RowsOf(p)}
               task == [IdleTask EXCEPT !.pc = "next", !.op = "delete", !.todo = todo]
    <2> HIDE DEF todo
    <2>2. \A no, project : [task EXCEPT !.no = no, !.project = project].project = project
      BY DEF IdleTask
    <2>3. Begin(u, p, task)
      BY <2>1 DEF todo
    <2> HIDE DEF task
    <2> QED
      BY <2>2, <2>3, BeginEffect
  <1> QED
    BY <1>2, <1>3, <1>4 DEF Starts, RotateDatabaseAttachment, DeleteDatabaseAttachment

\* The steps of a request that is at work.
Proceeds(u) ==
  \/ NextAttachment(u) \/ Purge(u) \/ InspectEngine(u) \/ GetRoot(u) \/ PutRoot(u)
  \/ RecreateEngine(u) \/ EngineReady(u) \/ OpenAdmin(u)
  \/ CreateFirst(u) \/ CreateSecond(u) \/ UndoFirst(u) \/ Grant(u)
  \/ Alter(u) \/ DropDatabase(u) \/ DropUser(u) \/ EngineGone(u)
  \/ Insert(u) \/ UpdateRow(u) \/ DeleteRow(u) \/ Load(u) \/ Deploy(u)
  \/ Interrupt(u)

\* Nothing of the project is touched.
Untouched(p) ==
  /\ UNCHANGED kind
  /\ \A n \in Names :
       Owner[n] = p => /\ rows'[n] = rows[n] /\ users'[n] = users[n]
                       /\ n \in databases' <=> n \in databases
                       /\ n \in disturbed' <=> n \in disturbed
  /\ env'[p] = env[p]
  /\ p \in projects' <=> p \in projects
  /\ p \in behind' <=> p \in behind

\* The task of a worker that proceeds stays with its project, or is over.
LEMMA ProceedsTask ==
  ASSUME TypeInv, NEW u \in Workers, Proceeds(u)
  PROVE  /\ tasks[u].project \in Projects /\ mixed' = mixed
         /\ tasks'[u].project \in {tasks[u].project, None}
  <1>1. ~At(u, "idle")
    BY DEF Proceeds, NextAttachment, Purge, InspectEngine, GetRoot, PutRoot, RecreateEngine,
           EngineReady, OpenAdmin, CreateFirst, CreateSecond, UndoFirst, Grant, Alter,
           DropDatabase, DropUser, EngineGone, Insert, UpdateRow, DeleteRow, Load, Deploy,
           Interrupt, Statement, At
  <1>2. tasks[u].project \in Projects
    BY <1>1, TaskParts DEF At, GoodTask
  <1>3. mixed' = mixed
    BY DEF Proceeds, NextAttachment, Purge, InspectEngine, GetRoot, PutRoot, RecreateEngine,
           EngineReady, OpenAdmin, CreateFirst, CreateSecond, UndoFirst, Grant, Alter,
           DropDatabase, DropUser, EngineGone, Insert, UpdateRow, DeleteRow, Load, Deploy,
           Interrupt, Statement, overlaps
  <1> DEFINE Stays == tasks'[u].project \in {tasks[u].project, None}
  <1>4. ASSUME NEW label, Goto(u, label) PROVE Stays
    BY <1>4, AfterGoto
  <1>5. Return(u) => Stays
    BY AfterReturn DEF IdleTask
  <1>6. Fail(u) => Stays
    BY <1>5 DEF Fail
  <1>7. ASSUME NEW s \in tasks[u].todo,
               tasks' = [tasks EXCEPT ![u].pc = "inspect", ![u].name = s[1],
                                      ![u].id = s[2], ![u].todo = @ \ {s}]
        PROVE  Stays
    BY <1>7 DEF TypeInv, TasksOK, Task
  <1>8. ASSUME NEW root, NEW label, tasks' = [tasks EXCEPT ![u].root = root, ![u].pc = label]
        PROVE  Stays
    BY <1>8 DEF TypeInv, TasksOK, Task
  <1>9. tasks' = [tasks EXCEPT ![u].op = "undo", ![u].pc = "admin"] => Stays
    BY DEF TypeInv, TasksOK, Task
  <1>10. ASSUME NEW given, tasks' = [tasks EXCEPT ![u].pc = "deploy", ![u].env = given]
         PROVE  Stays
    BY <1>10 DEF TypeInv, TasksOK, Task
  <1> HIDE DEF Stays
  <1>11. ASSUME NextAttachment(u) PROVE Stays
    BY <1>4, <1>6, <1>7, <1>11 DEF NextAttachment
  <1>12. ASSUME GetRoot(u) PROVE Stays
    BY <1>8, <1>12 DEF GetRoot
  <1>13. ASSUME Insert(u) \/ Load(u) PROVE Stays
    BY <1>4, <1>5, <1>9, <1>10, <1>13 DEF Insert, Load
  <1>14. ASSUME Purge(u) \/ InspectEngine(u) \/ PutRoot(u) \/ RecreateEngine(u)
                \/ EngineReady(u) \/ OpenAdmin(u) \/ EngineGone(u) \/ Interrupt(u)
                \/ Deploy(u)
         PROVE  Stays
    BY <1>4, <1>5, <1>6, <1>14
       DEF Purge, InspectEngine, PutRoot, RecreateEngine, EngineReady, OpenAdmin, EngineGone,
           Interrupt, Deploy
  <1>15. ASSUME CreateFirst(u) \/ CreateSecond(u) \/ UndoFirst(u) \/ Grant(u) \/ Alter(u)
                \/ DropDatabase(u) \/ DropUser(u) \/ UpdateRow(u) \/ DeleteRow(u)
         PROVE  Stays
    BY <1>4, <1>5, <1>6, <1>15
       DEF CreateFirst, CreateSecond, UndoFirst, Grant, Alter, DropDatabase, DropUser,
           UpdateRow, DeleteRow
  <1>16. Stays
    BY <1>11, <1>12, <1>13, <1>14, <1>15 DEF Proceeds
  <1> QED
    BY <1>2, <1>3, <1>16 DEF Stays

\* Only what has the request's own name is touched.
LEMMA OwnNameOnly ==
  ASSUME TypeInv, NEW u \in Workers, tasks[u].pc \in Working,
         UNCHANGED <<kind, projects, env, behind>>,
         \A m \in Names : m # tasks[u].name =>
           /\ rows'[m] = rows[m] /\ users'[m] = users[m]
           /\ m \in databases' <=> m \in databases
           /\ m \in disturbed' <=> m \in disturbed,
         NEW p \in Projects, tasks[u].project # p
  PROVE  Untouched(p)
  BY Named DEF Untouched

LEMMA FailOnly ==
  ASSUME TypeInv, NEW u \in Workers, tasks[u].pc # "idle", Fail(u),
         UNCHANGED <<kind, projects, rows, users, databases, env>>,
         NEW p \in Projects, tasks[u].project # p
  PROVE  Untouched(p)
  <1>1. HalfWay(tasks[u]) => Owner[tasks[u].name] # p
    BY TaskParts DEF HalfWay, GoodTask, Working, Provisioning, Dropping
  <1> QED
    BY <1>1 DEF Fail, Untouched

\* A request at work touches nothing of another project.
LEMMA ProceedsData ==
  ASSUME TypeInv, NEW u \in Workers, Proceeds(u), NEW p \in Projects, tasks[u].project # p
  PROVE  Untouched(p)
  <1>1. UNCHANGED <<kind, projects, rows, databases, users, env, disturbed, behind>>
        => Untouched(p)
    BY DEF Untouched
  <1>2. CASE NextAttachment(u) \/ EngineReady(u) \/ OpenAdmin(u) \/ EngineGone(u)
             \/ Interrupt(u)
    <2>1. tasks[u].pc # "idle"
      BY <1>2 DEF NextAttachment, EngineReady, OpenAdmin, EngineGone, Interrupt, At
    <2>2. UNCHANGED <<kind, projects, rows, databases, users, env>>
      BY <1>2 DEF NextAttachment, EngineReady, OpenAdmin, EngineGone, Interrupt, dataVars
    <2>3. Fail(u) \/ UNCHANGED history
      BY <1>2 DEF NextAttachment, EngineReady, OpenAdmin, EngineGone, Interrupt
    <2> QED
      BY <1>1, <2>1, <2>2, <2>3, FailOnly DEF history
  <1>3. CASE InspectEngine(u) \/ GetRoot(u) \/ PutRoot(u) \/ RecreateEngine(u) \/ Load(u)
    BY <1>1, <1>3
       DEF InspectEngine, GetRoot, PutRoot, RecreateEngine, Load, dataVars, history
  <1>4. CASE Purge(u)
    <2>1. \A n \in Names : Owner[n] = p => rows'[n] = rows[n]
      BY <1>4 DEF Purge
    <2>2. env'[p] = env[p] /\ (p \in projects' <=> p \in projects)
      BY <1>4 DEF Purge, TypeInv, TypeOK
    <2> QED
      BY <1>4, <2>1, <2>2 DEF Purge, Untouched, history
  <1>5. CASE Deploy(u)
    <2>1. env'[p] = env[p] /\ (p \in behind' <=> p \in behind)
      BY <1>5 DEF Deploy, TypeInv, TypeOK
    <2> QED
      BY <1>5, <2>1 DEF Deploy, Untouched, dataVars
  <1>6. ASSUME NEW password, SetUser(tasks[u].name, password)
        PROVE  /\ UNCHANGED databases
               /\ \A m \in Names : m # tasks[u].name => users'[m] = users[m]
    BY <1>6 DEF SetUser, TypeInv, TypeOK
  <1>7. CASE CreateFirst(u) \/ CreateSecond(u) \/ UndoFirst(u) \/ Alter(u) \/ DropDatabase(u)
    <2>1. tasks[u].pc \in Working
      BY <1>7 DEF CreateFirst, CreateSecond, UndoFirst, Alter, DropDatabase, Statement, At,
                  Working, Provisioning, Dropping
    <2>2. UNCHANGED <<kind, projects, env, rows, disturbed, behind>>
      BY <1>7 DEF CreateFirst, CreateSecond, UndoFirst, Alter, DropDatabase, Statement, history
    <2>3. \A m \in Names : m # tasks[u].name =>
            users'[m] = users[m] /\ (m \in databases' <=> m \in databases)
      BY <1>6, <1>7, Parts DEF CreateFirst, CreateSecond, UndoFirst, Alter, DropDatabase
    <2> QED
      BY <2>1, <2>2, <2>3, OwnNameOnly
  <1>8. CASE Grant(u) \/ DropUser(u)
    <2>1. tasks[u].pc \in Working /\ tasks[u].pc # "idle"
      BY <1>8 DEF Grant, DropUser, Statement, At, Working, Provisioning, Dropping
    <2>2. UNCHANGED <<kind, projects, env, rows>>
      BY <1>8 DEF Grant, DropUser, Statement
    <2>3. CASE Fail(u) /\ UNCHANGED <<databases, users>>
      BY <2>1, <2>2, <2>3, FailOnly
    <2>4. CASE UNCHANGED history /\ SetUser(tasks[u].name, None)
      BY <1>6, <2>1, <2>2, <2>4, OwnNameOnly DEF history
    <2>5. CASE UNCHANGED history /\ UNCHANGED <<databases, users>>
      BY <1>1, <2>2, <2>5 DEF history
    <2> QED
      BY <1>8, <2>3, <2>4, <2>5 DEF Grant, DropUser
  <1>9. CASE Insert(u) \/ UpdateRow(u) \/ DeleteRow(u)
    <2>1. tasks[u].pc \in Working /\ tasks[u].pc # "idle"
      BY <1>9 DEF Insert, UpdateRow, DeleteRow, At, Working, Provisioning
    <2>2. UNCHANGED <<kind, projects, env, databases, users>>
      BY <1>9 DEF Insert, UpdateRow, DeleteRow
    <2>3. CASE Fail(u) /\ UNCHANGED rows
      BY <2>1, <2>2, <2>3, FailOnly
    <2>4. ASSUME NEW row, rows' = [rows EXCEPT ![tasks[u].name] = row], UNCHANGED behind,
                 \A m \in Names : m # tasks[u].name => (m \in disturbed' <=> m \in disturbed)
          PROVE  Untouched(p)
      <3>1. \A m \in Names : m # tasks[u].name => rows'[m] = rows[m]
        BY <2>4 DEF TypeInv, TypeOK
      <3> QED
        BY <2>1, <2>2, <2>4, <3>1, OwnNameOnly
    <2>5. UNCHANGED <<rows, disturbed, behind>> => Untouched(p)
      BY <1>1, <2>2
    <2>6. CASE Insert(u)
      BY <2>4, <2>5, <2>6 DEF Insert, history
    <2>7. CASE UpdateRow(u)
      <3>1. CASE /\ rows' = [rows EXCEPT ![tasks[u].name].password = tasks[u].no]
                 /\ UNCHANGED history
        <4>1. rows' = [rows EXCEPT ![tasks[u].name] =
                                     [rows[tasks[u].name] EXCEPT !.password = tasks[u].no]]
          BY <3>1
        <4> QED
          BY <2>4, <3>1, <4>1 DEF history
      <3> QED
        BY <2>3, <2>7, <3>1 DEF UpdateRow
    <2>8. CASE DeleteRow(u)
      BY <2>3, <2>4, <2>8 DEF DeleteRow
    <2> QED
      BY <1>9, <2>6, <2>7, <2>8
  <1> QED
    BY <1>2, <1>3, <1>4, <1>5, <1>7, <1>8, <1>9 DEF Proceeds

\* What is in step stays so while nothing of the project is touched, whatever
\* the worker does elsewhere.
LEMMA UntouchedSync ==
  ASSUME TypeInv, TypeInv', NEW w \in Workers, NEW p \in Projects, Sync(w, p), Untouched(p),
         \/ tasks'[w] = tasks[w]
         \/ tasks[w].project # p /\ tasks'[w].project # p
  PROVE  Sync(w, p)'
  <1>1. \A n \in Names : Owner[n] = p => (Settled(w, n)' <=> Settled(w, n))
    <2>1. GoodTask(tasks[w]) /\ GoodTask(tasks'[w])
      BY DEF TypeInv, TasksOK
    <2>2. /\ HalfWay(tasks[w]) => Owner[tasks[w].name] = tasks[w].project
          /\ HalfWay(tasks'[w]) => Owner[tasks'[w].name] = tasks'[w].project
      BY <2>1 DEF HalfWay, GoodTask, Working, Provisioning, Dropping
    <2> QED
      BY <2>2 DEF Settled, Untouched
  <1>2. NamesOK(w, p)'
    BY <1>1 DEF Sync, NamesOK, Together, Untouched
  <1>3. RowsOf(p)' = RowsOf(p) /\ \A n \in RowsOf(p) : n \in Names /\ rows'[n] = rows[n]
    BY DEF RowsOf, Untouched
  <1>4. \A e \in env[p] : e[1] \in Names /\ Owner[e[1]] = p
    BY Parts DEF Sync, EnvsOK
  <1>5. Knows(w, p) => Knows(w, p)'
    BY <1>1, <1>3, <1>4 DEF Knows, Untouched
  <1>6. EnvsOK(w, p)'
    BY <1>5 DEF Sync, EnvsOK, Untouched
  <1>7. ASSUME tasks'[w].project = p
        PROVE  DataOK(w)' /\ ScopeOK(w)' /\ EnvOK(w)'
    <2>1. tasks[w].pc \in Working => tasks[w].name \in Names /\ Owner[tasks[w].name] = p
      BY <1>7, Named
    <2>2. HalfWay(tasks[w]) => tasks[w].pc \in Working
      BY TaskParts DEF HalfWay, GoodTask, Working, Provisioning, Dropping
    <2>3. DataOK(w)'
      BY <1>7, <2>1, <2>2 DEF Sync, DataOK, Untouched, Working, Provisioning, Dropping
    <2>4. ScopeOK(w)'
      BY <1>3, <1>7 DEF Sync, ScopeOK
    <2>5. Wanted(p)' = Wanted(p)
      BY <1>3 DEF Wanted
    <2>6. EnvOK(w)'
      BY <1>7, <2>1, <2>2, <2>5 DEF Sync, EnvOK, Untouched
    <2> QED
      BY <2>3, <2>4, <2>6
  <1> QED
    BY <1>2, <1>6, <1>7 DEF Sync

\* Of a project that neither is at work on, two workers say the same.
LEMMA Elsewhere ==
  ASSUME TypeInv', NEW u \in Workers, NEW w \in Workers, NEW p \in Projects, Sync(u, p)',
         tasks'[u].project # p, tasks'[w].project # p
  PROVE  Sync(w, p)'
  <1>1. \A v \in Workers : GoodTask(tasks'[v])
    BY DEF TypeInv, TasksOK
  <1>2. \A v \in Workers : HalfWay(tasks'[v]) => Owner[tasks'[v].name] = tasks'[v].project
    BY <1>1 DEF HalfWay, GoodTask, Working, Provisioning, Dropping
  <1>3. \A n \in Names : Owner[n] = p => (Settled(u, n)' <=> Settled(w, n)')
    BY <1>2 DEF Settled
  <1>4. NamesOK(w, p)'
    BY <1>3 DEF Sync, NamesOK
  <1>5. \A e \in env'[p] : e[1] \in Names /\ Owner[e[1]] = p
    BY DEF Sync, EnvsOK, TypeInv, TypeOK
  <1>6. Knows(u, p)' => Knows(w, p)'
    BY <1>3, <1>5 DEF Knows
  <1>7. EnvsOK(w, p)'
    BY <1>6 DEF Sync, EnvsOK
  <1> QED
    BY <1>4, <1>7 DEF Sync

-----------------------------------------------------------------------------
(* The invariant.                                                          *)

\* Nobody but the worker is at work on the project.
Alone(w, p) == \A v \in Workers \ {w} : tasks[v].project # p

\* On a project that was never mixed there is one worker at most, and for any
\* worker that could be the one, the project is in step.
SyncInv ==
  \A p \in Projects \ mixed : \A w \in Workers :
    /\ tasks[w].project = p => Alone(w, p)
    /\ Alone(w, p) => Sync(w, p)

LEMMA InitSyncInv == Init => SyncInv
  <1>1. Init => \A w \in Workers : tasks[w] = IdleTask
    BY DEF Init
  <1>2. None \notin Projects
    BY NoneAssumption
  <1>3. IdleTask.project = None
    BY DEF IdleTask
  <1> QED
    BY <1>1, <1>2, <1>3, InitSync DEF SyncInv

LEMMA StartsSync ==
  ASSUME TypeInv, NEW u \in Workers, NEW p \in Projects, Sync(u, p), Starts(u),
         tasks'[u].project = p
  PROVE  Sync(u, p)'
  BY AttachSync, OnAttachmentSync, DeleteProjectSync
     DEF Starts, RotateDatabaseAttachment, DeleteDatabaseAttachment

LEMMA ProceedsSync ==
  ASSUME TypeInv, NEW u \in Workers, NEW p \in Projects, Sync(u, p), Proceeds(u),
         tasks[u].project = p
  PROVE  Sync(u, p)'
  <1>1. CASE NextAttachment(u) \/ Purge(u)
    BY <1>1, NextAttachmentSync, PurgeSync
  <1>2. CASE InspectEngine(u) \/ GetRoot(u) \/ PutRoot(u) \/ RecreateEngine(u)
             \/ EngineReady(u) \/ OpenAdmin(u)
    BY <1>2, EnsureEngineSync
  <1>3. CASE CreateFirst(u) \/ CreateSecond(u) \/ UndoFirst(u) \/ Grant(u)
             \/ Alter(u) \/ DropDatabase(u) \/ DropUser(u)
    BY <1>3, CreateFirstSync, CreateSecondSync, UndoFirstSync, GrantSync, AlterSync,
       DropDatabaseSync, DropUserSync
  <1>4. CASE Insert(u) \/ UpdateRow(u) \/ DeleteRow(u) \/ Load(u) \/ Deploy(u)
    BY <1>4, InsertSync, UpdateRowSync, DeleteRowSync, LoadSync, DeploySync
  <1>5. CASE EngineGone(u) \/ Interrupt(u)
    BY <1>5, CutOffSync
  <1> QED
    BY <1>1, <1>2, <1>3, <1>4, <1>5 DEF Proceeds

LEMMA OthersWait ==
  ASSUME TypeInv, NEW u \in Workers, Starts(u) \/ Proceeds(u)
  PROVE  \A v \in Workers \ {u} : tasks'[v] = tasks[v]
  <1>1. CASE Other(u)
    BY <1>1, OtherStep DEF TypeInv
  <1>2. CASE GetRoot(u) \/ PutRoot(u) \/ RecreateEngine(u)
    BY <1>2 DEF GetRoot, PutRoot, RecreateEngine, Goto, TypeInv, TasksOK
  <1> QED
    BY <1>1, <1>2 DEF Starts, Proceeds, Other

LEMMA StartsSyncInv ==
  ASSUME TypeInv, TypeInv', SyncInv, NEW u \in Workers, Starts(u)
  PROVE  SyncInv'
  <1>1. PICK q \in Projects : Begun(u, q)
    BY StartsEffect
  <1>2. tasks'[u].project = q /\ tasks[u].project = None /\ None \notin Projects
    BY <1>1, NoneAssumption DEF Begun, IdleTask
  <1>3. \A v \in Workers \ {u} : tasks'[v] = tasks[v]
    BY OthersWait
  <1> SUFFICES ASSUME NEW p \in Projects \ mixed', NEW w \in Workers
               PROVE  /\ tasks'[w].project = p => Alone(w, p)'
                      /\ Alone(w, p)' => Sync(w, p)'
    BY DEF SyncInv
  <1>4. p \notin mixed /\ (p = q => \A v \in Workers : tasks[v].project # p)
    BY <1>1 DEF Begun, Busy
  <1>5. tasks'[w].project = p => Alone(w, p)'
    BY <1>2, <1>3, <1>4 DEF SyncInv, Alone
  <1>6. Untouched(p)
    BY <1>1 DEF Begun, Untouched
  <1>7. ASSUME Alone(w, p)' PROVE Sync(w, p)'
    <2>1. Alone(w, p)
      BY <1>2, <1>3, <1>7 DEF Alone
    <2>2. Sync(w, p)
      BY <1>4, <2>1 DEF SyncInv
    <2>3. CASE w = u /\ p = q
      BY <1>2, <2>2, <2>3, StartsSync
    <2>4. CASE w = u /\ p # q
      BY <1>2, <1>6, <2>2, <2>4, UntouchedSync
    <2>5. CASE w # u
      BY <1>3, <1>6, <2>2, <2>5, UntouchedSync
    <2> QED
      BY <2>3, <2>4, <2>5
  <1> QED
    BY <1>5, <1>7

LEMMA ProceedsSyncInv ==
  ASSUME TypeInv, TypeInv', SyncInv, NEW u \in Workers, Proceeds(u)
  PROVE  SyncInv'
  <1>1. /\ tasks[u].project \in Projects /\ mixed' = mixed
        /\ tasks'[u].project \in {tasks[u].project, None} /\ None \notin Projects
    BY ProceedsTask, NoneAssumption
  <1>2. \A v \in Workers \ {u} : tasks'[v] = tasks[v]
    BY OthersWait
  <1> SUFFICES ASSUME NEW p \in Projects \ mixed, NEW w \in Workers
               PROVE  /\ tasks'[w].project = p => Alone(w, p)'
                      /\ Alone(w, p)' => Sync(w, p)'
    BY <1>1 DEF SyncInv
  <1>3. tasks'[w].project = p => Alone(w, p)'
    BY <1>1, <1>2 DEF SyncInv, Alone
  <1>4. CASE tasks[u].project = p
    <2>1. Sync(u, p)'
      BY <1>4, ProceedsSync DEF SyncInv
    <2>2. ASSUME Alone(w, p)', w # u PROVE Sync(w, p)'
      <3>1. tasks'[u].project # p
        BY <2>2 DEF Alone
      <3>2. tasks'[w].project # p
        BY <1>2, <1>4, <2>2 DEF SyncInv, Alone
      <3> QED
        BY <2>1, <3>1, <3>2, Elsewhere
    <2> QED
      BY <1>3, <2>1, <2>2
  <1>5. CASE tasks[u].project # p
    <2>1. Untouched(p)
      BY <1>5, ProceedsData
    <2>2. ASSUME Alone(w, p)' PROVE Sync(w, p)'
      <3>1. Alone(w, p)
        BY <1>2, <1>5, <2>2 DEF Alone
      <3>2. Sync(w, p)
        BY <3>1 DEF SyncInv
      <3>3. CASE w = u
        BY <1>1, <1>5, <2>1, <3>2, <3>3, UntouchedSync
      <3>4. CASE w # u
        BY <1>2, <2>1, <3>2, <3>4, UntouchedSync
      <3> QED
        BY <3>3, <3>4
    <2> QED
      BY <1>3, <2>2
  <1> QED
    BY <1>4, <1>5

LEMMA StepSyncInv == TypeInv /\ SyncInv /\ [Next]_vars => SyncInv'
  <1> SUFFICES ASSUME TypeInv, SyncInv, [Next]_vars PROVE SyncInv'
    OBVIOUS
  <1>1. TypeInv'
    BY StepTypeInv
  <1>2. ASSUME NEW u \in Workers, Starts(u) PROVE SyncInv'
    BY <1>1, <1>2, StartsSyncInv
  <1>3. ASSUME NEW u \in Workers, Proceeds(u) PROVE SyncInv'
    BY <1>1, <1>3, ProceedsSyncInv
  <1>4. CASE EngineStops \/ UNCHANGED vars
    <2>1. UNCHANGED <<tasks, mixed>>
      BY <1>4 DEF EngineStops, vars, overlaps
    <2>2. \A w \in Workers, p \in Projects : Sync(w, p) => Sync(w, p)'
      BY <1>4, StillSync
    <2> QED
      BY <2>1, <2>2 DEF SyncInv, Alone
  <1> QED
    BY <1>2, <1>3, <1>4 DEF Next, Starts, Proceeds

\* A project at which nobody is at work is in step but for what is on record.
LEMMA LeftInStep ==
  ASSUME TypeInv, SyncInv
  PROVE  Consistent /\ EnvFollows
  <1>1. PICK w \in Workers : TRUE
    BY WorkersAssumption
  <1>2. ASSUME NEW p \in Projects \ mixed, ~Busy(p)
        PROVE  /\ Sync(w, p) /\ tasks[w].project # p
               /\ \A n \in Names : Owner[n] = p => (Settled(w, n) <=> n \notin disturbed)
    <2>1. Sync(w, p) /\ tasks[w].project # p
      BY <1>2 DEF SyncInv, Alone, Busy
    <2>2. HalfWay(tasks[w]) => Owner[tasks[w].name] = tasks[w].project
      BY TaskParts DEF HalfWay, GoodTask, Working, Provisioning, Dropping
    <2> QED
      BY <2>1, <2>2 DEF Settled
  <1>3. Consistent
    <2> SUFFICES ASSUME NEW n \in Names \ disturbed, Owner[n] \notin mixed, ~Busy(Owner[n])
                 PROVE  Together(n)
      BY DEF Consistent, Together
    <2>1. Owner[n] \in Projects
      BY OwnerAssumption
    <2> QED
      BY <1>2, <2>1 DEF Sync, NamesOK
  <1>4. EnvFollows
    <2> SUFFICES ASSUME NEW p \in projects \ (behind \cup mixed), ~Busy(p)
                 PROVE  /\ \A n \in RowsOf(p) : <<n, rows[n].password>> \in env[p]
                        /\ \A e \in env[p] : e[1] \notin disturbed => users[e[1]] = e[2]
      BY DEF EnvFollows
    <2>1. p \in Projects
      BY Parts
    <2>2. Knows(w, p) /\ \A e \in env[p] : e[1] \in Names /\ Owner[e[1]] = p
      BY <1>2, <2>1, Parts DEF Sync, EnvsOK
    <2> QED
      BY <1>2, <2>1, <2>2 DEF Knows
  <1> QED
    BY <1>3, <1>4

\* However requests interleave, wherever they are cut off and whichever
\* statements fail: on a project that no two requests were at work on at once, a
\* name whose last request was not cut off half-way has its row, its database
\* and its user all together, with the one password that works; or none of them.
THEOREM AttachmentsConsistent == Spec => []Consistent
  <1>1. Init => TypeInv /\ SyncInv
    BY InitTypeInv, InitSyncInv
  <1>2. TypeInv /\ SyncInv /\ [Next]_vars => TypeInv' /\ SyncInv'
    BY StepTypeInv, StepSyncInv
  <1>3. TypeInv /\ SyncInv => Consistent
    BY LeftInStep
  <1> QED
    BY <1>1, <1>2, <1>3, PTL DEF Spec

\* However requests interleave: the container of a project that no two of them
\* were at work on at once, and whose last one was deployed, has exactly the
\* project's attachments, by passwords that work.
THEOREM ContainersFollow == Spec => []EnvFollows
  <1>1. Init => TypeInv /\ SyncInv
    BY InitTypeInv, InitSyncInv
  <1>2. TypeInv /\ SyncInv /\ [Next]_vars => TypeInv' /\ SyncInv'
    BY StepTypeInv, StepSyncInv
  <1>3. TypeInv /\ SyncInv => EnvFollows
    BY LeftInStep
  <1> QED
    BY <1>1, <1>2, <1>3, PTL DEF Spec
=============================================================================
