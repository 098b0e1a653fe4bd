------------------------------ MODULE DbEngines ------------------------------
(***************************************************************************)
(* The shared database engines: internal/dbengines/service.go, the table   *)
(* project_db_attachments and the handlers of internal/projects/service.go *)
(* that attach, rotate and delete.                                         *)
(*                                                                         *)
(* An attachment is three things kept in step by hand: a row in SQLite, a  *)
(* database and a user in the engine.  A password is three more: the one   *)
(* the engine has, the one in the row and the one in the environment of    *)
(* the project's container.  Each statement is a step of its own, each may *)
(* be the last one of its request, and only two failures are compensated.  *)
(*                                                                         *)
(* A password, and the id of a row, is the number of the request that made *)
(* it.  An operator whose comment begins "A mutant" is no part of the      *)
(* model.                                                                  *)
(***************************************************************************)
EXTENDS Integers

CONSTANTS
  Workers,      \* goroutines that may serve requests at once
  Projects,     \* projects
  Names,        \* names of a database and its user: a slug and a variable
  Owner,        \* the project whose slug is in the name
  Faults,       \* "interrupt": a request may end anywhere; "statement": CREATE,
                \* GRANT or INSERT may fail; "engine": the engine may go down;
                \* "deploy": a redeploy may fail
  MaxRequests,  \* bound: requests served
  None

ASSUME WorkersAssumption == Workers # {}
ASSUME OwnerAssumption == Owner \in [Names -> Projects]
ASSUME MaxRequestsAssumption == MaxRequests \in Nat
ASSUME FaultsAssumption == Faults \subseteq {"interrupt", "statement", "engine", "deploy"}

Ops == {"attach", "undo", "rotate", "detach", "delete"}

VARIABLES
  kind,         \* the engine: "pg" or "mariadb"
  projects,     \* the projects there are
  rows,         \* table project_db_attachments, by database name
  rootSetting,  \* settings: the engine's root password, or None
  volume,       \* the root password the engine's volume was initialised with
  up,           \* is the engine's container running?
  databases,    \* the databases in the engine
  users,        \* the users in the engine: their passwords, or None
  env,          \* what each project's container was given: names, passwords
  tasks,        \* what each worker is doing, and what it has read
  requests,     \* requests accepted so far: numbers them, bounds the model
  disturbed,    \* history: names on which a request ended half-way
  behind,       \* history: projects whose last change was not deployed
  mixed,        \* history: projects with two requests at work at once, ever
  rivals        \* history: have two requests made a root password at once?

vars == <<kind, projects, rows, rootSetting, volume, up, databases, users, env,
          tasks, requests, disturbed, behind, mixed, rivals>>

engineVars == <<up, volume, rootSetting>>
dataVars == <<databases, users, rows>>
history == <<disturbed, behind>>
overlaps == <<mixed, rivals>>

Numbers == 1..MaxRequests
Row == [id : Numbers, password : Numbers]

ASSUME NoneAssumption == None \notin Int \cup Projects \cup Ops \cup Row

Labels == {"idle", "inspect", "rootGet", "rootPut", "recreate", "ready", "admin",
           "createFirst", "createSecond", "undoFirst", "grant", "insert", "alter",
           "update", "dropDatabase", "dropUser", "deleteRow", "next", "purge",
           "load", "deploy"}
Task == [pc : Labels, op : Ops \cup {None},
         no : Numbers \cup {0}, project : Projects \cup {None}, name : Names \cup {None},
         id : Numbers \cup {0}, todo : SUBSET (Names \X Numbers),
         root : Numbers \cup {None}, env : SUBSET (Names \X Numbers)]

IdleTask == [pc |-> "idle", op |-> None, no |-> 0, project |-> None, name |-> None,
             id |-> 0, todo |-> {}, root |-> None, env |-> {}]

Init ==
  /\ kind \in {"pg", "mariadb"}
  /\ projects = Projects
  /\ rows = [n \in Names |-> None]
  /\ rootSetting = None /\ volume = None /\ up = FALSE
  /\ databases = {} /\ users = [n \in Names |-> None]
  /\ env = [p \in Projects |-> {}]
  /\ tasks = [w \in Workers |-> IdleTask]
  /\ requests = 0
  /\ disturbed = {} /\ behind = {}
  /\ mixed = {} /\ rivals = FALSE

-----------------------------------------------------------------------------

At(w, label) == tasks[w].pc = label
Goto(w, label) == tasks' = [tasks EXCEPT ![w].pc = label]
Return(w) == tasks' = [tasks EXCEPT ![w] = IdleTask]

\* Row, database and user of the attachment are out of step for the moment.
HalfWay(task) ==
  \/ task.op = "undo"
  \/ task.pc \in {"createSecond", "undoFirst", "grant", "insert", "update", "dropUser",
                  "deleteRow"}

\* Rows have changed, or will have, that the container does not know yet.
Undeployed(task) == task.op = "delete" \/ task.pc \in {"load", "deploy"}

\* The request ends with an error, without a redeploy.
Fail(w) ==
  /\ Return(w)
  /\ behind' = IF Undeployed(tasks[w]) THEN behind \cup {tasks[w].project} ELSE behind
  /\ disturbed' = IF HalfWay(tasks[w]) THEN disturbed \cup {tasks[w].name} ELSE disturbed

RowIs(n, id) == rows[n] # None /\ rows[n].id = id

RowsOf(p) == {n \in Names : Owner[n] = p /\ rows[n] # None}

\* A request is at work on the project.
Busy(p) == \E w \in Workers : tasks[w].project = p

Begin(w, p, task) ==
  /\ At(w, "idle")
  /\ requests < MaxRequests
  /\ p \in projects
  /\ requests' = requests + 1
  /\ tasks' = [tasks EXCEPT ![w] = [task EXCEPT !.no = requests + 1, !.project = p]]
  /\ mixed' = IF Busy(p) THEN mixed \cup {p} ELSE mixed
  /\ UNCHANGED <<kind, rivals, projects, engineVars, dataVars, env, history>>

-----------------------------------------------------------------------------
(* The handlers.                                                           *)

AttachDatabase(w) ==
  \E n \in Names :
    Begin(w, Owner[n], [IdleTask EXCEPT !.pc = "inspect", !.op = "attach", !.name = n])

\* The page offers a project's own attachments; the row is read first.
OnAttachment(w, op) ==
  \E n \in Names :
    /\ rows[n] # None
    /\ Begin(w, Owner[n], [IdleTask EXCEPT !.pc = "inspect", !.op = op, !.name = n,
                                           !.id = rows[n].id])

RotateDatabaseAttachment(w) == OnAttachment(w, "rotate")
DeleteDatabaseAttachment(w) == OnAttachment(w, "detach")

\* The attachments to drop are those GetProject finds at the beginning.
DeleteProject(w) ==
  \E p \in Projects :
    Begin(w, p, [IdleTask EXCEPT !.pc = "next", !.op = "delete",
                                 !.todo = {<<n, rows[n].id>> : n \in RowsOf(p)}])

\* DeleteAttachment of each; GetDBAttachment fails when the row is gone.
NextAttachment(w) ==
  /\ At(w, "next")
  /\ \/ tasks[w].todo = {} /\ Goto(w, "purge") /\ UNCHANGED history
     \/ \E t \in tasks[w].todo :
          IF RowIs(t[1], t[2])
          THEN /\ tasks' = [tasks EXCEPT ![w].pc = "inspect", ![w].name = t[1],
                                         ![w].id = t[2], ![w].todo = @ \ {t}]
               /\ UNCHANGED history
          ELSE Fail(w)
  /\ UNCHANGED <<kind, overlaps, projects, engineVars, dataVars, env, requests>>

\* store.DeleteProject cascades; the container goes after it.
Purge(w) ==
  /\ At(w, "purge")
  /\ LET p == tasks[w].project
     IN  /\ projects' = projects \ {p}
         /\ rows' = [n \in Names |-> IF Owner[n] = p THEN None ELSE rows[n]]
         /\ env' = [env EXCEPT ![p] = {}]
  /\ Return(w)
  /\ UNCHANGED <<kind, overlaps, engineVars, databases, users, requests, history>>

-----------------------------------------------------------------------------
(* ensureEngine.                                                           *)

InspectEngine(w) ==
  /\ At(w, "inspect")
  /\ Goto(w, IF up THEN "admin" ELSE "rootGet")
  /\ UNCHANGED <<kind, overlaps, projects, engineVars, dataVars, env, requests, history>>

\* A mutant: the engine is started without a password when none is stored.
GetRootUngenerated(w) ==
  /\ At(w, "rootGet")
  /\ tasks' = [tasks EXCEPT ![w].root = rootSetting, ![w].pc = "recreate"]
  /\ UNCHANGED <<kind, overlaps, projects, engineVars, dataVars, env, requests, history>>

\* A mutant: the password is generated and used, but not stored.
GetRootUnsaved(w) ==
  /\ At(w, "rootGet")
  /\ tasks' = [tasks EXCEPT ![w].root = IF rootSetting = None THEN tasks[w].no ELSE rootSetting,
                            ![w].pc = "recreate"]
  /\ UNCHANGED <<kind, overlaps, projects, engineVars, dataVars, env, requests, history>>

\* rootPassword: the stored one, or a new one that is stored next.
GetRoot(w) ==
  /\ At(w, "rootGet")
  /\ tasks' = IF rootSetting = None
              THEN [tasks EXCEPT ![w].root = tasks[w].no, ![w].pc = "rootPut"]
              ELSE [tasks EXCEPT ![w].root = rootSetting, ![w].pc = "recreate"]
  /\ rivals' = (rivals \/ \E v \in Workers : At(v, "rootPut"))
  /\ UNCHANGED <<kind, mixed, projects, engineVars, dataVars, env, requests, history>>

PutRoot(w) ==
  /\ At(w, "rootPut")
  /\ rootSetting' = tasks[w].root
  /\ Goto(w, "recreate")
  /\ UNCHANGED <<kind, overlaps, projects, up, volume, dataVars, env, requests, history>>

\* RecreateContainer, here as one step; the engine looks at the password it
\* is given only when its volume is empty.
RecreateEngine(w) ==
  /\ At(w, "recreate")
  /\ up' = TRUE
  /\ volume' = IF volume = None THEN tasks[w].root ELSE volume
  /\ Goto(w, "ready")
  /\ UNCHANGED <<kind, overlaps, projects, rootSetting, dataVars, env, requests, history>>

\* waitForReady logs in with the password it gave the container.
EngineReady(w) ==
  /\ At(w, "ready")
  /\ IF up /\ volume = tasks[w].root
     THEN Goto(w, "admin") /\ UNCHANGED history
     ELSE Fail(w)
  /\ UNCHANGED <<kind, overlaps, projects, engineVars, dataVars, env, requests>>

FirstStatement(op) ==
  CASE op = "attach" -> "createFirst"
    [] op = "rotate" -> "alter"
    [] OTHER -> "dropDatabase"

\* openPostgresAdmin and openMariaDBAdmin log in with the stored password:
\* there is one, since PutRoot comes before any container that runs.
OpenAdmin(w) ==
  /\ At(w, "admin")
  /\ IF up /\ volume = rootSetting
     THEN Goto(w, FirstStatement(tasks[w].op)) /\ UNCHANGED history
     ELSE Fail(w)
  /\ UNCHANGED <<kind, overlaps, projects, engineVars, dataVars, env, requests>>

-----------------------------------------------------------------------------
(* The statements: provisionDatabase, rotatePassword and dropDatabase.     *)

Statement(w, label) ==
  /\ At(w, label)
  /\ up
  /\ UNCHANGED <<kind, overlaps, projects, engineVars, rows, env, requests>>

SetUser(n, password) == users' = [users EXCEPT ![n] = password] /\ UNCHANGED databases

MayFail == "statement" \in Faults

\* PostgreSQL: the user first.  MariaDB: the database first.  What is there
\* already makes the statement fail.
CreateFirst(w) ==
  LET n == tasks[w].name
      free == IF kind = "pg" THEN users[n] = None ELSE n \notin databases
  IN  /\ Statement(w, "createFirst")
      /\ \/ /\ free
            /\ IF kind = "pg" THEN SetUser(n, tasks[w].no)
                              ELSE databases' = databases \cup {n} /\ UNCHANGED users
            /\ Goto(w, "createSecond")
         \/ /\ ~free \/ MayFail
            /\ Return(w)
            /\ UNCHANGED <<databases, users>>
      /\ UNCHANGED history

CreateSecond(w) ==
  LET n == tasks[w].name
      free == IF kind = "pg" THEN n \notin databases /\ users[n] # None ELSE users[n] = None
  IN  /\ Statement(w, "createSecond")
      /\ \/ /\ free
            /\ IF kind = "pg" THEN databases' = databases \cup {n} /\ UNCHANGED users
                              ELSE SetUser(n, tasks[w].no)
            /\ Goto(w, IF kind = "pg" THEN "insert" ELSE "grant")
         \/ /\ ~free \/ MayFail
            /\ Goto(w, "undoFirst")
            /\ UNCHANGED <<databases, users>>
      /\ UNCHANGED history

\* A user that owns a database cannot be dropped from PostgreSQL.
MayDropUser(n) == kind = "mariadb" \/ n \notin databases

UndoFirst(w) ==
  LET n == tasks[w].name
  IN  /\ Statement(w, "undoFirst")
      /\ CASE kind = "mariadb" -> databases' = databases \ {n} /\ UNCHANGED users
           [] kind = "pg" /\ MayDropUser(n) -> SetUser(n, None)
           [] OTHER -> UNCHANGED <<databases, users>>
      /\ Return(w)
      /\ UNCHANGED history

\* GRANT and FLUSH PRIVILEGES: a failure leaves the database and the user.
Grant(w) ==
  /\ Statement(w, "grant")
  /\ \/ Goto(w, "insert") /\ UNCHANGED history
     \/ MayFail /\ Fail(w)
  /\ UNCHANGED <<databases, users>>

Alter(w) ==
  LET n == tasks[w].name
  IN  /\ Statement(w, "alter")
      /\ IF users[n] # None
         THEN SetUser(n, tasks[w].no) /\ Goto(w, "update")
         ELSE Return(w) /\ UNCHANGED <<databases, users>>
      /\ UNCHANGED history

DropDatabase(w) ==
  /\ Statement(w, "dropDatabase")
  /\ databases' = databases \ {tasks[w].name}
  /\ Goto(w, "dropUser")
  /\ UNCHANGED <<users, history>>

DropUser(w) ==
  LET n == tasks[w].name
  IN  /\ Statement(w, "dropUser")
      /\ IF ~MayDropUser(n)
         THEN Fail(w) /\ UNCHANGED <<databases, users>>
         ELSE /\ SetUser(n, None)
              /\ IF tasks[w].op = "undo" THEN Return(w) ELSE Goto(w, "deleteRow")
              /\ UNCHANGED history

EngineGone(w) ==
  /\ tasks[w].pc \in {"createFirst", "createSecond", "undoFirst", "grant", "alter",
                      "dropDatabase", "dropUser"}
  /\ ~up
  /\ Fail(w)
  /\ UNCHANGED <<kind, overlaps, projects, engineVars, dataVars, env, requests>>

-----------------------------------------------------------------------------
(* The rows, and the redeploy that follows.                                *)

\* A mutant: a row that cannot be inserted leaves what was provisioned.
InsertWithoutUndo(w) ==
  LET n == tasks[w].name
      valid == tasks[w].project \in projects /\ rows[n] = None
  IN  /\ At(w, "insert")
      /\ \/ /\ valid
            /\ rows' = [rows EXCEPT ![n] = [id |-> tasks[w].no, password |-> tasks[w].no]]
            /\ Goto(w, "load")
         \/ /\ ~valid \/ MayFail
            /\ Return(w)
            /\ UNCHANGED rows
      /\ UNCHANGED <<kind, overlaps, projects, engineVars, databases, users, env, requests, history>>

\* CreateDBAttachment: the foreign key and the unique names.  When it fails,
\* the database and the user are dropped again.
Insert(w) ==
  LET n == tasks[w].name
      valid == tasks[w].project \in projects /\ rows[n] = None
  IN  /\ At(w, "insert")
      /\ \/ /\ valid
            /\ rows' = [rows EXCEPT ![n] = [id |-> tasks[w].no, password |-> tasks[w].no]]
            /\ Goto(w, "load")
         \/ /\ ~valid \/ MayFail
            /\ tasks' = [tasks EXCEPT ![w].op = "undo", ![w].pc = "admin"]
            /\ UNCHANGED rows
      /\ UNCHANGED <<kind, overlaps, projects, engineVars, databases, users, env, requests, history>>

\* UpdateDBAttachmentPassword
UpdateRow(w) ==
  LET n == tasks[w].name
  IN  /\ At(w, "update")
      /\ IF RowIs(n, tasks[w].id)
         THEN /\ rows' = [rows EXCEPT ![n].password = tasks[w].no]
              /\ Goto(w, "load")
              /\ UNCHANGED history
         ELSE Fail(w) /\ UNCHANGED rows
      /\ UNCHANGED <<kind, overlaps, projects, engineVars, databases, users, env, requests>>

\* DeleteDBAttachment: the name is clean again, whatever happened before.
DeleteRow(w) ==
  LET n == tasks[w].name
  IN  /\ At(w, "deleteRow")
      /\ IF RowIs(n, tasks[w].id)
         THEN /\ rows' = [rows EXCEPT ![n] = None]
              /\ Goto(w, IF tasks[w].op = "delete" THEN "next" ELSE "load")
              /\ disturbed' = disturbed \ {n}
              /\ UNCHANGED behind
         ELSE Fail(w) /\ UNCHANGED rows
      /\ UNCHANGED <<kind, overlaps, projects, engineVars, databases, users, env, requests>>

\* GetProject: the attachments the new container will know.
Load(w) ==
  LET p == tasks[w].project
  IN  /\ At(w, "load")
      /\ IF p \in projects
         THEN tasks' = [tasks EXCEPT ![w].pc = "deploy",
                                     ![w].env = {<<n, rows[n].password>> : n \in RowsOf(p)}]
         ELSE Return(w)
      /\ UNCHANGED <<kind, overlaps, projects, engineVars, dataVars, env, requests, history>>

\* A mutant: variables the container has are kept.
DeployKeepingEnv(w) ==
  LET p == tasks[w].project
  IN  /\ At(w, "deploy")
      /\ Return(w)
      /\ env' = [env EXCEPT ![p] = @ \cup tasks[w].env]
      /\ behind' = behind \ {p}
      /\ UNCHANGED <<kind, overlaps, projects, engineVars, dataVars, requests, disturbed>>

\* applyProject, of which DeployPipeline is the model.
Deploy(w) ==
  LET p == tasks[w].project
  IN  /\ At(w, "deploy")
      /\ Return(w)
      /\ \/ env' = [env EXCEPT ![p] = tasks[w].env] /\ behind' = behind \ {p}
         \/ "deploy" \in Faults /\ UNCHANGED env /\ behind' = behind \cup {p}
      /\ UNCHANGED <<kind, overlaps, projects, engineVars, dataVars, requests, disturbed>>

-----------------------------------------------------------------------------
(* The environment.                                                        *)

\* A cancelled request, a failing call without compensation, a restart.
Interrupt(w) ==
  /\ "interrupt" \in Faults
  /\ ~At(w, "idle")
  /\ Fail(w)
  /\ UNCHANGED <<kind, overlaps, projects, engineVars, dataVars, env, requests>>

EngineStops ==
  /\ "engine" \in Faults
  /\ up
  /\ up' = FALSE
  /\ UNCHANGED <<kind, overlaps, projects, volume, rootSetting, dataVars, env, tasks, requests, history>>

Next ==
  \/ \E w \in Workers :
       \/ AttachDatabase(w) \/ RotateDatabaseAttachment(w) \/ DeleteDatabaseAttachment(w)
       \/ DeleteProject(w) \/ NextAttachment(w) \/ Purge(w)
       \/ InspectEngine(w) \/ GetRoot(w) \/ PutRoot(w) \/ RecreateEngine(w)
       \/ EngineReady(w) \/ OpenAdmin(w)
       \/ CreateFirst(w) \/ CreateSecond(w) \/ UndoFirst(w) \/ Grant(w)
       \/ Alter(w) \/ DropDatabase(w) \/ DropUser(w) \/ EngineGone(w)
       \/ Insert(w) \/ UpdateRow(w) \/ DeleteRow(w) \/ Load(w) \/ Deploy(w)
       \/ Interrupt(w)
  \/ EngineStops

Spec == Init /\ [][Next]_vars

-----------------------------------------------------------------------------
(* Properties.                                                             *)

\* The state has the shape of the tables and types, a row belongs to a
\* project there is, and a running engine has a root password.
TypeOK ==
  /\ kind \in {"pg", "mariadb"}
  /\ projects \subseteq Projects
  /\ rows \in [Names -> Row \cup {None}]
  /\ rootSetting \in Numbers \cup {None} /\ volume \in Numbers \cup {None} /\ up \in BOOLEAN
  /\ databases \subseteq Names
  /\ users \in [Names -> Numbers \cup {None}]
  /\ env \in [Projects -> SUBSET (Names \X Numbers)]
  /\ tasks \in [Workers -> Task]
  /\ requests \in 0..MaxRequests
  /\ disturbed \subseteq Names /\ behind \subseteq Projects
  /\ mixed \subseteq Projects /\ rivals \in BOOLEAN
  /\ \A n \in Names : rows[n] # None => Owner[n] \in projects
  /\ up => volume # None

\* Whatever is interrupted: the root password in the settings is the one the
\* engine's volume was initialised with, so the engine can always be started and
\* administered again, unless two first requests generated one at once.
RootPasswordKnown == ~rivals /\ volume # None => rootSetting = volume

AllIdle == \A w \in Workers : At(w, "idle")

\* While nobody is at work on a project, and nobody was in company: row, database
\* and user are there together and the row has the password that works, unless
\* a request was cut off half-way, although CREATE and INSERT may fail;
\* detaching a database restores that whatever was cut off before.
Consistent ==
  \A n \in Names \ disturbed :
    Owner[n] \notin mixed /\ ~Busy(Owner[n]) =>
      IF rows[n] = None THEN n \notin databases /\ users[n] = None
                        ELSE n \in databases /\ users[n] = rows[n].password

\* While nobody is at work on a project, and nobody was in company: its container
\* knows exactly its attachments, by passwords that work, if its last request
\* went through.
EnvFollows ==
  \A p \in projects \ (behind \cup mixed) :
    ~Busy(p) =>
      /\ \A n \in RowsOf(p) : <<n, rows[n].password>> \in env[p]
      /\ \A e \in env[p] : e[1] \notin disturbed => users[e[1]] = e[2]

\* The delete dialog: "CaddyTower will remove the managed container, generated
\* routing, custom domains, and shared attachments for this project".
DeletedProjectHasNoDatabase ==
  AllIdle => \A n \in databases : Owner[n] \in projects
=============================================================================
