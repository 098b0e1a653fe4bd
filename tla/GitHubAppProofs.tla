--------------------------- MODULE GitHubAppProofs ----------------------------
(***************************************************************************)
(* Theorems about GitHubApp, and about Settings under it, for any sets of  *)
(* workers, domains, forms, records, installations and projects.           *)
(***************************************************************************)
EXTENDS GitHubApp, TLAPS

\* What the rest of the system does to the settings: it counts its requests.
LEMMA SettingsMove ==
  [Next]_vars => \/ SettingsNext
                 \/ UNCHANGED settingsVars /\ requests' = requests
                 \/ UNCHANGED settingsVars /\ requests < MaxRequests /\ requests' = requests + 1
  BY Zenon DEF Next, vars, ChooseSecret, Change, Count, DisconnectInstallation, HandleWebhook,
     HandleImportCreate, DetectImport, CreateWebProject, DeployImport, WorkflowStep,
     WorkflowStepFails, InterruptImport, Importing

-----------------------------------------------------------------------------
(* The shape of the settings and of the requests.                          *)

AppForm == [hook : BOOLEAN, key : BOOLEAN]

\* A secret was brought by a request, or there is none.
Secret(x) == x \in 1..requests \cup {None}

\* The webhook secret may be the environment's.
TableOK(t) ==
  t \in Table /\ Secret(t.token) /\ (Secret(t.hook) \/ t.hook = 0) /\ Secret(t.key)

\* A record with an id of Cloudflare's own has the name somebody gave it.
Known(r) ==
  /\ r \in Record
  /\ r.id \notin Numbers => \E f \in Foreign : f.id = r.id /\ f.name = r.name

\* What a request holds at each place of the code.
TaskOK(t) ==
  /\ t \in SettingsTask
  /\ t.pc # "idle" => t.no \in 1..requests
  /\ TableOK(t.copy)
  /\ t.op = "save" => t.form \in Form
  /\ t.op = "github" => t.form \in AppForm
  /\ t.pc \in {"load", "default"} => t.op \in {"save", "deploy", "remove"}
  /\ t.pc = "secrets" => t.op = "github"
  /\ t.pc \in {"read", "write"} => t.op \in {"save", "github"}
  /\ t.pc \in {"reconcile", "delete", "deleting"} => t.previous \in Loaded
  /\ t.pc = "deleting" => t.previous.root \in Roots
  /\ t.pc \in {"clear", "clearing", "list", "put"} /\ t.op = "save" => t.previous \in Loaded
  /\ t.pc \in {"clearing", "list", "put"} => t.current \in [root : Roots, zone : Zones, origin : Targets]
  /\ \A r \in t.found : Known(r) /\ r.name \in Hosts

ShapeInv ==
  /\ requests \in 0..MaxRequests
  /\ TableOK(table) /\ wanted \in Table
  /\ \A r \in records : Known(r)
  /\ overtaken \in BOOLEAN
  /\ settled \in [previous : Loaded, current : Loaded] \cup {None}
  /\ tasks \in [Workers -> SettingsTask]
  /\ \A w \in Workers : TaskOK(tasks[w])

\* A request that has not begun, or has ended, holds nothing.
LEMMA IdleOK ==
  ASSUME requests \in Nat
  PROVE  TaskOK(IdleTask) /\ Empty \in Table /\ TableOK(Empty)
  <1>1. Empty \in Table
    BY DEF Table, Empty
  <1>2. TableOK(Empty)
    BY <1>1 DEF TableOK, Secret, Empty
  <1>3. NothingLoaded \in Loaded
    BY DEF Loaded, NothingLoaded
  <1>4. IdleTask \in SettingsTask
    BY <1>1, <1>3 DEF IdleTask, SettingsTask, Labels
  <1>5. /\ IdleTask.pc = "idle" /\ IdleTask.op = None /\ IdleTask.copy = Empty /\ IdleTask.found = {}
    BY DEF IdleTask
  <1>6. IdleTask.op \notin {"save", "github", "deploy", "remove"}
    BY <1>5, NullAssumption
  <1>7. \A r \in IdleTask.found : Known(r) /\ r.name \in Hosts
    BY <1>5
  <1>8. TableOK(IdleTask.copy)
    BY <1>2, <1>5
  <1> HIDE DEF IdleTask
  <1> QED
    BY <1>1, <1>2, <1>4, <1>5, <1>6, <1>7, <1>8 DEF TaskOK

\* An empty table, and other people's records.
LEMMA InitShape == Init => ShapeInv
  <1> SUFFICES ASSUME Init PROVE ShapeInv
    OBVIOUS
  <1>1. requests = 0 /\ requests \in 0..MaxRequests /\ requests \in Nat
    BY MaxRequestsAssumption DEF Init, SettingsInit
  <1>2. \A r \in records : Known(r)
    BY ForeignAssumption DEF Init, SettingsInit, Known
  <1>3. tasks \in [Workers -> SettingsTask] /\ \A w \in Workers : TaskOK(tasks[w])
    BY <1>1, IdleOK DEF Init, SettingsInit, TaskOK
  <1> QED
    BY <1>1, <1>2, <1>3, IdleOK DEF ShapeInv, Init, SettingsInit

\* What was said of a request stays true while more requests are counted, and
\* whatever the others do to its history variables.
LEMMA TaskStays ==
  ASSUME NEW t, TaskOK(t), requests \in Nat, requests' \in Nat, requests' >= requests,
         NEW b \in BOOLEAN
  PROVE  TaskOK(t)' /\ TaskOK([t EXCEPT !.alone = b])' /\ TaskOK([t EXCEPT !.stale = b])'
  <1>1. TableOK(t.copy)'
    BY DEF TaskOK, TableOK, Secret
  <1>2. \A r \in t.found : Known(r)'
    BY DEF TaskOK, Known
  <1>3. t.pc # "idle" => t.no \in 1..requests'
    BY DEF TaskOK
  <1>4. ASSUME NEW u \in SettingsTask,
               /\ u.pc = t.pc /\ u.op = t.op /\ u.no = t.no /\ u.form = t.form /\ u.copy = t.copy
               /\ u.previous = t.previous /\ u.current = t.current /\ u.found = t.found
        PROVE  TaskOK(u)'
    BY <1>1, <1>2, <1>3, <1>4 DEF TaskOK, Known
  <1>5. /\ t \in SettingsTask /\ [t EXCEPT !.alone = b] \in SettingsTask
        /\ [t EXCEPT !.stale = b] \in SettingsTask
    BY DEF TaskOK, SettingsTask
  <1>6. TaskOK(t)'
    BY <1>4, <1>5
  <1>7. TaskOK([t EXCEPT !.alone = b])'
    <2> DEFINE u == [t EXCEPT !.alone = b]
    <2>1. /\ u.pc = t.pc /\ u.op = t.op /\ u.no = t.no /\ u.form = t.form /\ u.copy = t.copy
          /\ u.previous = t.previous /\ u.current = t.current /\ u.found = t.found
      BY <1>5 DEF SettingsTask
    <2> QED
      BY <1>4, <1>5, <2>1
  <1>8. TaskOK([t EXCEPT !.stale = b])'
    <2> DEFINE u == [t EXCEPT !.stale = b]
    <2>1. /\ u.pc = t.pc /\ u.op = t.op /\ u.no = t.no /\ u.form = t.form /\ u.copy = t.copy
          /\ u.previous = t.previous /\ u.current = t.current /\ u.found = t.found
      BY <1>5 DEF SettingsTask
    <2> QED
      BY <1>4, <1>5, <2>1
  <1> QED
    BY <1>6, <1>7, <1>8

\* A step of the request of w that leaves behind what u says of it.
LEMMA TaskSteps ==
  ASSUME ShapeInv, NEW w \in Workers, NEW u, TaskOK(u), requests' = requests,
         tasks' \in [Workers -> SettingsTask], tasks'[w] = u,
         \A v \in Workers \ {w} :
           tasks'[v] = tasks[v] \/ \E b \in BOOLEAN : tasks'[v] = [tasks[v] EXCEPT !.stale = b]
  PROVE  tasks' \in [Workers -> SettingsTask] /\ \A v \in Workers : TaskOK(tasks[v])'
  <1>1. requests \in Nat /\ requests' \in Nat /\ requests' >= requests
    BY MaxRequestsAssumption DEF ShapeInv
  <1>2. TaskOK(u)'
    BY <1>1, TaskStays
  <1>3. ASSUME NEW v \in Workers \ {w} PROVE TaskOK(tasks[v])'
    <2>1. TaskOK(tasks[v])
      BY DEF ShapeInv
    <2>2. TaskOK(tasks[v])' \/ tasks'[v] # tasks[v]
      BY <1>1, <2>1, TaskStays DEF TaskOK, Known, TableOK, Secret
    <2>3. ASSUME NEW b \in BOOLEAN, tasks'[v] = [tasks[v] EXCEPT !.stale = b]
          PROVE  TaskOK(tasks[v])'
      BY <1>1, <2>1, <2>3, TaskStays DEF TaskOK, Known, TableOK, Secret
    <2> QED
      BY <1>3, <2>2, <2>3
  <1> QED
    BY <1>2, <1>3 DEF TaskOK, Known, TableOK, Secret

\* A step of the request of w alone, among the settings, records and history
\* that go with it.
LEMMA LocalStep ==
  ASSUME ShapeInv, NEW w \in Workers, NEW u, TaskOK(u), requests' = requests,
         tasks' = [tasks EXCEPT ![w] = u],
         UNCHANGED <<table, wanted, overtaken>>,
         \A r \in records' : Known(r),
         settled' \in [previous : Loaded, current : Loaded] \cup {None}
  PROVE  ShapeInv'
  <1>1. /\ tasks' \in [Workers -> SettingsTask] /\ tasks'[w] = u
        /\ \A v \in Workers \ {w} : tasks'[v] = tasks[v]
    BY DEF ShapeInv, TaskOK
  <1>2. \A v \in Workers : TaskOK(tasks[v])'
    BY <1>1, TaskSteps
  <1>3. \A r \in records' : Known(r)'
    BY DEF Known
  <1> QED
    BY <1>1, <1>2, <1>3 DEF ShapeInv, TableOK, Secret

\* What a request does with the settings it has loaded.
LEMMA AfterLoadOK ==
  ASSUME requests \in Nat, NEW t, TaskOK(t), t.pc \in {"load", "default"}, NEW loaded \in Loaded
  PROVE  TaskOK(AfterLoad(t, loaded)) /\ AfterLoad(t, loaded).stale = FALSE
         /\ AfterLoad(t, loaded).copy = Empty /\ AfterLoad(t, loaded).op # "github"
         /\ AfterLoad(t, loaded).pc \notin {"default", "write"}
  <1> DEFINE s == [t EXCEPT !.copy = Empty, !.stale = FALSE]
  <1>1. /\ s \in SettingsTask /\ t \in SettingsTask
        /\ s.pc = t.pc /\ s.op = t.op /\ s.no = t.no /\ s.form = t.form /\ s.copy = Empty
        /\ s.previous = t.previous /\ s.current = t.current /\ s.found = t.found /\ s.stale = FALSE
    BY IdleOK DEF TaskOK, SettingsTask
  <1>2. t.no \in 1..requests /\ s.op \in {"save", "deploy", "remove"}
        /\ (s.op = "save" => s.form \in Form) /\ \A r \in s.found : Known(r) /\ r.name \in Hosts
    BY <1>1 DEF TaskOK
  <1>3. s.previous \in Loaded \cup {None}
    BY <1>1 DEF SettingsTask
  <1> HIDE DEF s
  <1>4. ASSUME NEW u,
               \/ s.op = "save" /\ s.previous = None
                  /\ u = [s EXCEPT !.previous = loaded, !.pc = "read"]
               \/ s.op = "save" /\ s.previous # None
                  /\ u = [s EXCEPT !.current = loaded, !.pc = "reconcile"]
               \/ s.op = "deploy" /\ u = [s EXCEPT !.current = loaded, !.pc = "clear"]
               \/ s.op = "remove" /\ u = [s EXCEPT !.previous = loaded, !.pc = "delete"]
        PROVE  /\ TaskOK(u) /\ u.stale = FALSE /\ u.copy = Empty
               /\ u.op # "github" /\ u.pc \notin {"default", "write"}
    <2>1. /\ u \in SettingsTask /\ u.op = s.op /\ u.no = s.no /\ u.form = s.form /\ u.copy = s.copy
          /\ u.found = s.found /\ u.stale = s.stale
          /\ \/ u.pc = "read" /\ u.op = "save"
             \/ u.pc = "reconcile" /\ u.previous \in Loaded
             \/ u.pc = "clear"
             \/ u.pc = "delete" /\ u.previous \in Loaded
      BY ZenonT(90), <1>1, <1>3, <1>4 DEF SettingsTask, Labels
    <2>2. TableOK(u.copy) /\ u.no \in 1..requests /\ (u.op = "save" => u.form \in Form)
          /\ u.op \in {"save", "deploy", "remove"} /\ u.op # "github"
      BY <1>1, <1>2, <2>1, IdleOK
    <2>3. u.pc \in {"read", "write"} => u.op = "save"
      BY <2>1
    <2>4. \A r \in u.found : Known(r) /\ r.name \in Hosts
      BY <1>2, <2>1
    <2>5. u.pc = "clear" => u.op = "deploy"
      BY <1>4, <1>1, <2>1 DEF SettingsTask
    <2>6. u.pc \in {"reconcile", "delete"} => u.previous \in Loaded
      BY <2>1
    <2>7. u.pc \in {"read", "reconcile", "clear", "delete"}
      BY <2>1
    <2>8. TaskOK(u)
      BY <2>1, <2>2, <2>3, <2>4, <2>5, <2>6, <2>7 DEF TaskOK
    <2> QED
      BY <1>1, <2>1, <2>2, <2>7, <2>8
  <1>5. AfterLoad(t, loaded) =
          CASE s.op = "save" /\ s.previous = None -> [s EXCEPT !.previous = loaded, !.pc = "read"]
            [] s.op = "save" /\ s.previous # None -> [s EXCEPT !.current = loaded, !.pc = "reconcile"]
            [] s.op = "deploy" -> [s EXCEPT !.current = loaded, !.pc = "clear"]
            [] s.op = "remove" -> [s EXCEPT !.previous = loaded, !.pc = "delete"]
    BY DEF AfterLoad, s
  <1>6. CASE s.op = "save" /\ s.previous = None
    <2>1. AfterLoad(t, loaded) = [s EXCEPT !.previous = loaded, !.pc = "read"]
      BY <1>5, <1>6
    <2> QED
      BY <1>4, <1>6, <2>1
  <1>7. CASE s.op = "save" /\ s.previous # None
    <2>1. AfterLoad(t, loaded) = [s EXCEPT !.current = loaded, !.pc = "reconcile"]
      BY <1>5, <1>7
    <2> QED
      BY <1>4, <1>7, <2>1
  <1>8. CASE s.op = "deploy"
    <2>1. AfterLoad(t, loaded) = [s EXCEPT !.current = loaded, !.pc = "clear"]
      BY <1>5, <1>8
    <2> QED
      BY <1>4, <1>8, <2>1
  <1>9. CASE s.op = "remove"
    <2>1. AfterLoad(t, loaded) = [s EXCEPT !.previous = loaded, !.pc = "delete"]
      BY <1>5, <1>9
    <2> QED
      BY <1>4, <1>9, <2>1
  <1> QED
    BY <1>2, <1>6, <1>7, <1>8, <1>9

\* What the forms make of a table, and what UpsertSettings stores of a copy.
LEMMA Tables ==
  ASSUME requests \in Nat, TableOK(table), NEW copy, TableOK(copy)
  PROVE  /\ TableOK(Upsert(copy)) /\ Effective(copy) \in Loaded
         /\ TableOK([copy EXCEPT !.root = CfgRoot])
         /\ \A k \in {"token", "hook", "key"} :
              table[k] # None => Upsert(copy)[k] \in 1..requests
                                 \/ (k = "hook" /\ Upsert(copy)[k] = 0)
         /\ Upsert(copy).hook = 0 => copy.hook = 0 \/ table.hook = 0
  <1>1. /\ table \in Table /\ copy \in Table /\ CfgRoot \in Roots \cup {Blank} /\ Blank # None
    BY CfgAssumption, NullAssumption DEF TableOK
  <1>2. DOMAIN table = {"root", "zone", "origin", "token", "app", "hook", "key"}
    BY <1>1 DEF Table
  <1>3. Upsert(copy) = [k \in {"root", "zone", "origin", "token", "app", "hook", "key"} |->
                          IF copy[k] = None THEN table[k] ELSE copy[k]]
    BY <1>2 DEF Upsert
  <1>4. Upsert(copy) =
          [root |-> IF copy.root = None THEN table.root ELSE copy.root,
           zone |-> IF copy.zone = None THEN table.zone ELSE copy.zone,
           origin |-> IF copy.origin = None THEN table.origin ELSE copy.origin,
           token |-> IF copy.token = None THEN table.token ELSE copy.token,
           app |-> IF copy.app = None THEN table.app ELSE copy.app,
           hook |-> IF copy.hook = None THEN table.hook ELSE copy.hook,
           key |-> IF copy.key = None THEN table.key ELSE copy.key]
    BY <1>3
  <1>5. Upsert(copy) \in Table
    BY <1>1, <1>4 DEF Table
  <1>6. TableOK(Upsert(copy))
    BY <1>4, <1>5 DEF TableOK, Secret
  <1>7. Effective(copy) \in Loaded
    BY <1>1 DEF Effective, Loaded, OrBlank, Table
  <1>8. TableOK([copy EXCEPT !.root = CfgRoot])
    BY <1>1 DEF TableOK, Secret, Table
  <1>9. \A k \in {"token", "hook", "key"} :
          table[k] # None => Upsert(copy)[k] \in 1..requests \/ (k = "hook" /\ Upsert(copy)[k] = 0)
    BY <1>4 DEF TableOK, Secret
  <1>10. Upsert(copy).hook = 0 => copy.hook = 0 \/ table.hook = 0
    BY <1>4
  <1> QED
    BY <1>6, <1>7, <1>8, <1>9, <1>10

\* What a GitHub form holds of the table: the webhook secret is the one in force.
Held(t) == [t EXCEPT !.hook = InForce(@)]

\* It is a table.
LEMMA HeldOK ==
  ASSUME NEW t
  PROVE  (t \in Table => Held(t) \in Table) /\ (TableOK(t) => TableOK(Held(t)))
  <1>1. ASSUME t \in Table
        PROVE  /\ Held(t) \in Table /\ Held(t).token = t.token /\ Held(t).key = t.key
               /\ Held(t).hook \in {t.hook, 0}
    BY <1>1 DEF Held, InForce, Table
  <1> QED
    BY <1>1 DEF TableOK, Secret

\* What a GitHub form makes of a table is a table.
LEMMA ApplicationTable ==
  ASSUME NEW t \in Table, NEW no \in Numbers, NEW form \in AppForm
  PROVE  Application(no, form, t) \in Table
  BY ZenonT(30) DEF Application, Table, AppForm

\* So it is with what the other form makes, and a secret in it was brought by
\* a request.
LEMMA Filled ==
  ASSUME requests \in 0..MaxRequests, NEW t, TableOK(t), NEW no \in 1..requests
  PROVE  /\ \A form \in Form : TableOK(Deployment(no, form, t))
         /\ \A form \in AppForm : TableOK(Application(no, form, t))
  <1>1. t \in Table /\ CfgRoot \in Roots \cup {Blank} /\ no \in Numbers
    BY CfgAssumption, MaxRequestsAssumption DEF TableOK, Numbers
  <1>2. ASSUME NEW form \in Form PROVE TableOK(Deployment(no, form, t))
    <2>1. RootAfter(form, t) \in Roots \cup {Blank}
      BY <1>1 DEF RootAfter, FirstNonBlank, OrBlank, Table, Form
    <2>2. Deployment(no, form, t) \in Table
      BY ZenonT(30), <1>1, <2>1 DEF Deployment, Table, Form
    <2> QED
      BY <1>1, <2>2 DEF TableOK, Secret, Deployment, Table
  <1>3. ASSUME NEW form \in AppForm PROVE TableOK(Application(no, form, t))
    <2>1. Application(no, form, t) \in Table
      BY <1>1, ApplicationTable
    <2> QED
      BY <1>1, <2>1 DEF TableOK, Secret, Application, Table
  <1> QED
    BY <1>2, <1>3

\* UpsertSettings: the table and the copies that others hold change at once.
LEMMA WriteStep ==
  ASSUME ShapeInv, NEW w \in Workers, NEW copy, TableOK(copy), NEW u, TaskOK(u),
         NEW asked \in Table, Write(w, copy, u, asked), requests' = requests,
         UNCHANGED <<records, settled>>
  PROVE  ShapeInv'
  <1>1. /\ table' = Upsert(copy) /\ overtaken' \in BOOLEAN /\ wanted' \in Table
        /\ tasks' = [v \in Workers |->
             IF v = w THEN u ELSE [tasks[v] EXCEPT !.stale = @ \/ tasks[v].pc \in Holding]]
    BY IdleOK, MaxRequestsAssumption DEF Write, ShapeInv
  <1>2. TableOK(table)'
    <2>1. TableOK(Upsert(copy))
      <3>1. requests \in Nat /\ TableOK(table)
        BY MaxRequestsAssumption DEF ShapeInv
      <3> QED
        BY <3>1, Tables
    <2> QED
      BY <1>1, <2>1 DEF TableOK, Secret
  <1>3. tasks'[w] = u
    BY <1>1
  <1>4. ASSUME NEW v \in Workers \ {w}
        PROVE  /\ tasks'[v] \in SettingsTask
               /\ \E b \in BOOLEAN : tasks'[v] = [tasks[v] EXCEPT !.stale = b]
    <2> DEFINE b == tasks[v].stale \/ tasks[v].pc \in Holding
    <2>1. b \in BOOLEAN
      BY DEF ShapeInv, SettingsTask
    <2>2. tasks'[v] = [tasks[v] EXCEPT !.stale = b]
      BY <1>1
    <2> HIDE DEF b
    <2>3. [tasks[v] EXCEPT !.stale = b] \in SettingsTask
      BY <2>1 DEF ShapeInv, SettingsTask
    <2> QED
      BY <2>1, <2>2, <2>3
  <1>5. tasks' \in [Workers -> SettingsTask]
    <2>1. \A v \in Workers : tasks'[v] \in SettingsTask
      BY <1>3, <1>4 DEF TaskOK
    <2> QED
      BY <1>1, <2>1
  <1>6. \A v \in Workers : TaskOK(tasks[v])'
    BY <1>3, <1>4, <1>5, TaskSteps
  <1>7. \A r \in records' : Known(r)'
    BY DEF ShapeInv, Known
  <1> QED
    BY <1>1, <1>2, <1>5, <1>6, <1>7 DEF ShapeInv

\* A request that begins, with what its handler was given.
LEMMA BeginStep ==
  ASSUME ShapeInv, NEW w \in Workers, NEW task \in SettingsTask,
         Begin(w, task),
         /\ task.copy = Empty /\ task.found = {}
         /\ \/ task.op = "save" /\ task.form \in Form /\ task.pc = "load"
            \/ task.op = "github" /\ task.form \in AppForm /\ task.pc = "secrets"
            \/ task.op \in {"deploy", "remove"} /\ task.pc = "load"
  PROVE  ShapeInv'
  <1>1. /\ requests' = requests + 1 /\ requests' \in 0..MaxRequests /\ requests \in Nat
        /\ requests' \in Nat /\ requests' >= requests /\ requests + 1 \in Numbers
        /\ settled' = None /\ UNCHANGED <<table, records, wanted, overtaken>>
    <2>1. /\ requests < MaxRequests /\ requests' = requests + 1 /\ settled' = None
          /\ UNCHANGED <<table, records, wanted, overtaken>>
      BY Zenon DEF Begin
    <2>2. requests \in 0..MaxRequests
      BY DEF ShapeInv
    <2> QED
      BY <2>1, <2>2, MaxRequestsAssumption DEF Numbers
  <1>2. PICK alone \in BOOLEAN :
          tasks' = [v \in Workers |->
            IF v = w THEN [task EXCEPT !.no = requests + 1, !.alone = alone]
                     ELSE [tasks[v] EXCEPT !.alone = FALSE]]
    <2> DEFINE all == \A x \in Workers : At(x, "idle")
    <2>1. all \in BOOLEAN
      OBVIOUS
    <2>2. tasks' = [v \in Workers |->
            IF v = w THEN [task EXCEPT !.no = requests + 1, !.alone = all]
                     ELSE [tasks[v] EXCEPT !.alone = FALSE]]
      BY DEF Begin
    <2> HIDE DEF all
    <2> QED
      BY <2>1, <2>2
  <1>3. PICK u \in SettingsTask :
          /\ tasks' = [v \in Workers |-> IF v = w THEN u ELSE [tasks[v] EXCEPT !.alone = FALSE]]
          /\ u.no = requests + 1 /\ u.pc = task.pc /\ u.op = task.op
          /\ u.form = task.form /\ u.copy = Empty /\ u.found = {}
    <2>1. [task EXCEPT !.no = requests + 1, !.alone = alone] \in SettingsTask
      BY <1>1 DEF SettingsTask
    <2> QED
      BY <1>1, <1>2, <2>1 DEF SettingsTask
  <1>4. TableOK(Empty)' /\ u.no \in 1..requests'
    <2>1. TableOK(Empty)
      BY <1>1, IdleOK
    <2> QED
      BY <1>1, <1>3, <2>1 DEF TableOK, Secret
  <1>5. TaskOK(u)'
    <2>1. u.op \notin {"save", "github"} \/ (u.op = "save" /\ u.form \in Form)
            \/ (u.op = "github" /\ u.form \in AppForm)
      BY <1>3
    <2>2. \/ u.pc = "load" /\ u.op \in {"save", "deploy", "remove"}
          \/ u.pc = "secrets" /\ u.op = "github"
      BY <1>3
    <2> QED
      BY <1>3, <1>4, <2>1, <2>2 DEF TaskOK
  <1>6. ASSUME NEW v \in Workers \ {w}
        PROVE  tasks'[v] \in SettingsTask /\ TaskOK(tasks[v])'
    <2>1. tasks'[v] = [tasks[v] EXCEPT !.alone = FALSE] /\ TaskOK(tasks[v])
      BY <1>3 DEF ShapeInv
    <2>2. PICK t : t = tasks[v]
      OBVIOUS
    <2>3. TaskOK([t EXCEPT !.alone = FALSE])'
      BY <1>1, <2>1, <2>2, TaskStays
    <2>4. TaskOK(tasks[v])'
      BY <2>1, <2>2, <2>3
    <2> QED
      BY <2>4 DEF TaskOK
  <1>7. tasks'[w] = u /\ \A v \in Workers : tasks'[v] \in SettingsTask /\ TaskOK(tasks[v])'
    BY <1>3, <1>5, <1>6
  <1>8. tasks' \in [Workers -> SettingsTask]
    BY <1>3, <1>7
  <1>9. TableOK(table)' /\ \A r \in records' : Known(r)'
    BY <1>1 DEF ShapeInv, TableOK, Secret, Known
  <1> QED
    BY <1>1, <1>7, <1>8, <1>9 DEF ShapeInv

\* The requests begin.
LEMMA Beginnings ==
  ASSUME ShapeInv, NEW w \in Workers,
         SaveSettings(w) \/ SaveGitHubSettings(w) \/ ApplyProject(w) \/ DeleteProject(w)
  PROVE  ShapeInv'
  <1>0. IdleTask \in SettingsTask /\ IdleTask.copy = Empty /\ IdleTask.found = {}
    BY IdleOK, MaxRequestsAssumption DEF ShapeInv, TaskOK, IdleTask
  <1>1. CASE SaveSettings(w)
    <2> PICK form \in Forms : Begin(w, [IdleTask EXCEPT !.op = "save", !.pc = "load", !.form = form])
      BY <1>1 DEF SaveSettings
    <2> PICK task : task = [IdleTask EXCEPT !.op = "save", !.pc = "load", !.form = form]
      OBVIOUS
    <2>1. /\ task \in SettingsTask /\ task.copy = Empty /\ task.found = {}
          /\ task.op = "save" /\ task.pc = "load" /\ task.form \in Form
      BY <1>0, FormsAssumption DEF SettingsTask, Labels
    <2> QED
      BY <2>1, BeginStep
  <1>2. CASE SaveGitHubSettings(w)
    <2> PICK form \in AppForms :
          Begin(w, [IdleTask EXCEPT !.op = "github", !.pc = "secrets", !.form = form])
      BY <1>2 DEF SaveGitHubSettings
    <2> PICK task : task = [IdleTask EXCEPT !.op = "github", !.pc = "secrets", !.form = form]
      OBVIOUS
    <2>1. /\ task \in SettingsTask /\ task.copy = Empty /\ task.found = {}
          /\ task.op = "github" /\ task.pc = "secrets" /\ task.form \in AppForm
      BY <1>0, FormsAssumption DEF SettingsTask, Labels, AppForm
    <2> QED
      BY <2>1, BeginStep
  <1>3. CASE ApplyProject(w) \/ DeleteProject(w)
    <2> PICK op \in {"deploy", "remove"} : Begin(w, [IdleTask EXCEPT !.op = op, !.pc = "load"])
      BY <1>3 DEF ApplyProject, DeleteProject
    <2> PICK task : task = [IdleTask EXCEPT !.op = op, !.pc = "load"]
      OBVIOUS
    <2>1. /\ task \in SettingsTask /\ task.copy = Empty /\ task.found = {}
          /\ task.op \in {"deploy", "remove"} /\ task.pc = "load"
      BY <1>0 DEF SettingsTask, Labels
    <2> QED
      BY <2>1, BeginStep
  <1> QED
    BY <1>1, <1>2, <1>3

\* The requests read.
LEMMA Readings ==
  ASSUME ShapeInv, NEW w \in Workers, LoadSettings(w) \/ ReadSecrets(w) \/ ReadAll(w)
  PROVE  ShapeInv'
  <1> PICK t : t = tasks[w]
    OBVIOUS
  <1>0. /\ t \in SettingsTask /\ TaskOK(t) /\ requests \in Nat /\ TableOK(table)
        /\ \A r \in records : Known(r)
        /\ settled \in [previous : Loaded, current : Loaded] \cup {None}
        /\ requests' = requests /\ UNCHANGED <<table, records, wanted, overtaken, settled>>
    BY MaxRequestsAssumption DEF ShapeInv, LoadSettings, ReadSecrets, ReadAll, settingsHistory
  <1>1. SUFFICES \E u : TaskOK(u) /\ tasks' = [tasks EXCEPT ![w] = u]
    BY <1>0, LocalStep
  <1>2. CASE LoadSettings(w)
    <2>1. t.pc = "load" /\ Effective(table) \in Loaded
      BY <1>0, <1>2, Tables DEF LoadSettings, At
    <2>2. TaskOK(AfterLoad(t, Effective(table)))
      BY <1>0, <2>1, AfterLoadOK
    <2>3. TaskOK([t EXCEPT !.copy = table, !.stale = FALSE, !.pc = "default"])
      <3> PICK u : u = [t EXCEPT !.copy = table, !.stale = FALSE, !.pc = "default"]
        OBVIOUS
      <3>1. /\ u \in SettingsTask /\ u.pc = "default" /\ u.op = t.op /\ u.no = t.no
            /\ u.form = t.form /\ u.copy = table /\ u.found = t.found
        BY <1>0 DEF SettingsTask, Labels, TableOK
      <3> QED
        BY <1>0, <2>1, <3>1 DEF TaskOK
    <2>4. \/ tasks' = [tasks EXCEPT ![w] =
                        [t EXCEPT !.copy = table, !.stale = FALSE, !.pc = "default"]]
          \/ tasks' = [tasks EXCEPT ![w] = AfterLoad(t, Effective(table))]
      BY <1>2 DEF LoadSettings
    <2> QED
      BY <2>2, <2>3, <2>4
  <1>3. CASE ReadSecrets(w)
    <2> PICK held : held = Held(table)
      OBVIOUS
    <2>1. t.pc = "secrets" /\ \/ tasks' = [tasks EXCEPT ![w] = IdleTask]
                              \/ tasks' = [tasks EXCEPT ![w] =
                                   [t EXCEPT !.copy = held, !.stale = FALSE, !.pc = "read"]]
      BY <1>0, <1>3 DEF ReadSecrets, At, Return, SettingsTask, ShapeInv, Held
    <2>2. TaskOK([t EXCEPT !.copy = held, !.stale = FALSE, !.pc = "read"])
      <3> PICK u : u = [t EXCEPT !.copy = held, !.stale = FALSE, !.pc = "read"]
        OBVIOUS
      <3>0. TableOK(held)
        BY <1>0, HeldOK
      <3>1. /\ u \in SettingsTask /\ u.pc = "read" /\ u.op = t.op /\ u.no = t.no
            /\ u.form = t.form /\ u.copy = held /\ u.found = t.found
        BY <1>0, <3>0 DEF SettingsTask, Labels, TableOK
      <3> QED
        BY <1>0, <2>1, <3>0, <3>1 DEF TaskOK
    <2> QED
      BY <1>0, <2>1, <2>2, IdleOK
  <1>4. CASE ReadAll(w)
    <2>1. t.pc = "read" /\ t.no \in 1..requests /\ t.op \in {"save", "github"}
      BY <1>0, <1>4 DEF ReadAll, At, TaskOK
    <2>2. PICK copy : /\ TableOK(copy)
                      /\ \E stale \in BOOLEAN :
                           tasks' = [tasks EXCEPT ![w] =
                             [t EXCEPT !.pc = "write", !.copy = copy, !.stale = stale]]
      <3>1. t.copy \in Table /\ TableOK(t.copy)
        BY <1>0 DEF TaskOK, TableOK
      <3> PICK filled : filled = [table EXCEPT !.hook = t.copy.hook,
                                               !.key = IF t.copy.key = None THEN @ ELSE t.copy.key]
        OBVIOUS
      <3>2. TableOK(filled)
        BY <1>0, <3>1 DEF TableOK, Secret, Table
      <3>3. tasks' = [tasks EXCEPT ![w] = IF t.op = "save"
                        THEN [t EXCEPT !.pc = "write", !.copy = table, !.stale = FALSE]
                        ELSE [t EXCEPT !.pc = "write", !.copy = filled]]
        BY <1>4 DEF ReadAll
      <3>4. /\ [t EXCEPT !.pc = "write", !.copy = filled]
                 = [t EXCEPT !.pc = "write", !.copy = filled, !.stale = t.stale]
            /\ t.stale \in BOOLEAN
        BY <1>0 DEF SettingsTask
      <3>5. CASE t.op = "save"
        BY <1>0, <3>3, <3>5
      <3>6. CASE t.op # "save"
        <4>1. tasks' = [tasks EXCEPT ![w] =
                 [t EXCEPT !.pc = "write", !.copy = filled, !.stale = t.stale]]
          BY <3>3, <3>4, <3>6
        <4> QED
          BY <3>2, <3>4, <4>1
      <3> QED
        BY <3>5, <3>6
    <2>a. PICK stale \in BOOLEAN :
            tasks' = [tasks EXCEPT ![w] = [t EXCEPT !.pc = "write", !.copy = copy, !.stale = stale]]
      BY <2>2
    <2>3. PICK u : /\ u = [t EXCEPT !.pc = "write", !.copy = copy, !.stale = stale]
                   /\ tasks' = [tasks EXCEPT ![w] = u]
      BY <2>a
    <2>4. /\ u \in SettingsTask /\ u.pc = "write" /\ u.op = t.op /\ u.no = t.no
          /\ u.form = t.form /\ u.copy = copy /\ u.found = t.found
      BY <1>0, <2>2, <2>3 DEF SettingsTask, Labels, TableOK
    <2>5. TaskOK(u)
      BY <1>0, <2>1, <2>2, <2>4 DEF TaskOK
    <2> QED
      BY <2>3, <2>5
  <1> QED
    BY <1>2, <1>3, <1>4

\* The tables that the forms ask for.
LEMMA Asked ==
  ASSUME wanted \in Table, NEW no \in Numbers
  PROVE  /\ [wanted EXCEPT !.root = IF OrBlank(@) = Blank THEN CfgRoot ELSE @] \in Table
         /\ \A form \in Form : AskedByDeployment(no, form) \in Table
         /\ \A form \in AppForm : AskedByApplication(no, form) \in Table
  <1>0. CfgRoot \in Roots \cup {Blank}
    BY CfgAssumption
  <1>1. [wanted EXCEPT !.root = IF OrBlank(@) = Blank THEN CfgRoot ELSE @] \in Table
    BY <1>0 DEF Table, OrBlank
  <1>2. ASSUME NEW form \in Form PROVE AskedByDeployment(no, form) \in Table
    <2> DEFINE root == IF form.root = Blank THEN OrBlank(wanted.root) ELSE form.root
    <2>1. root \in Roots \cup {Blank}
      BY DEF Table, OrBlank, Form
    <2>2. AskedByDeployment(no, form) =
            [wanted EXCEPT !.root = IF root = Blank THEN CfgRoot ELSE root,
                           !.zone = form.zone, !.origin = form.origin,
                           !.token = IF form.token THEN no ELSE @]
      BY DEF AskedByDeployment
    <2> HIDE DEF root
    <2> QED
      BY <1>0, <2>1, <2>2 DEF Table, Form
  <1>3. ASSUME NEW form \in AppForm PROVE AskedByApplication(no, form) \in Table
    <2> PICK hook, key : /\ hook = IF form.hook THEN no ELSE InForce(wanted.hook)
                         /\ key = IF form.key THEN no ELSE wanted.key
      OBVIOUS
    <2>1. hook \in Numbers \cup {0, None} /\ key \in Numbers \cup {None}
      BY DEF InForce, Table, AppForm
    <2>2. AskedByApplication(no, form) = [wanted EXCEPT !.app = no, !.hook = hook, !.key = key]
      BY DEF AskedByApplication
    <2> QED
      BY <2>1, <2>2 DEF Table
  <1> QED
    BY <1>1, <1>2, <1>3

\* The requests write.
LEMMA Writings ==
  ASSUME ShapeInv, NEW w \in Workers, StoreDefaultRoot(w) \/ SaveDeployment(w) \/ SaveApplication(w)
  PROVE  ShapeInv'
  <1> PICK t : t = tasks[w]
    OBVIOUS
  <1>0. /\ t \in SettingsTask /\ TaskOK(t) /\ requests \in 0..MaxRequests /\ requests \in Nat
        /\ TableOK(table) /\ wanted \in Table /\ TableOK(t.copy)
        /\ requests' = requests /\ UNCHANGED <<records, settled>>
    BY MaxRequestsAssumption DEF ShapeInv, StoreDefaultRoot, SaveDeployment, SaveApplication, TaskOK
  <1>1. CASE StoreDefaultRoot(w)
    <2> PICK copy, u, asked :
          /\ copy = [t.copy EXCEPT !.root = CfgRoot]
          /\ u = AfterLoad(t, Effective(copy))
          /\ asked = [wanted EXCEPT !.root = IF OrBlank(@) = Blank THEN CfgRoot ELSE @]
      OBVIOUS
    <2>1. t.pc = "default" /\ t.no \in 1..requests /\ t.no \in Numbers /\ Write(w, copy, u, asked)
      BY <1>0, <1>1, MaxRequestsAssumption DEF StoreDefaultRoot, At, TaskOK, Numbers
    <2>2. TableOK(copy) /\ Effective(copy) \in Loaded
      BY <1>0, Tables
    <2>3. TaskOK(u)
      BY <1>0, <2>1, <2>2, AfterLoadOK
    <2>4. asked \in Table
      BY <1>0, <2>1, Asked
    <2> QED
      BY <1>0, <2>1, <2>2, <2>3, <2>4, WriteStep
  <1>2. CASE SaveDeployment(w)
    <2> PICK copy, u, asked :
          /\ copy = Deployment(t.no, t.form, t.copy)
          /\ u = [t EXCEPT !.pc = "load", !.copy = Empty]
          /\ asked = AskedByDeployment(t.no, t.form)
      OBVIOUS
    <2>1. /\ t.pc = "write" /\ t.op = "save" /\ t.no \in 1..requests /\ t.no \in Numbers
          /\ t.form \in Form /\ Write(w, copy, u, asked)
      BY <1>0, <1>2, MaxRequestsAssumption DEF SaveDeployment, At, TaskOK, Numbers
    <2>2. TableOK(copy) /\ asked \in Table
      BY <1>0, <2>1, Filled, Asked
    <2>3. /\ u \in SettingsTask /\ u.pc = "load" /\ u.op = t.op /\ u.no = t.no
          /\ u.form = t.form /\ u.copy = Empty /\ u.found = t.found
      BY <1>0, IdleOK DEF SettingsTask, Labels
    <2>4. TaskOK(u)
      BY <1>0, <2>1, <2>3, IdleOK DEF TaskOK
    <2> QED
      BY <1>0, <2>1, <2>2, <2>4, WriteStep
  <1>3. CASE SaveApplication(w)
    <2> PICK copy, asked :
          /\ copy = Application(t.no, t.form, t.copy) /\ asked = AskedByApplication(t.no, t.form)
      OBVIOUS
    <2>1. /\ t.pc = "write" /\ t.op = "github" /\ t.no \in 1..requests /\ t.no \in Numbers
          /\ t.form \in AppForm /\ Write(w, copy, IdleTask, asked)
      BY <1>0, <1>3, MaxRequestsAssumption DEF SaveApplication, At, TaskOK, Numbers
    <2>2. TableOK(copy) /\ asked \in Table /\ TaskOK(IdleTask)
      BY <1>0, <2>1, Filled, Asked, IdleOK
    <2> QED
      BY <1>0, <2>1, <2>2, WriteStep
  <1> QED
    BY <1>1, <1>2, <1>3

\* A request goes on to Cloudflare.
LEMMA GoOn ==
  ASSUME NEW t, TaskOK(t), t.pc # "idle",
         NEW pc \in {"clear", "delete"}, pc = "delete" \/ t.op = "save" => t.previous \in Loaded
  PROVE  TaskOK([t EXCEPT !.pc = pc])
  <1> PICK u : u = [t EXCEPT !.pc = pc]
    OBVIOUS
  <1>1. /\ u \in SettingsTask /\ u.pc = pc /\ u.op = t.op /\ u.no = t.no /\ u.form = t.form
        /\ u.copy = t.copy /\ u.previous = t.previous /\ u.current = t.current /\ u.found = t.found
    BY DEF TaskOK, SettingsTask, Labels
  <1> QED
    BY <1>1 DEF TaskOK

\* The names of CaddyTower.
LEMMA OwnNames == \A op, root : root \in Roots => HostOf(op, root) \in Hosts
  BY DEF HostOf, Hosts

\* What becomes of a request that has records to delete and types to list, or
\* none any more.
PurgedTo(u, t, found, left) ==
  \/ u = IdleTask /\ t.op # "save" /\ t.pc # "clearing"
  \/ /\ u \in SettingsTask /\ u.op = t.op /\ u.no = t.no /\ u.form = t.form
     /\ u.copy = t.copy /\ u.previous = t.previous /\ u.current = t.current
     /\ u.found = found /\ u.left = left /\ u.alone = t.alone
     /\ \/ u.pc = t.pc /\ (found # {} \/ left # {})
        \/ found = {} /\ left = {} /\ t.pc = "clearing" /\ u.pc = "list"
        \/ found = {} /\ left = {} /\ t.pc # "clearing" /\ t.op = "save" /\ u.pc = "clear"

\* It is what the code makes of it.
LEMMA PurgedTask ==
  ASSUME NEW t \in SettingsTask, t.pc \in {"delete", "deleting", "clearing"},
         NEW found, found \subseteq Record, NEW left, left \subseteq Types
  PROVE  PurgedTo(Purged(t, found, left), t, found, left)
  <1> PICK u : u = Purged(t, found, left)
    OBVIOUS
  <1> SUFFICES PurgedTo(u, t, found, left)
    OBVIOUS
  <1> PICK s : s = [t EXCEPT !.found = found, !.left = left]
    OBVIOUS
  <1>1. /\ s \in SettingsTask /\ s.op = t.op /\ s.no = t.no /\ s.form = t.form
        /\ s.copy = t.copy /\ s.previous = t.previous /\ s.current = t.current
        /\ s.found = found /\ s.left = left /\ s.alone = t.alone /\ s.pc = t.pc
    BY DEF SettingsTask
  <1>2. ASSUME NEW pc \in {"list", "clear"}, NEW v, v = [s EXCEPT !.pc = pc]
        PROVE  /\ v \in SettingsTask /\ v.op = t.op /\ v.no = t.no /\ v.form = t.form
               /\ v.copy = t.copy /\ v.previous = t.previous /\ v.current = t.current
               /\ v.found = found /\ v.left = left /\ v.alone = t.alone /\ v.pc = pc
    <2>1. v \in SettingsTask
      BY <1>1, <1>2, ZenonT(60) DEF SettingsTask, Labels
    <2>2. /\ v.op = s.op /\ v.no = s.no /\ v.form = s.form /\ v.copy = s.copy
          /\ v.previous = s.previous /\ v.current = s.current /\ v.found = s.found
          /\ v.left = s.left /\ v.alone = s.alone /\ v.pc = pc
      BY <1>1, <1>2 DEF SettingsTask
    <2> QED
      BY <1>1, <2>1, <2>2
  <1>3. CASE found # {} \/ left # {}
    <2>1. u = s
      BY <1>3 DEF Purged
    <2> QED
      BY <1>1, <1>3, <2>1 DEF PurgedTo
  <1>4. CASE found = {} /\ left = {} /\ t.pc = "clearing"
    <2>1. u = [s EXCEPT !.pc = "list"]
      BY <1>4 DEF Purged
    <2> QED
      BY <1>2, <1>4, <2>1 DEF PurgedTo
  <1>5. CASE found = {} /\ left = {} /\ t.pc # "clearing" /\ t.op = "save"
    <2>1. u = [s EXCEPT !.pc = "clear"]
      BY <1>5 DEF Purged
    <2> QED
      BY <1>2, <1>5, <2>1 DEF PurgedTo
  <1>6. CASE found = {} /\ left = {} /\ t.pc # "clearing" /\ t.op # "save"
    BY <1>6 DEF Purged, PurgedTo
  <1> QED
    BY <1>3, <1>4, <1>5, <1>6

\* It keeps its shape.
LEMMA PurgedOK ==
  ASSUME requests \in Nat, NEW t, TaskOK(t), t.pc \in {"delete", "deleting", "clearing"},
         NEW found \in SUBSET Record, NEW left \in SUBSET Types,
         \A r \in found : Known(r) /\ r.name \in Hosts
  PROVE  TaskOK(Purged(t, found, left))
  <1> PICK u : u = Purged(t, found, left)
    OBVIOUS
  <1>1. t \in SettingsTask /\ found \subseteq Record /\ left \subseteq Types
    BY DEF TaskOK
  <1>4. PurgedTo(u, t, found, left)
    BY <1>1, PurgedTask
  <1>2. CASE u = IdleTask
    BY <1>2, IdleOK
  <1>3. CASE u # IdleTask
    <2>1. /\ u \in SettingsTask /\ u.op = t.op /\ u.no = t.no /\ u.form = t.form
          /\ u.copy = t.copy /\ u.previous = t.previous /\ u.current = t.current
          /\ u.found = found
          /\ \/ u.pc = t.pc
             \/ t.pc = "clearing" /\ u.pc = "list"
             \/ t.pc # "clearing" /\ t.op = "save" /\ u.pc = "clear"
      BY <1>3, <1>4 DEF PurgedTo
    <2> QED
      BY <2>1 DEF TaskOK
  <1> QED
    BY <1>2, <1>3

\* A request lists the records that are to go, of one type after another, and
\* deletes them one by one.
LEMMA Purges ==
  ASSUME ShapeInv, NEW w \in Workers, ListDoomed(w) \/ DeleteDoomed(w)
  PROVE  ShapeInv'
  <1> PICK t : t = tasks[w]
    OBVIOUS
  <1>0. /\ t \in SettingsTask /\ TaskOK(t) /\ requests \in Nat /\ \A r \in records : Known(r)
        /\ settled \in [previous : Loaded, current : Loaded] \cup {None}
        /\ requests' = requests /\ UNCHANGED <<table, wanted, overtaken, settled>>
        /\ t.pc \in {"deleting", "clearing"} /\ t.left \in SUBSET Types /\ t.found \in SUBSET Record
    BY MaxRequestsAssumption DEF ShapeInv, ListDoomed, DeleteDoomed, settingsHistory, At, SettingsTask
  <1>1. CASE ListDoomed(w)
    <2> PICK found, left : /\ found = Doomed(t, FirstOf(t.left))
                           /\ left = t.left \ {FirstOf(t.left)}
      OBVIOUS
    <2>1. \A r \in found : r \in records /\ r.name \in Hosts
      <3>1. CASE t.pc = "deleting"
        BY <1>0, <3>1, OwnNames DEF Doomed, Named, TaskOK
      <3>2. CASE t.pc = "clearing"
        BY <1>0, <3>2, OwnNames DEF Doomed, Named, TaskOK
      <3> QED
        BY <1>0, <3>1, <3>2
    <2>2. TaskOK(Purged(t, found, left))
      <3>1. found \in SUBSET Record /\ left \in SUBSET Types
        BY <1>0, <2>1 DEF Known
      <3> QED
        BY <1>0, <2>1, <3>1, PurgedOK
    <2>3. tasks' = [tasks EXCEPT ![w] = Purged(t, found, left)] /\ records' = records
      BY <1>1 DEF ListDoomed
    <2> QED
      BY <1>0, <2>2, <2>3, LocalStep
  <1>2. CASE DeleteDoomed(w)
    <2>1. PICK r \in t.found :
            \/ /\ records' = {s \in records : s.id # r.id}
               /\ tasks' = [tasks EXCEPT ![w] = Purged(t, t.found \ {r}, t.left)]
            \/ tasks' = [tasks EXCEPT ![w] = IdleTask] /\ records' = records
      BY <1>2 DEF DeleteDoomed, Return
    <2>2. \A s \in records' : Known(s)
      BY <1>0, <2>1
    <2>3. TaskOK(IdleTask)
      BY <1>0, IdleOK
    <2>4. TaskOK(Purged(t, t.found \ {r}, t.left))
      <3>1. \A s \in t.found \ {r} : Known(s) /\ s.name \in Hosts
        BY <1>0 DEF TaskOK
      <3>2. t.found \ {r} \in SUBSET Record
        BY <1>0
      <3> QED
        BY <1>0, <3>1, <3>2, PurgedOK
    <2> QED
      BY <1>0, <2>1, <2>2, <2>3, <2>4, LocalStep
  <1> QED
    BY <1>1, <1>2

\* A request goes on at Cloudflare, or ends there.
LEMMA Deletions ==
  ASSUME ShapeInv, NEW w \in Workers, Reconcile(w) \/ DeleteRecords(w) \/ Interrupt(w)
  PROVE  ShapeInv'
  <1> PICK t : t = tasks[w]
    OBVIOUS
  <1>0. /\ t \in SettingsTask /\ TaskOK(t) /\ requests \in Nat /\ \A r \in records' : Known(r)
        /\ settled \in [previous : Loaded, current : Loaded] \cup {None}
        /\ requests' = requests /\ UNCHANGED <<table, wanted, overtaken, settled>>
    BY MaxRequestsAssumption
       DEF ShapeInv, Reconcile, DeleteRecords, Interrupt, settingsHistory
  <1>1. SUFFICES \E u : TaskOK(u) /\ tasks' = [tasks EXCEPT ![w] = u]
    BY <1>0, LocalStep
  <1>2. TaskOK(IdleTask)
    BY <1>0, IdleOK
  <1>3. ASSUME NEW pc, Goto(w, pc) PROVE tasks' = [tasks EXCEPT ![w] = [t EXCEPT !.pc = pc]]
    BY <1>3 DEF Goto
  <1>4. CASE Reconcile(w)
    <2>1. t.pc = "reconcile" /\ t.previous \in Loaded
      BY <1>0, <1>4 DEF Reconcile, At, TaskOK
    <2>2. Goto(w, "delete") \/ Goto(w, "clear")
      BY <1>4 DEF Reconcile
    <2> QED
      BY <1>0, <1>3, <2>1, <2>2, GoOn
  <1>5. CASE DeleteRecords(w)
    <2> PICK u : u = [t EXCEPT !.pc = "deleting", !.left = Types]
      OBVIOUS
    <2>1. t.pc = "delete" /\ t.previous \in Loaded
      BY <1>0, <1>5 DEF DeleteRecords, At, TaskOK
    <2>2. \/ tasks' = [tasks EXCEPT ![w] = u] /\ t.previous.root # Blank
          \/ tasks' = [tasks EXCEPT ![w] = Purged(t, {}, {})]
      BY <1>5 DEF DeleteRecords
    <2>3. TaskOK(Purged(t, {}, {}))
      BY <1>0, <2>1, PurgedOK
    <2>4. ASSUME t.previous.root # Blank PROVE TaskOK(u)
      <3>1. t.previous.root \in Roots
        BY <2>1, <2>4 DEF Loaded
      <3>2. /\ u \in SettingsTask /\ u.pc = "deleting" /\ u.op = t.op /\ u.no = t.no
            /\ u.form = t.form /\ u.copy = t.copy /\ u.previous = t.previous
            /\ u.current = t.current /\ u.found = t.found
        BY <1>0 DEF SettingsTask, Labels
      <3> QED
        BY <1>0, <2>1, <3>1, <3>2 DEF TaskOK
    <2> QED
      BY <2>2, <2>3, <2>4
  <1>6. CASE Interrupt(w)
    BY <1>2, <1>6 DEF Interrupt, Return
  <1> QED
    BY <1>4, <1>5, <1>6

\* What a request that upserts its record has, and where it may end.
LEMMA Ending ==
  ASSUME ShapeInv, NEW w \in Workers, tasks[w].pc \in {"clear", "put"}
  PROVE  /\ TaskOK(IdleTask)
         /\ Complete(w) => tasks' = [tasks EXCEPT ![w] = IdleTask]
                           /\ settled' \in [previous : Loaded, current : Loaded] \cup {None}
  <1> PICK t : t = tasks[w]
    OBVIOUS
  <1>1. /\ TaskOK(t) /\ t.current \in Loaded /\ requests \in Nat
        /\ settled \in [previous : Loaded, current : Loaded] \cup {None}
    BY MaxRequestsAssumption DEF ShapeInv, SettingsTask
  <1>2. t.op = "save" => t.previous \in Loaded
    BY <1>1 DEF TaskOK
  <1> QED
    BY <1>1, <1>2, IdleOK DEF Complete, Return

\* A request clears the records in the way, and lists its own.
LEMMA Listings ==
  ASSUME ShapeInv, NEW w \in Workers, ClearConflicts(w) \/ ListOwn(w)
  PROVE  ShapeInv'
  <1> PICK t : t = tasks[w]
    OBVIOUS
  <1>0. /\ t \in SettingsTask /\ TaskOK(t) /\ requests \in Nat /\ \A r \in records : Known(r)
        /\ settled \in [previous : Loaded, current : Loaded] \cup {None}
        /\ requests' = requests /\ UNCHANGED <<table, wanted, overtaken>> /\ t.current \in Loaded
    BY MaxRequestsAssumption DEF ShapeInv, ClearConflicts, ListOwn, settingsHistory, SettingsTask
  <1>1. CASE ClearConflicts(w)
    <2> PICK u : u = [t EXCEPT !.pc = "clearing", !.left = Types \ {TypeOf[t.current.origin]}]
      OBVIOUS
    <2>1. /\ t.pc = "clear" /\ (t.op = "save" => t.previous \in Loaded)
          /\ records' = records /\ \A r \in records' : Known(r)
      BY <1>0, <1>1 DEF ClearConflicts, At, TaskOK
    <2>2. ASSUME Complete(w) PROVE ShapeInv'
      BY <1>0, <2>1, <2>2, Ending, LocalStep
    <2>3. ASSUME t.current \in [root : Roots, zone : Zones, origin : Targets], UNCHANGED settled,
                 tasks' = [tasks EXCEPT ![w] = u]
          PROVE  ShapeInv'
      <3>1. /\ u \in SettingsTask /\ u.pc = "clearing" /\ u.op = t.op /\ u.no = t.no
            /\ u.form = t.form /\ u.copy = t.copy /\ u.previous = t.previous
            /\ u.current = t.current /\ u.found = t.found
        BY <1>0 DEF SettingsTask, Labels
      <3>2. TaskOK(u)
        BY <1>0, <2>1, <2>3, <3>1 DEF TaskOK
      <3> QED
        BY <1>0, <2>1, <2>3, <3>2, LocalStep
    <2>4. \/ Complete(w)
          \/ /\ t.current.root # Blank /\ t.current.origin # Blank /\ t.current.zone # Blank
             /\ tasks' = [tasks EXCEPT ![w] = u] /\ UNCHANGED settled
      BY <1>0, <1>1 DEF ClearConflicts, ShapeInv
    <2> QED
      BY <1>0, <2>2, <2>3, <2>4 DEF Loaded
  <1>2. CASE ListOwn(w)
    <2> PICK found : found = Named(t.current.zone, HostOf(t.op, t.current.root),
                                   {TypeOf[t.current.origin]})
      OBVIOUS
    <2> PICK u : u = [t EXCEPT !.pc = "put", !.found = found]
      OBVIOUS
    <2>1. t.pc = "list" /\ t.current \in [root : Roots, zone : Zones, origin : Targets]
      BY <1>0, <1>2 DEF ListOwn, At, TaskOK
    <2>2. \A r \in found : Known(r) /\ r.name \in Hosts /\ r \in Record
      BY <1>0, <2>1, OwnNames DEF Named, Known
    <2>3. /\ u \in SettingsTask /\ u.pc = "put" /\ u.op = t.op /\ u.no = t.no /\ u.form = t.form
          /\ u.copy = t.copy /\ u.previous = t.previous /\ u.current = t.current /\ u.found = found
      BY <1>0, <2>2 DEF SettingsTask, Labels
    <2>4. TaskOK(u)
      BY <1>0, <2>1, <2>2, <2>3 DEF TaskOK
    <2>5. tasks' = [tasks EXCEPT ![w] = u] /\ UNCHANGED <<records, settled>>
      BY <1>2 DEF ListOwn, settingsHistory
    <2> QED
      BY <1>0, <2>4, <2>5, LocalStep
  <1> QED
    BY <1>1, <1>2

\* A request stores its record.
LEMMA Storings ==
  ASSUME ShapeInv, NEW w \in Workers, PutRecord(w) \/ PostRecord(w)
  PROVE  ShapeInv'
  <1> PICK t : t = tasks[w]
    OBVIOUS
  <1>a. /\ t \in SettingsTask /\ TaskOK(t) /\ requests \in Nat /\ \A r \in records : Known(r)
        /\ settled \in [previous : Loaded, current : Loaded] \cup {None}
    BY MaxRequestsAssumption DEF ShapeInv
  <1>b. t.pc = "put" /\ UNCHANGED <<table, requests, wanted, overtaken>>
    BY Zenon DEF PutRecord, PostRecord, At
  <1>0. requests' = requests
    BY <1>b
  <1>1. /\ t.current \in [root : Roots, zone : Zones, origin : Targets]
        /\ t.no \in Numbers /\ t.no \in Int /\ \A r \in t.found : Known(r)
    BY <1>a, <1>b, MaxRequestsAssumption DEF TaskOK, ShapeInv, Numbers
  <1>2. ASSUME Complete(w), \A r \in records' : Known(r) PROVE ShapeInv'
    BY <1>0, <1>a, <1>b, <1>2, Ending, LocalStep
  <1>3. ASSUME NEW record, Known(record), NEW others \in SUBSET records, NEW there \in BOOLEAN,
               Store(w, record, others, there)
        PROVE  ShapeInv'
    <2>1. CASE Complete(w) /\ records' = others \cup {record}
      BY <1>0, <1>a, <1>b, <1>2, <1>3, <2>1
    <2>2. CASE Return(w) /\ UNCHANGED <<records, settled>>
      BY <1>0, <1>a, <1>b, <2>2, Ending, LocalStep DEF Return
    <2> QED
      BY <1>3, <2>1, <2>2 DEF Store
  <1>4. CASE PutRecord(w)
    <2>1. PICK first \in t.found :
            \/ Complete(w) /\ UNCHANGED records
            \/ Store(w, [first EXCEPT !.content = t.current.origin],
                     {r \in records : r.id # first.id}, \E r \in records : r.id = first.id)
      BY <1>4 DEF PutRecord
    <2>2. Known([first EXCEPT !.content = t.current.origin])
      BY <1>1 DEF Known, Record
    <2> QED
      BY <1>0, <1>a, <1>b, <1>2, <1>3, <2>1, <2>2
  <1>5. CASE PostRecord(w)
    <2> PICK record :
          record = [id |-> t.no, zone |-> t.current.zone, name |-> HostOf(t.op, t.current.root),
                    type |-> TypeOf[t.current.origin], content |-> t.current.origin]
      OBVIOUS
    <2>1. Known(record)
      BY <1>1, OwnNames, TypeAssumption DEF Known, Record, Types
    <2>2. Store(w, record, records, TRUE)
      BY <1>5 DEF PostRecord
    <2> QED
      BY <1>3, <2>1, <2>2
  <1> QED
    BY <1>4, <1>5

\* The shape is inductive.
LEMMA StepShape == ShapeInv /\ [Next]_vars => ShapeInv'
  <1> SUFFICES ASSUME ShapeInv, [Next]_vars PROVE ShapeInv'
    OBVIOUS
  <1>1. CASE SettingsNext
    <2>1. PICK w \in Workers :
            \/ SaveSettings(w) \/ SaveGitHubSettings(w) \/ ApplyProject(w) \/ DeleteProject(w)
            \/ LoadSettings(w) \/ ReadSecrets(w) \/ ReadAll(w)
            \/ StoreDefaultRoot(w) \/ SaveDeployment(w) \/ SaveApplication(w)
            \/ Reconcile(w) \/ DeleteRecords(w) \/ Interrupt(w)
            \/ ClearConflicts(w) \/ ListDoomed(w) \/ DeleteDoomed(w)
            \/ ListOwn(w) \/ PutRecord(w) \/ PostRecord(w)
      BY Zenon, <1>1 DEF SettingsNext
    <2> QED
      BY <2>1, Beginnings, Readings, Writings, Deletions, Purges, Listings, Storings
  <1>2. CASE /\ UNCHANGED settingsVars
             /\ \/ requests' = requests
                \/ requests < MaxRequests /\ requests' = requests + 1
    <2>1. /\ requests \in Nat /\ requests' \in 0..MaxRequests /\ requests' >= requests
          /\ requests' \in Nat
      BY <1>2, MaxRequestsAssumption DEF ShapeInv
    <2>2. ASSUME NEW v \in Workers PROVE TaskOK(tasks[v])'
      <3> PICK t : t = tasks[v]
        OBVIOUS
      <3>1. TaskOK(t) /\ tasks'[v] = t
        BY <1>2 DEF ShapeInv, settingsVars
      <3>2. TaskOK(t)'
        BY <2>1, <3>1, TaskStays
      <3> QED
        BY <3>1, <3>2
    <2>3. TableOK(table)' /\ \A r \in records' : Known(r)'
      BY <1>2, <2>1 DEF ShapeInv, settingsVars, TableOK, Secret, Known
    <2> QED
      BY <1>2, <2>1, <2>2, <2>3 DEF ShapeInv, settingsVars, settingsHistory
  <1>3. \/ SettingsNext
        \/ UNCHANGED settingsVars /\ requests' = requests
        \/ UNCHANGED settingsVars /\ requests < MaxRequests /\ requests' = requests + 1
    BY Zenon, SettingsMove
  <1> QED
    BY Zenon, <1>1, <1>2, <1>3

\* In every behaviour the settings and the requests have their shape.
THEOREM ShapeHolds == Spec => []ShapeInv
  BY InitShape, StepShape, PTL DEF Spec

-----------------------------------------------------------------------------
(* Secrets.                                                                *)

\* The steps that touch the table store a copy of it.
LEMMA TableMoves ==
  ASSUME ShapeInv, [Next]_vars
  PROVE  \/ table' = table
         \/ \E w \in Workers : StoreDefaultRoot(w) \/ SaveDeployment(w) \/ SaveApplication(w)
  <1>1. CASE SettingsNext
    <2>1. PICK w \in Workers :
            \/ SaveSettings(w) \/ SaveGitHubSettings(w) \/ ApplyProject(w) \/ DeleteProject(w)
            \/ LoadSettings(w) \/ ReadSecrets(w) \/ ReadAll(w)
            \/ StoreDefaultRoot(w) \/ SaveDeployment(w) \/ SaveApplication(w)
            \/ Reconcile(w) \/ DeleteRecords(w) \/ Interrupt(w)
            \/ ClearConflicts(w) \/ ListDoomed(w) \/ DeleteDoomed(w)
            \/ ListOwn(w) \/ PutRecord(w) \/ PostRecord(w)
      BY Zenon, <1>1 DEF SettingsNext
    <2> QED
      BY Zenon, <2>1 DEF SaveSettings, SaveGitHubSettings, ApplyProject, DeleteProject, Begin,
         LoadSettings, ReadSecrets, ReadAll, Reconcile, DeleteRecords, Interrupt, ClearConflicts,
         ListDoomed, DeleteDoomed, ListOwn, PutRecord, PostRecord
  <1>2. CASE UNCHANGED settingsVars
    BY <1>2 DEF settingsVars
  <1> QED
    BY Zenon, <1>1, <1>2, SettingsMove

\* The copy a request stores is a table, in which its webhook secret is the one
\* it had read, unless it was submitted.
LEMMA CopiesStored ==
  ASSUME ShapeInv, NEW w \in Workers, StoreDefaultRoot(w) \/ SaveDeployment(w) \/ SaveApplication(w)
  PROVE  /\ \E copy : /\ TableOK(copy) /\ table' = Upsert(copy)
                      /\ copy.hook = tasks[w].copy.hook \/ copy.hook \in 1..requests
         /\ tasks[w].stale => overtaken'
         /\ tasks[w].pc \in {"default", "write"}
  <1> PICK t : t = tasks[w]
    OBVIOUS
  <1>0. /\ TaskOK(t) /\ TableOK(t.copy) /\ TableOK(table) /\ t.copy \in Table
        /\ requests \in 0..MaxRequests /\ requests \in Nat
    BY MaxRequestsAssumption DEF ShapeInv, TaskOK, TableOK
  <1>a. (t.stale => overtaken') /\ t.pc \in {"default", "write"}
    BY DEF StoreDefaultRoot, SaveDeployment, SaveApplication, Write, At
  <1>1. CASE StoreDefaultRoot(w)
    <2>1. table' = Upsert([t.copy EXCEPT !.root = CfgRoot])
      BY <1>1 DEF StoreDefaultRoot, Write
    <2>2. [t.copy EXCEPT !.root = CfgRoot].hook = t.copy.hook
      BY <1>0 DEF Table
    <2> QED
      BY <1>0, <1>a, <2>1, <2>2, Tables
  <1>2. CASE SaveDeployment(w)
    <2>1. /\ t.no \in 1..requests /\ t.form \in Form
          /\ table' = Upsert(Deployment(t.no, t.form, t.copy))
      BY <1>0, <1>2 DEF SaveDeployment, Write, At, TaskOK
    <2>2. Deployment(t.no, t.form, t.copy).hook = t.copy.hook
      BY <1>0 DEF Deployment, Table
    <2> QED
      BY <1>0, <1>a, <2>1, <2>2, Filled
  <1>3. CASE SaveApplication(w)
    <2>1. /\ t.no \in 1..requests /\ t.form \in AppForm
          /\ table' = Upsert(Application(t.no, t.form, t.copy))
      BY <1>0, <1>3 DEF SaveApplication, Write, At, TaskOK
    <2>2. Application(t.no, t.form, t.copy).hook \in {t.copy.hook, t.no}
      BY <1>0 DEF Application, Table
    <2> QED
      BY <1>0, <1>a, <2>1, <2>2, Filled
  <1> QED
    BY <1>1, <1>2, <1>3

-----------------------------------------------------------------------------
(* The records of others.                                                  *)

\* A step that leaves out of Cloudflare's records only some under names of
\* CaddyTower's leaves others their records.
LEMMA OnlyOwn ==
  ASSUME OthersRecordsStay,
         \A r \in records : r \in records' \/ r.name \in Hosts \/ r \notin Foreign
  PROVE  OthersRecordsStay'
  BY DEF OthersRecordsStay

\* A call by id leaves the records of other ids alone, and an id is a name.
LEMMA DoomedIsOwn ==
  ASSUME ShapeInv, NEW w \in Workers, NEW first \in tasks[w].found,
         NEW r \in Foreign, r.id = first.id
  PROVE  r.name \in Hosts
  <1>1. Known(first) /\ first.name \in Hosts
    BY DEF ShapeInv, TaskOK
  <1>2. PICK f \in Foreign : f.id = r.id /\ f.name = first.name
    BY <1>1, ForeignAssumption DEF Known
  <1> QED
    BY <1>1, <1>2, ForeignAssumption

\* The deletes and the put of a request are about names of CaddyTower's.
LEMMA OthersStep == ShapeInv /\ OthersRecordsStay /\ [Next]_vars => OthersRecordsStay'
  <1> SUFFICES ASSUME ShapeInv, OthersRecordsStay, [Next]_vars PROVE OthersRecordsStay'
    OBVIOUS
  <1>1. ASSUME UNCHANGED records PROVE OthersRecordsStay'
    BY <1>1 DEF OthersRecordsStay
  <1>2. CASE SettingsNext
    <2>1. PICK w \in Workers :
            \/ SaveSettings(w) \/ SaveGitHubSettings(w) \/ ApplyProject(w) \/ DeleteProject(w)
            \/ LoadSettings(w) \/ ReadSecrets(w) \/ ReadAll(w)
            \/ StoreDefaultRoot(w) \/ SaveDeployment(w) \/ SaveApplication(w)
            \/ Reconcile(w) \/ DeleteRecords(w) \/ Interrupt(w)
            \/ ClearConflicts(w) \/ ListDoomed(w) \/ DeleteDoomed(w)
            \/ ListOwn(w) \/ PutRecord(w) \/ PostRecord(w)
      BY Zenon, <1>2 DEF SettingsNext
    <2>2. \/ UNCHANGED records
          \/ DeleteDoomed(w) \/ PutRecord(w) \/ PostRecord(w)
      BY Zenon, <2>1 DEF SaveSettings, SaveGitHubSettings, ApplyProject, DeleteProject, Begin,
         LoadSettings, ReadSecrets, ReadAll, StoreDefaultRoot, SaveDeployment, SaveApplication,
         Reconcile, Interrupt, DeleteRecords, ClearConflicts, ListDoomed, ListOwn
    <2> PICK t : t = tasks[w]
      OBVIOUS
    <2>3. TaskOK(t) /\ t.current \in Loaded
      BY DEF ShapeInv, SettingsTask
    <2>4. ASSUME DeleteDoomed(w) PROVE OthersRecordsStay'
      <3>1. PICK first \in t.found :
              UNCHANGED records \/ records' = {r \in records : r.id # first.id}
        BY <2>4 DEF DeleteDoomed
      <3> QED
        BY <1>1, <3>1, DoomedIsOwn, OnlyOwn
    <2>6. ASSUME PutRecord(w) PROVE OthersRecordsStay'
      <3>1. PICK first \in t.found :
              \/ UNCHANGED records
              \/ \E record : records' = {r \in records : r.id # first.id} \cup {record}
        BY <2>6 DEF PutRecord, Store
      <3> QED
        BY <1>1, <3>1, DoomedIsOwn, OnlyOwn
    <2>7. ASSUME PostRecord(w) PROVE OthersRecordsStay'
      <3>1. UNCHANGED records \/ \E record : records' = records \cup {record}
        BY <2>7 DEF PostRecord, Store
      <3> QED
        BY <1>1, <3>1, OnlyOwn
    <2> QED
      BY <1>1, <2>2, <2>4, <2>6, <2>7
  <1>3. CASE UNCHANGED settingsVars
    BY <1>1, <1>3 DEF settingsVars
  <1> QED
    BY Zenon, <1>2, <1>3, SettingsMove

\* Whatever overlaps and wherever requests end, a record of somebody else's
\* under a name that is not CaddyTower's stays as it is.
THEOREM OthersStay == Spec => []OthersRecordsStay
  <1>1. Init => OthersRecordsStay
    BY DEF Init, SettingsInit, OthersRecordsStay
  <1> QED
    BY <1>1, ShapeHolds, OthersStep, PTL DEF Spec

-----------------------------------------------------------------------------
(* Saves.                                                                  *)

\* The copy a request is going to write is the table, for a GitHub form with the
\* webhook secret in force, unless it is out of date; the default root domain
\* goes where there is none.
Fresh(t) ==
  /\ t.pc \in {"default", "write"} \/ (t.pc = "read" /\ t.op = "github") =>
       t.stale \/ t.copy = IF t.op = "github" THEN Held(table) ELSE table
  /\ t.pc = "default" => OrBlank(t.copy.root) = Blank

SticksInv == SavesStick /\ \A w \in Workers : Fresh(tasks[w])

\* A step of one request that leaves the table alone.
LEMMA SticksLocal ==
  ASSUME SticksInv, NEW w \in Workers, NEW u, Fresh(u), tasks' = [tasks EXCEPT ![w] = u],
         UNCHANGED <<table, wanted, overtaken>>, tasks \in [Workers -> SettingsTask]
  PROVE  SticksInv'
  BY DEF SticksInv, SavesStick, Fresh

\* What is about to be stored of an up-to-date copy is what was asked for.
LEMMA AskedIsStored ==
  ASSUME NEW t \in Table, table = t, wanted = t, NEW no \in Numbers
  PROVE  /\ OrBlank(t.root) = Blank => Upsert([t EXCEPT !.root = CfgRoot])
               = [wanted EXCEPT !.root = IF OrBlank(@) = Blank THEN CfgRoot ELSE @]
         /\ \A form \in Form : Upsert(Deployment(no, form, t)) = AskedByDeployment(no, form)
         /\ \A form \in AppForm :
              Upsert(Application(no, form, Held(t))) = AskedByApplication(no, form)
  <1>0. /\ CfgRoot \in Roots \cup {Blank} /\ None \notin Roots \cup Zones \cup Targets \cup {Blank}
        /\ None \notin Numbers
    BY CfgAssumption, NullAssumption DEF Numbers
  <1>1. ASSUME NEW copy \in Table,
               \A k \in DOMAIN table : copy[k] # None \/ table[k] = None
        PROVE  Upsert(copy) = copy
    <2>1. /\ DOMAIN table = DOMAIN copy
          /\ Upsert(copy) = [k \in DOMAIN table |-> IF copy[k] = None THEN table[k] ELSE copy[k]]
          /\ copy = [k \in DOMAIN copy |-> copy[k]]
      BY DEF Upsert, Table
    <2>2. \A k \in DOMAIN table : (IF copy[k] = None THEN table[k] ELSE copy[k]) = copy[k]
      BY <1>1
    <2> QED
      BY <2>1, <2>2
  <1>2. ASSUME OrBlank(t.root) = Blank
        PROVE  Upsert([t EXCEPT !.root = CfgRoot])
                 = [wanted EXCEPT !.root = IF OrBlank(@) = Blank THEN CfgRoot ELSE @]
    <2> PICK copy : copy = [t EXCEPT !.root = CfgRoot]
      OBVIOUS
    <2>1. copy \in Table /\ \A k \in DOMAIN table : copy[k] # None \/ table[k] = None
      BY <1>0 DEF Table
    <2>2. copy = [wanted EXCEPT !.root = IF OrBlank(@) = Blank THEN CfgRoot ELSE @]
      BY <1>2
    <2> QED
      BY <1>1, <2>1, <2>2
  <1>3. ASSUME NEW form \in Form
        PROVE  Upsert(Deployment(no, form, t)) = AskedByDeployment(no, form)
    <2> PICK root : root = RootAfter(form, t)
      OBVIOUS
    <2> PICK copy : copy = [t EXCEPT !.root = root, !.zone = form.zone, !.origin = form.origin,
                                     !.token = IF form.token THEN no ELSE @]
      OBVIOUS
    <2>1. /\ root \in Roots \cup {Blank}
          /\ root = LET r == IF form.root = Blank THEN OrBlank(wanted.root) ELSE form.root
                    IN  IF r = Blank THEN CfgRoot ELSE r
      BY <1>0 DEF RootAfter, FirstNonBlank, OrBlank, Table, Form
    <2>2. copy = Deployment(no, form, t) /\ copy = AskedByDeployment(no, form)
      BY <2>1 DEF Deployment, AskedByDeployment
    <2>3. form.zone \in Zones \cup {Blank} /\ form.origin \in Targets \cup {Blank}
      BY DEF Form
    <2>4. copy \in Table
      <3> PICK token : token = IF form.token THEN no ELSE t.token
        OBVIOUS
      <3>1. token \in Numbers \cup {Blank, None}
        BY DEF Table
      <3>2. copy = [t EXCEPT !.root = root, !.zone = form.zone, !.origin = form.origin,
                             !.token = token]
        OBVIOUS
      <3>3. root \in Roots \cup {Blank, None} /\ form.zone \in Zones \cup {Blank, None}
            /\ form.origin \in Targets \cup {Blank, None}
        BY <2>1, <2>3
      <3> QED
        BY <3>1, <3>2, <3>3 DEF Table
    <2>5. /\ copy.root # None /\ copy.zone # None /\ copy.origin # None
          /\ copy.token # None \/ table.token = None
          /\ copy.app = table.app /\ copy.hook = table.hook /\ copy.key = table.key
      BY <1>0, <2>1, <2>3 DEF Table
    <2>6. DOMAIN table = {"root", "zone", "origin", "token", "app", "hook", "key"}
      BY DEF Table
    <2>7. \A k \in DOMAIN table : copy[k] # None \/ table[k] = None
      BY <2>5, <2>6
    <2> QED
      BY <1>1, <2>2, <2>4, <2>7
  <1>4. ASSUME NEW form \in AppForm
        PROVE  Upsert(Application(no, form, Held(t))) = AskedByApplication(no, form)
    <2> PICK hook, key : /\ hook = IF form.hook THEN no ELSE InForce(t.hook)
                         /\ key = IF form.key THEN no ELSE t.key
      OBVIOUS
    <2> PICK copy : copy = [t EXCEPT !.app = no, !.hook = hook, !.key = key]
      OBVIOUS
    <2>1. Held(t) = [t EXCEPT !.hook = InForce(t.hook)]
      BY DEF Held
    <2>2. copy = AskedByApplication(no, form)
      BY DEF AskedByApplication
    <2>3. copy = Application(no, form, Held(t))
      BY <2>1 DEF Application, Table
    <2>4. /\ hook \in Numbers \cup {0, None} /\ key \in Numbers \cup {None}
          /\ (hook = None => t.hook = None) /\ (key = None => t.key = None)
      BY <1>0, NullAssumption DEF InForce, Table, AppForm
    <2>5. copy \in Table
      <3> PICK held : held = Held(t)
        OBVIOUS
      <3>1. held \in Table
        BY HeldOK
      <3>2. Application(no, form, held) \in Table
        BY <3>1, ApplicationTable
      <3> QED
        BY <2>3, <3>2
    <2>6. /\ copy.root = t.root /\ copy.zone = t.zone /\ copy.origin = t.origin
          /\ copy.token = t.token /\ copy.app = no /\ copy.hook = hook /\ copy.key = key
          /\ DOMAIN t = {"root", "zone", "origin", "token", "app", "hook", "key"}
      BY DEF Table
    <2>7. \A k \in DOMAIN table : copy[k] # None \/ table[k] = None
      BY <1>0, <2>4, <2>6
    <2> QED
      BY <1>1, <2>2, <2>3, <2>5, <2>7
  <1> QED
    BY <1>2, <1>3, <1>4

\* A write after which only those requests hold a copy that must read again.
LEMMA SticksWrite ==
  ASSUME ShapeInv, SticksInv, NEW w \in Workers, NEW copy, NEW u, NEW asked,
         Write(w, copy, u, asked),
         u.pc \notin {"default", "write"} /\ (u.pc = "read" => u.op # "github"),
         ~overtaken /\ ~tasks[w].stale => Upsert(copy) = asked
  PROVE  SticksInv'
  <1>1. /\ table' = Upsert(copy) /\ overtaken' = (overtaken \/ tasks[w].stale)
        /\ ~overtaken' => wanted' = asked
        /\ tasks' = [v \in Workers |->
             IF v = w THEN u ELSE [tasks[v] EXCEPT !.stale = @ \/ tasks[v].pc \in Holding]]
    BY DEF Write
  <1>2. SavesStick'
    BY <1>1 DEF SavesStick
  <1>3. ASSUME NEW v \in Workers PROVE Fresh(tasks[v])'
    <2>1. CASE v = w
      BY <1>1, <2>1 DEF Fresh
    <2>2. CASE v # w
      <3> PICK t : t = tasks[v]
        OBVIOUS
      <3>1. /\ t \in SettingsTask /\ Fresh(t)
            /\ tasks'[v] = [t EXCEPT !.stale = t.stale \/ t.pc \in Holding]
        BY <1>1, <2>2 DEF ShapeInv, SticksInv
      <3>2. /\ tasks'[v].pc = t.pc /\ tasks'[v].op = t.op /\ tasks'[v].copy = t.copy
            /\ tasks'[v].stale = (t.stale \/ t.pc \in Holding)
        BY <3>1 DEF SettingsTask
      <3> QED
        BY <3>1, <3>2 DEF Fresh, Holding
    <2> QED
      BY <2>1, <2>2
  <1> QED
    BY <1>2, <1>3 DEF SticksInv

\* Beginning, reading and going on to Cloudflare keeps copies up to date.
LEMMA SticksRead ==
  ASSUME ShapeInv, SticksInv, NEW w \in Workers,
         LoadSettings(w) \/ ReadSecrets(w) \/ ReadAll(w)
  PROVE  SticksInv'
  <1> PICK t : t = tasks[w]
    OBVIOUS
  <1>0. /\ t \in SettingsTask /\ TaskOK(t) /\ requests \in Nat /\ TableOK(table) /\ table \in Table
        /\ tasks \in [Workers -> SettingsTask] /\ Fresh(t)
        /\ UNCHANGED <<table, wanted, overtaken>>
    BY MaxRequestsAssumption
       DEF ShapeInv, SticksInv, TableOK, LoadSettings, ReadSecrets, ReadAll, settingsHistory
  <1>1. SUFFICES \E u : Fresh(u) /\ tasks' = [tasks EXCEPT ![w] = u]
    BY <1>0, SticksLocal
  <1>2. CASE LoadSettings(w)
    <2>1. t.pc = "load" /\ Effective(table) \in Loaded
      BY <1>0, <1>2, Tables DEF LoadSettings, At
    <2>2. Fresh(AfterLoad(t, Effective(table)))
      BY <1>0, <2>1, AfterLoadOK DEF Fresh
    <2>3. OrBlank(table.root) = Blank
            => Fresh([t EXCEPT !.copy = table, !.stale = FALSE, !.pc = "default"])
      BY <1>0, <2>1 DEF Fresh, SettingsTask, TaskOK
    <2>4. \/ /\ OrBlank(table.root) = Blank
             /\ tasks' = [tasks EXCEPT ![w] =
                           [t EXCEPT !.copy = table, !.stale = FALSE, !.pc = "default"]]
          \/ tasks' = [tasks EXCEPT ![w] = AfterLoad(t, Effective(table))]
      BY <1>2 DEF LoadSettings
    <2> QED
      BY <2>2, <2>3, <2>4
  <1>3. CASE ReadSecrets(w)
    <2> PICK held : held = Held(table)
      OBVIOUS
    <2>1. /\ t.pc = "secrets"
          /\ \/ tasks' = [tasks EXCEPT ![w] = IdleTask]
             \/ tasks' = [tasks EXCEPT ![w] =
                           [t EXCEPT !.copy = held, !.stale = FALSE, !.pc = "read"]]
      BY <1>0, <1>3 DEF ReadSecrets, Return, At, Held
    <2>2. t.op = "github"
      BY <1>0, <2>1 DEF TaskOK
    <2>3. Fresh(IdleTask) /\ Fresh([t EXCEPT !.copy = held, !.stale = FALSE, !.pc = "read"])
      BY <1>0, <2>2 DEF Fresh, IdleTask, SettingsTask
    <2> QED
      BY <2>1, <2>3
  <1>4. CASE ReadAll(w)
    <2>1. t.pc = "read" /\ t.op \in {"save", "github"}
      BY <1>0, <1>4 DEF ReadAll, At, TaskOK
    <2>2. CASE t.op = "save"
      <3>1. tasks' = [tasks EXCEPT ![w] =
                       [t EXCEPT !.pc = "write", !.copy = table, !.stale = FALSE]]
        BY <1>4, <2>2 DEF ReadAll
      <3>2. Fresh([t EXCEPT !.pc = "write", !.copy = table, !.stale = FALSE])
        BY <1>0, <2>2 DEF Fresh, SettingsTask
      <3> QED
        BY <3>1, <3>2
    <2>3. CASE t.op = "github"
      <3> PICK filled : filled = [table EXCEPT !.hook = t.copy.hook,
                                               !.key = IF t.copy.key = None THEN @ ELSE t.copy.key]
        OBVIOUS
      <3>1. tasks' = [tasks EXCEPT ![w] = [t EXCEPT !.pc = "write", !.copy = filled]]
        BY <1>4, <2>3 DEF ReadAll
      <3>2. t.stale \/ t.copy = Held(table)
        BY <1>0, <2>1, <2>3 DEF Fresh
      <3>3. t.copy = Held(table) => filled = Held(table)
        BY <1>0 DEF Table, Held
      <3>4. Fresh([t EXCEPT !.pc = "write", !.copy = filled])
        BY <1>0, <2>3, <3>2, <3>3 DEF Fresh, SettingsTask
      <3> QED
        BY <3>1, <3>4
    <2> QED
      BY <2>1, <2>2, <2>3
  <1> QED
    BY <1>2, <1>3, <1>4

\* A write of an up-to-date copy stores what was asked for.
LEMMA SticksStored ==
  ASSUME ShapeInv, SticksInv, NEW w \in Workers,
         StoreDefaultRoot(w) \/ SaveDeployment(w) \/ SaveApplication(w)
  PROVE  SticksInv'
  <1> PICK t : t = tasks[w]
    OBVIOUS
  <1>0. /\ t \in SettingsTask /\ TaskOK(t) /\ requests \in 0..MaxRequests /\ requests \in Nat
        /\ table \in Table /\ TableOK(t.copy) /\ TableOK(table) /\ Fresh(t)
        /\ ~overtaken => table = wanted
    BY MaxRequestsAssumption DEF ShapeInv, SticksInv, SavesStick, TaskOK, TableOK
  <1>1. t.pc # "idle" => t.no \in 1..requests /\ t.no \in Numbers
    BY <1>0, MaxRequestsAssumption DEF TaskOK, Numbers
  <1>2. CASE StoreDefaultRoot(w)
    <2> PICK copy, u, asked :
          /\ copy = [t.copy EXCEPT !.root = CfgRoot]
          /\ u = AfterLoad(t, Effective(copy))
          /\ asked = [wanted EXCEPT !.root = IF OrBlank(@) = Blank THEN CfgRoot ELSE @]
      OBVIOUS
    <2>1. t.pc = "default" /\ Write(w, copy, u, asked)
      BY <1>2 DEF StoreDefaultRoot, At
    <2>2. u.pc \notin {"default", "write"} /\ u.op # "github"
      BY <1>0, <2>1, Tables, AfterLoadOK
    <2>4. t.op # "github"
      BY <1>0, <2>1 DEF TaskOK
    <2>3. ~overtaken /\ ~t.stale => Upsert(copy) = asked
      BY <1>0, <1>1, <2>1, <2>4, AskedIsStored DEF Fresh
    <2> QED
      BY <2>1, <2>2, <2>3, SticksWrite
  <1>3. CASE SaveDeployment(w)
    <2> PICK copy, u, asked :
          /\ copy = Deployment(t.no, t.form, t.copy)
          /\ u = [t EXCEPT !.pc = "load", !.copy = Empty]
          /\ asked = AskedByDeployment(t.no, t.form)
      OBVIOUS
    <2>1. /\ t.pc = "write" /\ t.op = "save" /\ t.form \in Form
          /\ Write(w, copy, u, asked) /\ u.pc = "load"
      BY <1>0, <1>3 DEF SaveDeployment, At, TaskOK, SettingsTask
    <2>2. ASSUME ~overtaken, ~t.stale PROVE Upsert(copy) = asked
      <3>1. t.copy \in Table /\ table = t.copy /\ wanted = t.copy /\ t.no \in Numbers
        BY <1>0, <1>1, <2>1, <2>2 DEF Fresh
      <3> QED
        BY ZenonT(30), <2>1, <3>1, AskedIsStored
    <2> QED
      BY <2>1, <2>2, SticksWrite
  <1>4. CASE SaveApplication(w)
    <2> PICK copy, asked :
          /\ copy = Application(t.no, t.form, t.copy) /\ asked = AskedByApplication(t.no, t.form)
      OBVIOUS
    <2>1. t.pc = "write" /\ t.op = "github" /\ t.form \in AppForm /\ Write(w, copy, IdleTask, asked)
      BY <1>0, <1>4 DEF SaveApplication, At, TaskOK
    <2>2. ASSUME ~overtaken, ~t.stale PROVE Upsert(copy) = asked
      <3>1. t.copy = Held(table) /\ wanted = table /\ t.no \in Numbers
        BY <1>0, <1>1, <2>1, <2>2 DEF Fresh
      <3> PICK now : now \in Table /\ table = now /\ wanted = now
        BY <1>0, <3>1
      <3>2. Upsert(Application(t.no, t.form, Held(now))) = AskedByApplication(t.no, t.form)
        BY <2>1, <3>1, AskedIsStored
      <3> QED
        BY <3>1, <3>2
    <2>3. IdleTask.pc = "idle"
      BY DEF IdleTask
    <2> QED
      BY <2>1, <2>2, <2>3, SticksWrite
  <1> QED
    BY <1>2, <1>3, <1>4

\* A request that begins has read nothing.
LEMMA SticksBegin ==
  ASSUME ShapeInv, SticksInv, NEW w \in Workers,
         SaveSettings(w) \/ SaveGitHubSettings(w) \/ ApplyProject(w) \/ DeleteProject(w)
  PROVE  SticksInv'
  <1>1. PICK task \in SettingsTask : task.pc \in {"load", "secrets"} /\ Begin(w, task)
    <2>1. IdleTask \in SettingsTask
      BY IdleOK, MaxRequestsAssumption DEF ShapeInv, TaskOK
    <2>2. CASE SaveSettings(w)
      BY <2>1, <2>2, FormsAssumption DEF SaveSettings, SettingsTask, Labels
    <2>3. CASE SaveGitHubSettings(w)
      BY <2>1, <2>3, FormsAssumption DEF SaveGitHubSettings, SettingsTask, Labels
    <2>4. CASE ApplyProject(w) \/ DeleteProject(w)
      BY <2>1, <2>4 DEF ApplyProject, DeleteProject, SettingsTask, Labels
    <2> QED
      BY <2>2, <2>3, <2>4
  <1>2. UNCHANGED <<table, wanted, overtaken>>
    BY <1>1 DEF Begin
  <1>3. ASSUME NEW v \in Workers PROVE Fresh(tasks[v])'
    <2>1. CASE v = w
      <3>1. tasks'[v].pc \in {"load", "secrets"}
        BY <1>1, <2>1 DEF Begin, SettingsTask
      <3> QED
        BY <3>1 DEF Fresh
    <2>2. CASE v # w
      <3> PICK t : t = tasks[v]
        OBVIOUS
      <3>1. t \in SettingsTask /\ Fresh(t) /\ tasks'[v] = [t EXCEPT !.alone = FALSE]
        BY <1>1, <2>2 DEF ShapeInv, SticksInv, Begin
      <3>2. /\ tasks'[v].pc = t.pc /\ tasks'[v].op = t.op /\ tasks'[v].copy = t.copy
            /\ tasks'[v].stale = t.stale
        BY <3>1 DEF SettingsTask
      <3> QED
        BY <1>2, <3>1, <3>2 DEF Fresh
    <2> QED
      BY <2>1, <2>2
  <1> QED
    BY <1>2, <1>3 DEF SticksInv, SavesStick

\* A request that deletes records holds no copy.
LEMMA PurgedFresh ==
  ASSUME NEW t \in SettingsTask, t.pc \in {"delete", "deleting", "clearing"},
         NEW found \in SUBSET Record, NEW left \in SUBSET Types
  PROVE  Fresh(Purged(t, found, left))
  <1> PICK u : u = Purged(t, found, left)
    OBVIOUS
  <1>0. PurgedTo(u, t, found, left)
    BY PurgedTask
  <1>1. u = IdleTask \/ u.pc \in {"delete", "deleting", "clearing", "list", "clear"}
    BY <1>0 DEF PurgedTo
  <1>2. IdleTask.pc = "idle"
    BY DEF IdleTask
  <1> QED
    BY <1>1, <1>2 DEF Fresh

\* Neither does any other at Cloudflare.
LEMMA SticksApart ==
  ASSUME ShapeInv, SticksInv, NEW w \in Workers,
         \/ Reconcile(w) \/ DeleteRecords(w) \/ Interrupt(w)
         \/ ClearConflicts(w) \/ ListDoomed(w) \/ DeleteDoomed(w)
         \/ ListOwn(w) \/ PutRecord(w) \/ PostRecord(w)
  PROVE  SticksInv'
  <1> PICK t : t = tasks[w]
    OBVIOUS
  <1>1. t \in SettingsTask /\ tasks \in [Workers -> SettingsTask]
    BY DEF ShapeInv
  <1>2. UNCHANGED <<table, wanted, overtaken>>
    BY Zenon DEF Reconcile, DeleteRecords, Interrupt, ClearConflicts, ListDoomed, DeleteDoomed, ListOwn,
       PutRecord, PostRecord, settingsHistory
  <1>0. /\ Fresh(IdleTask)
        /\ \A u : u.pc \notin {"default", "write", "read"} => Fresh(u)
    BY DEF Fresh, IdleTask
  <1>a. Return(w) \/ Complete(w) => tasks' = [tasks EXCEPT ![w] = IdleTask]
    BY DEF Return, Complete
  <1>b. \A pc, u : u = [t EXCEPT !.pc = pc] => u.pc = pc
    BY <1>1 DEF SettingsTask
  <1>3. \E u : Fresh(u) /\ tasks' = [tasks EXCEPT ![w] = u]
    <2>1. CASE Reconcile(w) \/ Interrupt(w)
      <3>1. \/ \E pc \in {"clear", "delete"} : tasks' = [tasks EXCEPT ![w] = [t EXCEPT !.pc = pc]]
            \/ tasks' = [tasks EXCEPT ![w] = IdleTask]
        BY <1>a, <2>1 DEF Reconcile, Interrupt, Goto
      <3> QED
        BY <1>0, <1>b, <3>1
    <2>2. CASE DeleteRecords(w)
      <3> PICK u : u = [t EXCEPT !.pc = "deleting", !.left = Types]
        OBVIOUS
      <3>1. \/ tasks' = [tasks EXCEPT ![w] = u]
            \/ t.pc = "delete" /\ tasks' = [tasks EXCEPT ![w] = Purged(t, {}, {})]
        BY <2>2 DEF DeleteRecords, At
      <3>2. u.pc = "deleting"
        BY <1>1 DEF SettingsTask
      <3> QED
        BY <1>0, <1>1, <3>1, <3>2, PurgedFresh
    <2>3. CASE ClearConflicts(w)
      <3> PICK u : u = [t EXCEPT !.pc = "clearing", !.left = Types \ {TypeOf[t.current.origin]}]
        OBVIOUS
      <3>1. u.pc = "clearing"
        BY <1>1 DEF SettingsTask
      <3>2. tasks' = [tasks EXCEPT ![w] = u] \/ tasks' = [tasks EXCEPT ![w] = IdleTask]
        BY <1>1, <1>a, <2>3 DEF ClearConflicts
      <3> QED
        BY <1>0, <3>1, <3>2
    <2>4. CASE ListDoomed(w)
      <3> PICK found, left : /\ found = Doomed(t, FirstOf(t.left))
                             /\ left = t.left \ {FirstOf(t.left)}
        OBVIOUS
      <3>1. /\ t.pc \in {"deleting", "clearing"}
            /\ tasks' = [tasks EXCEPT ![w] = Purged(t, found, left)]
        BY <2>4 DEF ListDoomed, At
      <3>2. found \in SUBSET Record /\ left \in SUBSET Types
        BY <1>1 DEF ShapeInv, Known, Doomed, Named, SettingsTask
      <3> QED
        BY <1>1, <3>1, <3>2, PurgedFresh
    <2>5. CASE DeleteDoomed(w)
      <3>1. PICK r \in t.found :
              \/ /\ t.pc \in {"deleting", "clearing"}
                 /\ tasks' = [tasks EXCEPT ![w] = Purged(t, t.found \ {r}, t.left)]
              \/ tasks' = [tasks EXCEPT ![w] = IdleTask]
        BY <1>a, <2>5 DEF DeleteDoomed, At
      <3>2. t.found \ {r} \in SUBSET Record /\ t.left \in SUBSET Types
        BY <1>1 DEF SettingsTask
      <3> QED
        BY <1>0, <1>1, <3>1, <3>2, PurgedFresh
    <2>6. CASE ListOwn(w)
      <3> PICK u : u = [t EXCEPT !.pc = "put",
                                 !.found = Named(t.current.zone, HostOf(t.op, t.current.root),
                                                 {TypeOf[t.current.origin]})]
        OBVIOUS
      <3>1. tasks' = [tasks EXCEPT ![w] = u] /\ u.pc = "put"
        BY <1>1, <2>6 DEF ListOwn, SettingsTask
      <3> QED
        BY <1>0, <3>1
    <2>7. CASE PutRecord(w) \/ PostRecord(w)
      <3>1. Return(w) \/ Complete(w)
        BY Zenon, <2>7 DEF PutRecord, PostRecord, Store
      <3> QED
        BY <1>0, <1>a, <3>1
    <2> QED
      BY <2>1, <2>2, <2>3, <2>4, <2>5, <2>6, <2>7
  <1> QED
    BY <1>1, <1>2, <1>3, SticksLocal

\* In every behaviour the copies are what they are said to be.
LEMMA SticksHolds == Spec => []SticksInv
  <1>1. Init => SticksInv
    <2>1. Fresh(IdleTask)
      BY DEF Fresh, IdleTask
    <2> QED
      BY <2>1 DEF Init, SettingsInit, SticksInv, SavesStick
  <1>2. ShapeInv /\ SticksInv /\ [Next]_vars => SticksInv'
    <2> SUFFICES ASSUME ShapeInv, SticksInv, [Next]_vars PROVE SticksInv'
      OBVIOUS
    <2>1. CASE SettingsNext
      <3>1. PICK w \in Workers :
              \/ SaveSettings(w) \/ SaveGitHubSettings(w) \/ ApplyProject(w) \/ DeleteProject(w)
              \/ LoadSettings(w) \/ ReadSecrets(w) \/ ReadAll(w)
              \/ StoreDefaultRoot(w) \/ SaveDeployment(w) \/ SaveApplication(w)
              \/ Reconcile(w) \/ DeleteRecords(w) \/ Interrupt(w)
              \/ ClearConflicts(w) \/ ListDoomed(w) \/ DeleteDoomed(w)
              \/ ListOwn(w) \/ PutRecord(w) \/ PostRecord(w)
        BY Zenon, <2>1 DEF SettingsNext
      <3> QED
        BY <3>1, SticksBegin, SticksRead, SticksStored, SticksApart
    <2>2. CASE UNCHANGED settingsVars
      BY <2>2 DEF settingsVars, settingsHistory, SticksInv, SavesStick, Fresh
    <2> QED
      BY Zenon, <2>1, <2>2, SettingsMove
  <1> QED
    BY <1>1, <1>2, ShapeHolds, PTL DEF Spec

\* Unless one write fell between another's read and write, the table holds
\* what the forms asked for, one after another, wherever a webhook secret left
\* blank comes from.
THEOREM SavesHold == Spec => []SavesStick
  <1>1. SticksInv => SavesStick
    BY DEF SticksInv
  <1> QED
    BY <1>1, SticksHolds, PTL

\* Under every interleaving of the two forms, with requests that end anywhere,
\* a secret once stored is replaced only by one that was submitted, or by the
\* environment's where one write fell between another's read and write.
THEOREM SecretsStay == Spec => SecretsKept
  <1>1. ShapeInv /\ SticksInv /\ [Next]_vars =>
          [\A k \in {"token", "hook", "key"} :
             table[k] # None =>
               \/ table'[k] \in Numbers /\ table'[k] <= requests
               \/ k = "hook" /\ table'[k] = 0 /\ (table[k] = 0 \/ overtaken')]_table
    <2> SUFFICES ASSUME ShapeInv, SticksInv, [Next]_vars, table' # table,
                        NEW k \in {"token", "hook", "key"}, table[k] # None
                 PROVE  \/ table'[k] \in Numbers /\ table'[k] <= requests
                        \/ k = "hook" /\ table'[k] = 0 /\ (table[k] = 0 \/ overtaken')
      OBVIOUS
    <2>1. PICK w \in Workers : StoreDefaultRoot(w) \/ SaveDeployment(w) \/ SaveApplication(w)
      BY TableMoves
    <2> PICK t : t = tasks[w]
      OBVIOUS
    <2>2. PICK copy : /\ TableOK(copy) /\ table' = Upsert(copy)
                      /\ copy.hook = t.copy.hook \/ copy.hook \in 1..requests
      BY <2>1, CopiesStored
    <2>3. /\ requests \in 0..MaxRequests /\ requests \in Nat /\ TableOK(table) /\ table \in Table
          /\ t.pc \in {"default", "write"} /\ (t.stale => overtaken') /\ Fresh(t)
      BY <2>1, CopiesStored, MaxRequestsAssumption DEF ShapeInv, SticksInv, TableOK
    <2>4. table'[k] \in 1..requests \/ (k = "hook" /\ table'[k] = 0)
      BY <2>2, <2>3, Tables
    <2>5. CASE table'[k] \in 1..requests
      BY <2>3, <2>5, MaxRequestsAssumption DEF Numbers
    <2>6. CASE k = "hook" /\ table'[k] = 0
      <3>1. SUFFICES ASSUME table.hook # 0 PROVE overtaken'
        BY <2>6
      <3>2. copy.hook = 0
        BY <2>2, <2>3, <2>6, <3>1, Tables
      <3>3. t.copy.hook = 0
        BY <2>2, <2>3, <3>2
      <3>4. Held(table).hook = table.hook
        BY <2>3, <2>6 DEF Held, InForce, Table
      <3> QED
        BY <2>3, <3>1, <3>3, <3>4 DEF Fresh
    <2> QED
      BY <2>4, <2>5, <2>6
  <1> QED
    BY <1>1, ShapeHolds, SticksHolds, PTL DEF Spec, SecretsKept

-----------------------------------------------------------------------------
(* The records of a save.                                                  *)

\* There is no record of these types under the name.
Absent(recs, zone, name, types) ==
  \A r \in recs : r.zone = zone /\ r.name = name => r.type \notin types

Token(tab) == tab.token \notin {Blank, None}

\* Where the root domain has changed, CaddyTower's name under the old one is gone.
OldGone(tab, recs, old, now) ==
  Token(tab) /\ Blank \notin {old.root, old.zone} /\ old.root # now.root
    => Absent(recs, old.zone, HostOf("save", old.root), Types)

\* Nothing of another type is under its name now.
NoConflict(recs, now) ==
  Absent(recs, now.zone, HostOf("save", now.root), Types \ {TypeOf[now.origin]})

\* What there still is of these types under the name has been found, or is of
\* a type that is still to be listed.
Remaining(recs, zone, name, types, left, found) ==
  \A r \in recs :
    r.zone = zone /\ r.name = name /\ r.type \in types => r.type \in left \/ r \in found

\* How far the deletes of a save have come, under the old name and the new one.
OldRemaining(recs, t, left, found) ==
  Remaining(recs, t.previous.zone, HostOf("save", t.previous.root), Types, left, found)
NewRemaining(recs, t, left, found) ==
  Remaining(recs, t.current.zone, HostOf("save", t.current.root), Types \ {TypeOf[t.current.origin]},
            left, found)

\* How far a save has come at Cloudflare, if nothing has run beside it.
SaveOK(tab, recs, t) ==
  t.op = "save" =>
    /\ t.pc = "deleting" => OldRemaining(recs, t, t.left, t.found)
    /\ t.pc = "clearing" => NewRemaining(recs, t, t.left, t.found)
    /\ t.pc \in {"clear", "clearing", "list", "put"} => OldGone(tab, recs, t.previous, t.current)
    /\ t.pc \in {"list", "put"} => NoConflict(recs, t.current)
    /\ t.pc = "put" =>
         t.found = {r \in recs : /\ r.zone = t.current.zone
                                 /\ r.name = HostOf("save", t.current.root)
                                 /\ r.type = TypeOf[t.current.origin]}

\* What a save beside which nothing ran leaves behind.
Done(tab, recs, old, now) ==
  /\ Token(tab) /\ Blank \notin {now.root, now.zone, now.origin} =>
       /\ \E r \in recs : /\ r.zone = now.zone /\ r.name = HostOf("save", now.root)
                          /\ r.type \in Types /\ r.content = now.origin
       /\ NoConflict(recs, now)
  /\ OldGone(tab, recs, old, now)

\* A request that is alone has the settings and the records to itself, and so
\* has nobody while the last save is what has come last.
SettledInv ==
  /\ \A w \in Workers : tasks[w].alone =>
       /\ settled = None
       /\ \A v \in Workers \ {w} : tasks[v].pc = "idle"
       /\ SaveOK(table, records, tasks[w])
  /\ settled # None =>
       /\ \A w \in Workers : tasks[w].pc = "idle"
       /\ Done(table, records, settled.previous, settled.current)

\* A request that is under way leaves behind what u says of it.
LEMMA SettledLocal ==
  ASSUME SettledInv, NEW w \in Workers, tasks[w].pc # "idle", NEW u, tasks'[w] = u,
         u.alone => tasks[w].alone /\ SaveOK(table', records', u),
         \A v \in Workers \ {w} : tasks'[v].pc = tasks[v].pc /\ tasks'[v].alone = tasks[v].alone,
         settled' = settled
  PROVE  SettledInv'
  <1>1. settled = None
    BY DEF SettledInv
  <1>2. \A v \in Workers \ {w} : ~tasks'[v].alone
    BY DEF SettledInv
  <1>3. tasks'[w].alone => \A v \in Workers \ {w} : tasks'[v].pc = "idle"
    BY DEF SettledInv
  <1> QED
    BY <1>1, <1>2, <1>3 DEF SettledInv

\* A request ends.
LEMMA SettledEnd ==
  ASSUME SettledInv, ShapeInv, NEW w \in Workers, tasks[w].pc # "idle", Return(w),
         settled' # None =>
           tasks[w].alone /\ Done(table', records', settled'.previous, settled'.current)
  PROVE  SettledInv'
  <1>1. /\ tasks'[w] = IdleTask /\ \A v \in Workers \ {w} : tasks'[v] = tasks[v]
        /\ IdleTask.pc = "idle" /\ IdleTask.alone = FALSE
    BY DEF Return, ShapeInv, IdleTask
  <1>2. \A v \in Workers : ~tasks'[v].alone
    BY <1>1 DEF SettledInv
  <1>3. settled' # None => \A v \in Workers : tasks'[v].pc = "idle"
    BY <1>1 DEF SettledInv
  <1> QED
    BY <1>2, <1>3 DEF SettledInv

\* A request begins, and the last save is no longer the last that came.
LEMMA SettledBegin ==
  ASSUME SettledInv, ShapeInv, NEW w \in Workers, NEW task \in SettingsTask, Begin(w, task),
         task.pc \in {"load", "secrets"}
  PROVE  SettledInv'
  <1>1. PICK alone : alone = \A v \in Workers : At(v, "idle")
    OBVIOUS
  <1>2. tasks' = [v \in Workers |->
          IF v = w THEN [task EXCEPT !.no = requests + 1, !.alone = alone]
                   ELSE [tasks[v] EXCEPT !.alone = FALSE]]
    BY <1>1 DEF Begin
  <1>3. settled' = None
    BY DEF Begin
  <1>4. PICK u : u = [task EXCEPT !.no = requests + 1, !.alone = alone]
    OBVIOUS
  <1>5. tasks'[w] = u /\ u.pc = task.pc /\ u.alone = alone
    BY <1>2, <1>4 DEF SettingsTask
  <1>6. \A v \in Workers \ {w} : tasks'[v].pc = tasks[v].pc /\ tasks'[v].alone = FALSE
    BY <1>2 DEF ShapeInv, SettingsTask
  <1>7. SaveOK(table', records', u)
    BY <1>5 DEF SaveOK
  <1>8. alone => \A v \in Workers \ {w} : tasks'[v].pc = "idle"
    BY <1>1, <1>6 DEF At
  <1> QED
    BY <1>3, <1>5, <1>6, <1>7, <1>8 DEF SettledInv

\* What is gone stays gone when records are deleted.
LEMMA AbsentStays ==
  ASSUME NEW recs, NEW fewer \in SUBSET recs, NEW tab, NEW old, NEW now
  PROVE  /\ OldGone(tab, recs, old, now) => OldGone(tab, fewer, old, now)
         /\ NoConflict(recs, now) => NoConflict(fewer, now)
  BY DEF OldGone, NoConflict, Absent

\* Neither does the record of a save stand in its own way.
LEMMA OwnRecordFits ==
  ASSUME NEW recs, NEW fewer \in SUBSET recs, NEW tab, NEW old, NEW now, NEW r,
         OldGone(tab, recs, old, now), NoConflict(recs, now), now.origin \in Targets,
         r.zone = now.zone, r.name = HostOf("save", now.root), r.type = TypeOf[now.origin],
         r.content = now.origin
  PROVE  Done(tab, fewer \cup {r}, old, now)
  <1>1. r.type \in Types
    BY TypeAssumption DEF Types
  <1>2. NoConflict(fewer \cup {r}, now)
    BY DEF NoConflict, Absent
  <1>3. OldGone(tab, fewer \cup {r}, old, now)
    BY DEF OldGone, Absent, HostOf
  <1> QED
    BY <1>1, <1>2, <1>3 DEF Done

\* A request goes on with the settings it has loaded; a save has not come to
\* Cloudflare yet.
LEMMA AfterLoadAlone ==
  ASSUME NEW t \in SettingsTask, t.op \in {"save", "deploy", "remove"}, NEW loaded
  PROVE  /\ AfterLoad(t, loaded).alone = t.alone /\ AfterLoad(t, loaded).op = t.op
         /\ t.op = "save" => AfterLoad(t, loaded).pc \in {"read", "reconcile"}
  <1> DEFINE s == [t EXCEPT !.copy = Empty, !.stale = FALSE]
  <1>1. /\ DOMAIN s = DOMAIN t /\ s.op = t.op /\ s.alone = t.alone /\ s.previous = t.previous
        /\ {"pc", "op", "alone", "previous", "current"} \subseteq DOMAIN s
        /\ s = [x \in DOMAIN s |-> s[x]]
    BY DEF SettingsTask
  <1> HIDE DEF s
  <1>2. CASE s.op = "save" /\ s.previous = None
    <2>1. AfterLoad(t, loaded) = [s EXCEPT !.previous = loaded, !.pc = "read"]
      BY <1>2 DEF AfterLoad, s
    <2> QED
      BY <1>1, <1>2, <2>1
  <1>3. CASE s.op = "save" /\ s.previous # None
    <2>1. AfterLoad(t, loaded) = [s EXCEPT !.current = loaded, !.pc = "reconcile"]
      BY <1>3 DEF AfterLoad, s
    <2> QED
      BY <1>1, <1>3, <2>1
  <1>4. CASE s.op = "deploy"
    <2>1. AfterLoad(t, loaded) = [s EXCEPT !.current = loaded, !.pc = "clear"]
      BY <1>4 DEF AfterLoad, s
    <2> QED
      BY <1>1, <1>4, <2>1
  <1>5. CASE s.op = "remove"
    <2>1. AfterLoad(t, loaded) = [s EXCEPT !.previous = loaded, !.pc = "delete"]
      BY <1>5 DEF AfterLoad, s
    <2> QED
      BY <1>1, <1>5, <2>1
  <1> QED
    BY <1>1, <1>2, <1>3, <1>4, <1>5


\* A request goes on by itself.
LEMMA SettledOn ==
  ASSUME SettledInv, ShapeInv, NEW w \in Workers, tasks[w].pc # "idle", NEW u,
         tasks' = [tasks EXCEPT ![w] = u], settled' = settled,
         u.alone => tasks[w].alone /\ SaveOK(table', records', u)
  PROVE  SettledInv'
  <1>1. tasks'[w] = u /\ \A v \in Workers \ {w} : tasks'[v] = tasks[v]
    BY DEF ShapeInv
  <1> QED
    BY <1>1, SettledLocal

\* The places at which something is known of the records of a save.
Working == {"deleting", "clear", "clearing", "list", "put"}

\* A save that is not at Cloudflare yet.
LEMMA EarlySave ==
  ASSUME NEW tab, NEW recs, NEW u, u.op = "save" => u.pc \notin Working
  PROVE  SaveOK(tab, recs, u)
  BY DEF SaveOK, Working

\* The requests begin.
LEMMA SettledBeginnings ==
  ASSUME SettledInv, ShapeInv, NEW w \in Workers,
         SaveSettings(w) \/ SaveGitHubSettings(w) \/ ApplyProject(w) \/ DeleteProject(w)
  PROVE  SettledInv'
  <1>0. IdleTask \in SettingsTask
    BY IdleOK, MaxRequestsAssumption DEF ShapeInv, TaskOK
  <1>1. CASE SaveSettings(w)
    <2> PICK form \in Forms : Begin(w, [IdleTask EXCEPT !.op = "save", !.pc = "load", !.form = form])
      BY <1>1 DEF SaveSettings
    <2> PICK task : task = [IdleTask EXCEPT !.op = "save", !.pc = "load", !.form = form]
      OBVIOUS
    <2>1. task \in SettingsTask /\ task.pc = "load"
      BY <1>0, FormsAssumption DEF SettingsTask, Labels
    <2> QED
      BY <2>1, SettledBegin
  <1>2. CASE SaveGitHubSettings(w)
    <2> PICK form \in AppForms :
          Begin(w, [IdleTask EXCEPT !.op = "github", !.pc = "secrets", !.form = form])
      BY <1>2 DEF SaveGitHubSettings
    <2> PICK task : task = [IdleTask EXCEPT !.op = "github", !.pc = "secrets", !.form = form]
      OBVIOUS
    <2>1. task \in SettingsTask /\ task.pc = "secrets"
      BY <1>0, FormsAssumption DEF SettingsTask, Labels, AppForm
    <2> QED
      BY <2>1, SettledBegin
  <1>3. CASE ApplyProject(w) \/ DeleteProject(w)
    <2> PICK op \in {"deploy", "remove"} : Begin(w, [IdleTask EXCEPT !.op = op, !.pc = "load"])
      BY <1>3 DEF ApplyProject, DeleteProject
    <2> PICK task : task = [IdleTask EXCEPT !.op = op, !.pc = "load"]
      OBVIOUS
    <2>1. task \in SettingsTask /\ task.pc = "load"
      BY <1>0 DEF SettingsTask, Labels
    <2> QED
      BY <2>1, SettledBegin
  <1> QED
    BY <1>1, <1>2, <1>3

\* The requests read, a save before it is at Cloudflare.
LEMMA SettledReadings ==
  ASSUME SettledInv, ShapeInv, NEW w \in Workers, LoadSettings(w) \/ ReadSecrets(w) \/ ReadAll(w)
  PROVE  SettledInv'
  <1> PICK t : t = tasks[w]
    OBVIOUS
  <1>0. t \in SettingsTask /\ TaskOK(t) /\ UNCHANGED <<table, records, settled>>
    BY DEF ShapeInv, LoadSettings, ReadSecrets, ReadAll, settingsHistory
  <1>1. t.pc \in {"load", "secrets", "read"}
    BY DEF LoadSettings, ReadSecrets, ReadAll, At
  <1>2. SUFFICES \E u : /\ tasks' = [tasks EXCEPT ![w] = u]
                        /\ u.alone => t.alone
                        /\ u.op = "save" => u.pc \notin Working
    BY <1>0, <1>1, SettledOn, EarlySave
  <1>3. CASE LoadSettings(w)
    <2>1. t.pc = "load" /\ t.op \in {"save", "deploy", "remove"}
      BY <1>0, <1>3 DEF LoadSettings, At, TaskOK
    <2>2. \/ tasks' = [tasks EXCEPT ![w] =
                        [t EXCEPT !.copy = table, !.stale = FALSE, !.pc = "default"]]
          \/ tasks' = [tasks EXCEPT ![w] = AfterLoad(t, Effective(table))]
      BY <1>3 DEF LoadSettings
    <2>3. CASE tasks' = [tasks EXCEPT ![w] = AfterLoad(t, Effective(table))]
      <3> PICK u : u = AfterLoad(t, Effective(table))
        OBVIOUS
      <3>1. u.alone = t.alone /\ u.op = t.op /\ (t.op = "save" => u.pc \in {"read", "reconcile"})
        BY <1>0, <2>1, AfterLoadAlone
      <3> QED
        BY <2>3, <3>1 DEF Working
    <2>4. CASE tasks' = [tasks EXCEPT ![w] =
                          [t EXCEPT !.copy = table, !.stale = FALSE, !.pc = "default"]]
      <3> PICK u : u = [t EXCEPT !.copy = table, !.stale = FALSE, !.pc = "default"]
        OBVIOUS
      <3>1. u.alone = t.alone /\ u.pc = "default"
        BY <1>0 DEF SettingsTask
      <3> QED
        BY <2>4, <3>1 DEF Working
    <2> QED
      BY <2>2, <2>3, <2>4
  <1>4. CASE ReadSecrets(w)
    <2> PICK held : held = Held(table)
      OBVIOUS
    <2>1. \/ tasks' = [tasks EXCEPT ![w] = IdleTask]
          \/ tasks' = [tasks EXCEPT ![w] = [t EXCEPT !.copy = held, !.stale = FALSE, !.pc = "read"]]
      BY <1>0, <1>4 DEF ReadSecrets, Return, SettingsTask, ShapeInv, Held
    <2>2. /\ IdleTask.pc = "idle" /\ IdleTask.alone = FALSE
      BY DEF IdleTask
    <2>3. PICK u : u = [t EXCEPT !.copy = held, !.stale = FALSE, !.pc = "read"]
      OBVIOUS
    <2>4. u.alone = t.alone /\ u.pc = "read"
      BY <1>0, <2>3 DEF SettingsTask
    <2> QED
      BY <2>1, <2>2, <2>3, <2>4 DEF Working
  <1>5. CASE ReadAll(w)
    <2> PICK filled : filled = [table EXCEPT !.hook = t.copy.hook,
                                             !.key = IF t.copy.key = None THEN @ ELSE t.copy.key]
      OBVIOUS
    <2> PICK u : u = IF t.op = "save"
                     THEN [t EXCEPT !.pc = "write", !.copy = table, !.stale = FALSE]
                     ELSE [t EXCEPT !.pc = "write", !.copy = filled]
      OBVIOUS
    <2>1. tasks' = [tasks EXCEPT ![w] = u]
      BY <1>5 DEF ReadAll
    <2>2. u.alone = t.alone /\ u.pc = "write"
      BY <1>0 DEF SettingsTask
    <2> QED
      BY <2>1, <2>2 DEF Working
  <1> QED
    BY <1>3, <1>4, <1>5

\* The requests write, a save before it is at Cloudflare.
LEMMA SettledWritings ==
  ASSUME SettledInv, ShapeInv, NEW w \in Workers,
         StoreDefaultRoot(w) \/ SaveDeployment(w) \/ SaveApplication(w)
  PROVE  SettledInv'
  <1> PICK t : t = tasks[w]
    OBVIOUS
  <1>0. t \in SettingsTask /\ TaskOK(t) /\ UNCHANGED <<records, settled>>
    BY DEF ShapeInv, StoreDefaultRoot, SaveDeployment, SaveApplication
  <1>1. t.pc \in {"default", "write"}
    BY DEF StoreDefaultRoot, SaveDeployment, SaveApplication, At
  <1>2. ASSUME NEW copy, NEW u, NEW asked, Write(w, copy, u, asked), u.alone => t.alone,
               u.op = "save" => u.pc \notin Working
        PROVE  SettledInv'
    <2>1. tasks'[w] = u
      BY <1>2 DEF Write
    <2>2. ASSUME NEW v \in Workers \ {w}
          PROVE  tasks'[v].pc = tasks[v].pc /\ tasks'[v].alone = tasks[v].alone
      <3>1. PICK b : tasks'[v] = [tasks[v] EXCEPT !.stale = b]
        BY <1>2 DEF Write
      <3> QED
        BY <3>1 DEF ShapeInv, SettingsTask
    <2>3. SaveOK(table', records', u)
      BY <1>2, EarlySave
    <2> QED
      BY <1>0, <1>1, <1>2, <2>1, <2>2, <2>3, SettledLocal
  <1>3. CASE StoreDefaultRoot(w)
    <2> PICK copy, u, asked :
          /\ copy = [t.copy EXCEPT !.root = CfgRoot]
          /\ u = AfterLoad(t, Effective(copy))
          /\ asked = [wanted EXCEPT !.root = IF OrBlank(@) = Blank THEN CfgRoot ELSE @]
      OBVIOUS
    <2>1. Write(w, copy, u, asked) /\ t.op \in {"save", "deploy", "remove"}
      BY <1>0, <1>3 DEF StoreDefaultRoot, At, TaskOK
    <2>2. u.alone = t.alone /\ u.op = t.op /\ (t.op = "save" => u.pc \in {"read", "reconcile"})
      BY <1>0, <2>1, AfterLoadAlone
    <2> QED
      BY <1>2, <2>1, <2>2 DEF Working
  <1>4. CASE SaveDeployment(w)
    <2> PICK u : u = [t EXCEPT !.pc = "load", !.copy = Empty]
      OBVIOUS
    <2>1. Write(w, Deployment(t.no, t.form, t.copy), u, AskedByDeployment(t.no, t.form))
      BY <1>4 DEF SaveDeployment
    <2>2. u.alone = t.alone /\ u.pc = "load"
      BY <1>0 DEF SettingsTask
    <2> QED
      BY <1>2, <2>1, <2>2 DEF Working
  <1>5. CASE SaveApplication(w)
    <2>1. Write(w, Application(t.no, t.form, t.copy), IdleTask, AskedByApplication(t.no, t.form))
      BY <1>5 DEF SaveApplication
    <2>2. /\ IdleTask.pc = "idle" /\ IdleTask.alone = FALSE
      BY DEF IdleTask
    <2> QED
      BY <1>2, <2>1, <2>2 DEF Working
  <1> QED
    BY <1>3, <1>4, <1>5

\* What a request that is at Cloudflare holds, and what it knows of the others.
LEMMA AtCloudflare ==
  ASSUME SettledInv, ShapeInv, NEW w \in Workers, tasks[w].pc # "idle"
  PROVE  /\ settled = None /\ tasks[w] \in SettingsTask /\ TaskOK(tasks[w])
         /\ tasks[w].alone => SaveOK(table, records, tasks[w])
         /\ \A pc : LET u == [tasks[w] EXCEPT !.pc = pc]
                    IN  /\ u.pc = pc /\ u.op = tasks[w].op /\ u.alone = tasks[w].alone
                        /\ u.previous = tasks[w].previous /\ u.current = tasks[w].current
  BY DEF SettledInv, ShapeInv, SettingsTask

\* A request that has records to delete and types to list, or none any more.
LEMMA SettledPurged ==
  ASSUME SettledInv, ShapeInv, NEW w \in Workers, NEW t, t = tasks[w],
         t.pc \in {"delete", "deleting", "clearing"},
         NEW found \in SUBSET Record, NEW left \in SUBSET Types,
         tasks' = [tasks EXCEPT ![w] = Purged(t, found, left)],
         UNCHANGED <<table, settled>>, records' \in SUBSET records,
         t.alone /\ t.op = "save" =>
           /\ t.pc = "deleting" => OldRemaining(records', t, left, found)
           /\ t.pc = "clearing" => NewRemaining(records', t, left, found)
           /\ t.pc = "delete" => /\ found = {} /\ left = {}
                                 /\ OldGone(table, records', t.previous, t.current)
  PROVE  SettledInv'
  <1> PICK u : u = Purged(t, found, left)
    OBVIOUS
  <1>0. /\ t \in SettingsTask /\ (t.alone => SaveOK(table, records, t))
        /\ tasks' = [tasks EXCEPT ![w] = u] /\ table' = table /\ settled' = settled
    BY AtCloudflare
  <1>a. PurgedTo(u, t, found, left)
    BY <1>0, PurgedTask
  <1>1. \/ u = IdleTask
        \/ /\ u.op = t.op /\ u.previous = t.previous /\ u.current = t.current
           /\ u.found = found /\ u.left = left /\ u.alone = t.alone
           /\ \/ u.pc = t.pc /\ (found # {} \/ left # {})
              \/ found = {} /\ left = {} /\ t.pc = "clearing" /\ u.pc = "list"
              \/ found = {} /\ left = {} /\ t.pc # "clearing" /\ u.pc = "clear"
    BY <1>a DEF PurgedTo
  <1>2. IdleTask.alone = FALSE
    BY DEF IdleTask
  <1>3. ASSUME u # IdleTask, u.alone, u.op = "save" PROVE SaveOK(table, records', u)
    <2>1. t.alone /\ t.op = "save" /\ SaveOK(table, records, t)
      BY <1>0, <1>1, <1>3
    <2>2. t.pc = "clearing" => OldGone(table, records', t.previous, t.current)
      <3>1. PICK fewer : fewer = records' /\ fewer \in SUBSET records
        OBVIOUS
      <3> QED
        BY <2>1, <3>1, AbsentStays DEF SaveOK
    <2>3. CASE u.pc = t.pc /\ (found # {} \/ left # {})
      <3>1. t.pc # "delete" => /\ t.pc = "deleting" => OldRemaining(records', u, u.left, u.found)
                               /\ t.pc = "clearing" => NewRemaining(records', u, u.left, u.found)
        BY <1>1, <1>3, <2>1 DEF OldRemaining, NewRemaining
      <3>2. t.pc = "clearing" => OldGone(table, records', u.previous, u.current)
        BY <1>1, <1>3, <2>2
      <3> QED
        BY <2>1, <2>3, <3>1, <3>2 DEF SaveOK
    <2>4. CASE found = {} /\ left = {} /\ t.pc = "clearing" /\ u.pc = "list"
      <3>1. NoConflict(records', t.current)
        BY <2>1, <2>4 DEF NewRemaining, Remaining, NoConflict, Absent
      <3>2. NoConflict(records', u.current) /\ OldGone(table, records', u.previous, u.current)
        BY <1>1, <1>3, <2>2, <2>4, <3>1
      <3> QED
        BY <2>4, <3>2 DEF SaveOK
    <2>5. CASE found = {} /\ left = {} /\ t.pc # "clearing" /\ u.pc = "clear"
      <3>1. OldGone(table, records', t.previous, t.current)
        BY <2>1, <2>5 DEF OldRemaining, Remaining, OldGone, Absent
      <3>2. OldGone(table, records', u.previous, u.current)
        BY <1>1, <1>3, <3>1
      <3> QED
        BY <2>5, <3>2 DEF SaveOK
    <2> QED
      BY <1>1, <1>3, <2>3, <2>4, <2>5
  <1>4. u.alone => t.alone /\ SaveOK(table', records', u)
    <2>1. u.alone => u # IdleTask
      BY <1>2
    <2>2. u.op # "save" => SaveOK(table, records', u)
      BY DEF SaveOK
    <2> QED
      BY <1>0, <1>1, <1>3, <2>1, <2>2
  <1> QED
    BY <1>0, <1>4, SettledOn

\* A save lists the records that are to go, of one type after another, and
\* deletes them one by one.
LEMMA SettledPurges ==
  ASSUME SettledInv, ShapeInv, NEW w \in Workers, ListDoomed(w) \/ DeleteDoomed(w)
  PROVE  SettledInv'
  <1> PICK t : t = tasks[w]
    OBVIOUS
  <1>a. /\ t.pc \in {"deleting", "clearing"} /\ t.pc # "idle" /\ UNCHANGED <<table, settled>>
    BY DEF ListDoomed, DeleteDoomed, At, settingsHistory
  <1>0. /\ settled = None /\ t \in SettingsTask /\ TaskOK(t)
        /\ t.alone => SaveOK(table, records, t)
    BY <1>a, AtCloudflare
  <1>b. t.left \in SUBSET Types /\ t.found \in SUBSET Record /\ records \in SUBSET Record
    BY <1>0 DEF SettingsTask, ShapeInv, Known
  <1>1. CASE ListDoomed(w)
    <2> PICK type : type = FirstOf(t.left)
      OBVIOUS
    <2> PICK found, left : found = Doomed(t, type) /\ left = t.left \ {type}
      OBVIOUS
    <2>1. /\ tasks' = [tasks EXCEPT ![w] = Purged(t, found, left)]
          /\ records' = records /\ t.found = {}
      BY <1>1 DEF ListDoomed, settingsHistory
    <2>2. found \in SUBSET Record /\ left \in SUBSET Types
      BY <1>b DEF Doomed, Named
    <2>3. ASSUME t.alone, t.op = "save"
          PROVE  /\ t.pc = "deleting" => OldRemaining(records', t, left, found)
                 /\ t.pc = "clearing" => NewRemaining(records', t, left, found)
      <3>1. CASE t.pc = "deleting"
        <4>1. OldRemaining(records, t, t.left, {})
          BY <1>0, <2>1, <2>3, <3>1 DEF SaveOK
        <4> QED
          BY <2>1, <2>3, <3>1, <4>1 DEF OldRemaining, Remaining, Doomed, Named
      <3>2. CASE t.pc = "clearing"
        <4>1. NewRemaining(records, t, t.left, {})
          BY <1>0, <2>1, <2>3, <3>2 DEF SaveOK
        <4> QED
          BY <2>1, <2>3, <3>2, <4>1 DEF NewRemaining, Remaining, Doomed, Named
      <3> QED
        BY <1>a, <3>1, <3>2
    <2> QED
      BY <1>a, <2>1, <2>2, <2>3, SettledPurged
  <1>2. CASE DeleteDoomed(w)
    <2>1. PICK r \in t.found :
            \/ /\ records' = {s \in records : s.id # r.id}
               /\ tasks' = [tasks EXCEPT ![w] = Purged(t, t.found \ {r}, t.left)]
            \/ Return(w) /\ UNCHANGED records
      BY <1>2 DEF DeleteDoomed
    <2>2. CASE /\ records' = {s \in records : s.id # r.id}
               /\ tasks' = [tasks EXCEPT ![w] = Purged(t, t.found \ {r}, t.left)]
      <3> PICK found : found = t.found \ {r}
        OBVIOUS
      <3>1. found \in SUBSET Record /\ records' \in SUBSET records
        BY <1>b, <2>2
      <3>2. ASSUME t.alone, t.op = "save"
            PROVE  /\ t.pc = "deleting" => OldRemaining(records', t, t.left, found)
                   /\ t.pc = "clearing" => NewRemaining(records', t, t.left, found)
        BY <1>0, <2>2, <3>2 DEF SaveOK, OldRemaining, NewRemaining, Remaining
      <3> QED
        BY <1>a, <1>b, <2>2, <3>1, <3>2, SettledPurged
    <2>3. CASE Return(w) /\ UNCHANGED records
      BY <1>a, <1>0, <2>3, SettledEnd
    <2> QED
      BY <2>1, <2>2, <2>3
  <1> QED
    BY <1>1, <1>2

\* A save deletes the records of the old name, before it turns to the new one.
LEMMA SettledDeletions ==
  ASSUME SettledInv, ShapeInv, NEW w \in Workers, Reconcile(w) \/ DeleteRecords(w) \/ Interrupt(w)
  PROVE  SettledInv'
  <1> PICK t : t = tasks[w]
    OBVIOUS
  <1>a. t.pc # "idle" /\ settled' = settled /\ table' = table
    BY DEF Reconcile, DeleteRecords, Interrupt, At, settingsHistory
  <1>b. settled = None /\ t \in SettingsTask /\ TaskOK(t)
    BY <1>a, AtCloudflare
  <1>0. ASSUME Return(w) PROVE SettledInv'
    BY <1>0, <1>a, <1>b, SettledEnd
  <1>1. ASSUME NEW pc, Goto(w, pc),
               t.op = "save" /\ pc \in Working =>
                 pc = "clear" /\ OldGone(table', records', t.previous, t.current)
        PROVE  SettledInv'
    <2> PICK u : u = [t EXCEPT !.pc = pc]
      OBVIOUS
    <2>1. /\ u.pc = pc /\ u.op = t.op /\ u.alone = t.alone
          /\ u.previous = t.previous /\ u.current = t.current
      BY <1>a, AtCloudflare
    <2>2. tasks' = [tasks EXCEPT ![w] = u]
      BY <1>1 DEF Goto
    <2>3. SaveOK(table', records', u)
      BY <1>1, <2>1 DEF SaveOK, Working
    <2> QED
      BY <1>a, <2>1, <2>2, <2>3, SettledOn
  <1>2. CASE Reconcile(w)
    <2>1. CASE t.previous.root # Blank /\ t.previous.root # t.current.root
      BY <1>1, <1>2, <2>1 DEF Reconcile, Working
    <2>2. CASE ~(t.previous.root # Blank /\ t.previous.root # t.current.root)
      <3>1. OldGone(table', records', t.previous, t.current)
        BY <2>2 DEF OldGone
      <3> QED
        BY <1>1, <1>2, <2>2, <3>1 DEF Reconcile
    <2> QED
      BY <2>1, <2>2
  <1>3. CASE DeleteRecords(w)
    <2> PICK u : u = [t EXCEPT !.pc = "deleting", !.left = Types]
      OBVIOUS
    <2>1. /\ t.pc = "delete" /\ records' = records
          /\ \/ tasks' = [tasks EXCEPT ![w] = u]
             \/ /\ tasks' = [tasks EXCEPT ![w] = Purged(t, {}, {})]
                /\ t.previous.root = Blank \/ t.previous.zone = Blank \/ ~HasToken
      BY <1>3 DEF DeleteRecords, At
    <2>2. CASE tasks' = [tasks EXCEPT ![w] = u]
      <3>1. /\ u.pc = "deleting" /\ u.op = t.op /\ u.alone = t.alone /\ u.left = Types
        BY <1>b DEF SettingsTask
      <3>2. SaveOK(table', records', u)
        BY <3>1 DEF SaveOK, OldRemaining, Remaining
      <3> QED
        BY <1>a, <2>2, <3>1, <3>2, SettledOn
    <2>3. CASE /\ tasks' = [tasks EXCEPT ![w] = Purged(t, {}, {})]
               /\ t.previous.root = Blank \/ t.previous.zone = Blank \/ ~HasToken
      <3>1. OldGone(table, records', t.previous, t.current)
        BY <2>3 DEF OldGone, Token, HasToken
      <3>2. {} \in SUBSET Record /\ {} \in SUBSET Types /\ records' \in SUBSET records
        BY <2>1
      <3> QED
        BY <1>a, <2>1, <2>3, <3>1, <3>2, SettledPurged
    <2> QED
      BY <2>1, <2>2, <2>3
  <1>4. CASE Interrupt(w)
    BY <1>0, <1>4 DEF Interrupt
  <1> QED
    BY <1>2, <1>3, <1>4

\* A request that completes is worth a claim if it was a save beside which
\* nothing ran.
LEMMA SettledComplete ==
  ASSUME SettledInv, ShapeInv, NEW w \in Workers, tasks[w].pc # "idle", Complete(w),
         tasks[w].op = "save" /\ tasks[w].alone =>
           Done(table', records', tasks[w].previous, tasks[w].current)
  PROVE  SettledInv'
  <1>1. settled = None /\ Return(w)
    BY AtCloudflare DEF Complete
  <1>2. CASE tasks[w].op = "save" /\ tasks[w].alone
    <2>1. settled' = [previous |-> tasks[w].previous, current |-> tasks[w].current]
      BY <1>2 DEF Complete
    <2> QED
      BY <1>1, <1>2, <2>1, SettledEnd
  <1>3. CASE ~(tasks[w].op = "save" /\ tasks[w].alone)
    <2>1. settled' = None
      BY <1>1, <1>3 DEF Complete
    <2> QED
      BY <1>1, <2>1, SettledEnd
  <1> QED
    BY <1>2, <1>3

\* A save clears what is in the way of its record, and lists those that are not.
LEMMA SettledListings ==
  ASSUME SettledInv, ShapeInv, NEW w \in Workers, ClearConflicts(w) \/ ListOwn(w)
  PROVE  SettledInv'
  <1> PICK t : t = tasks[w]
    OBVIOUS
  <1>a. t.pc \in {"clear", "list"} /\ table' = table
    BY DEF ClearConflicts, ListOwn, At
  <1>b. /\ settled = None /\ t \in SettingsTask /\ TaskOK(t)
        /\ t.alone => SaveOK(table, records, t)
    BY <1>a, AtCloudflare
  <1>1. CASE ClearConflicts(w)
    <2>a. t.pc = "clear"
      BY <1>1 DEF ClearConflicts, At
    <2>1. CASE /\ Blank \notin {t.current.root, t.current.origin, t.current.zone}
               /\ HasToken
      <3> PICK u : u = [t EXCEPT !.pc = "clearing", !.left = Types \ {TypeOf[t.current.origin]}]
        OBVIOUS
      <3>1. tasks' = [tasks EXCEPT ![w] = u] /\ settled' = settled /\ records' = records
        BY <1>b, <1>1, <2>1 DEF ClearConflicts, ShapeInv
      <3>2. /\ u.pc = "clearing" /\ u.op = t.op /\ u.alone = t.alone
            /\ u.left = Types \ {TypeOf[t.current.origin]}
            /\ u.previous = t.previous /\ u.current = t.current
        BY <1>b DEF SettingsTask
      <3>3. ASSUME t.alone, t.op = "save" PROVE SaveOK(table', records', u)
        <4>1. OldGone(table, records, t.previous, t.current)
          BY <1>b, <2>a, <3>3 DEF SaveOK
        <4>2. NewRemaining(records', u, u.left, u.found)
          BY <3>2 DEF NewRemaining, Remaining
        <4>3. OldGone(table', records', u.previous, u.current)
          BY <1>a, <3>1, <3>2, <4>1
        <4> QED
          BY <3>2, <4>2, <4>3 DEF SaveOK
      <3>4. t.op # "save" => SaveOK(table', records', u)
        BY <3>2 DEF SaveOK
      <3> QED
        BY <1>a, <3>1, <3>2, <3>3, <3>4, SettledOn
    <2>2. CASE ~(/\ Blank \notin {t.current.root, t.current.origin, t.current.zone}
                 /\ HasToken)
      <3>1. Complete(w) /\ records' = records
        BY <1>1, <2>2 DEF ClearConflicts
      <3>2. ASSUME t.op = "save", t.alone PROVE Done(table', records', t.previous, t.current)
        <4>1. OldGone(table', records', t.previous, t.current)
          BY <1>a, <1>b, <2>a, <3>1, <3>2 DEF SaveOK
        <4> QED
          BY <1>a, <2>2, <4>1 DEF Done, Token, HasToken
      <3> QED
        BY <1>a, <3>1, <3>2, SettledComplete
    <2> QED
      BY <2>1, <2>2
  <1>2. CASE ListOwn(w)
    <2> PICK found : found = Named(t.current.zone, HostOf(t.op, t.current.root),
                                   {TypeOf[t.current.origin]})
      OBVIOUS
    <2> PICK u : u = [t EXCEPT !.pc = "put", !.found = found]
      OBVIOUS
    <2>1. t.pc = "list" /\ tasks' = [tasks EXCEPT ![w] = u] /\ UNCHANGED <<records, settled>>
      BY <1>2 DEF ListOwn, At, settingsHistory
    <2>2. /\ u.pc = "put" /\ u.op = t.op /\ u.alone = t.alone /\ u.found = found
          /\ u.previous = t.previous /\ u.current = t.current
      BY <1>b DEF SettingsTask
    <2>3. ASSUME t.alone PROVE SaveOK(table', records', u)
      <3>1. CASE t.op = "save"
        <4>1. OldGone(table, records, t.previous, t.current) /\ NoConflict(records, t.current)
          BY <1>b, <2>1, <2>3, <3>1 DEF SaveOK
        <4>2. found = {r \in records : /\ r.zone = t.current.zone
                                       /\ r.name = HostOf("save", t.current.root)
                                       /\ r.type = TypeOf[t.current.origin]}
          BY <3>1 DEF Named
        <4>3. u.found = {r \in records : /\ r.zone = u.current.zone
                                         /\ r.name = HostOf("save", u.current.root)
                                         /\ r.type = TypeOf[u.current.origin]}
          BY ZenonT(30), <2>2, <4>2
        <4>4. /\ OldGone(table', records', u.previous, u.current)
              /\ NoConflict(records', u.current)
          BY Zenon, <1>a, <2>1, <2>2, <4>1
        <4>5. records' = records
          BY <2>1
        <4> QED
          BY Zenon, <2>2, <4>3, <4>4, <4>5 DEF SaveOK
      <3>2. CASE t.op # "save"
        BY <2>2, <3>2 DEF SaveOK
      <3> QED
        BY <3>1, <3>2
    <2> QED
      BY <1>a, <2>1, <2>2, <2>3, SettledOn
  <1> QED
    BY <1>1, <1>2

\* A save stores its record, or finds it there.
LEMMA SettledStorings ==
  ASSUME SettledInv, ShapeInv, NEW w \in Workers, PutRecord(w) \/ PostRecord(w)
  PROVE  SettledInv'
  <1> PICK t : t = tasks[w]
    OBVIOUS
  <1>a. t.pc = "put" /\ table' = table
    BY Zenon DEF PutRecord, PostRecord, At
  <1>b. /\ settled = None /\ t \in SettingsTask /\ TaskOK(t)
        /\ t.alone => SaveOK(table, records, t)
    BY <1>a, AtCloudflare
  <1>c. t.current \in [root : Roots, zone : Zones, origin : Targets]
    BY <1>a, <1>b DEF TaskOK
  <1>d. ASSUME t.op = "save", t.alone
        PROVE  /\ OldGone(table, records, t.previous, t.current) /\ NoConflict(records, t.current)
               /\ t.found = {r \in records : /\ r.zone = t.current.zone
                                             /\ r.name = HostOf("save", t.current.root)
                                             /\ r.type = TypeOf[t.current.origin]}
    BY <1>a, <1>b, <1>d DEF SaveOK
  <1>1. ASSUME NEW record, NEW others \in SUBSET records, NEW there, Store(w, record, others, there),
               t.op = "save" /\ t.alone =>
                 /\ record.zone = t.current.zone /\ record.name = HostOf("save", t.current.root)
                 /\ record.type = TypeOf[t.current.origin] /\ record.content = t.current.origin
        PROVE  SettledInv'
    <2>1. CASE Complete(w) /\ records' = others \cup {record}
      <3>1. ASSUME t.op = "save", t.alone
            PROVE  Done(table, others \cup {record}, t.previous, t.current)
        BY <1>1, <1>c, <1>d, <3>1, OwnRecordFits
      <3> QED
        BY <1>a, <2>1, <3>1, SettledComplete
    <2>2. CASE Return(w) /\ UNCHANGED <<records, settled>>
      BY <1>a, <1>b, <2>2, SettledEnd
    <2> QED
      BY <1>1, <2>1, <2>2 DEF Store
  <1>2. CASE PutRecord(w)
    <2>1. PICK first \in t.found :
            IF first.content = t.current.origin
            THEN Complete(w) /\ UNCHANGED records
            ELSE Store(w, [first EXCEPT !.content = t.current.origin],
                       {r \in records : r.id # first.id}, \E r \in records : r.id = first.id)
      BY <1>2 DEF PutRecord
    <2>2. first \in Record
      BY <1>b DEF TaskOK, Known
    <2>3. CASE first.content = t.current.origin
      <3>1. ASSUME t.op = "save", t.alone PROVE Done(table, records, t.previous, t.current)
        BY <1>d, <2>2, <2>3, <3>1 DEF Done, Record
      <3> QED
        BY <1>a, <2>1, <2>3, <3>1, SettledComplete
    <2>4. CASE first.content # t.current.origin
      <3> PICK record : record = [first EXCEPT !.content = t.current.origin]
        OBVIOUS
      <3>1. /\ record.zone = first.zone /\ record.name = first.name /\ record.type = first.type
            /\ record.content = t.current.origin
        BY <2>2 DEF Record
      <3>2. Store(w, record, {r \in records : r.id # first.id}, \E r \in records : r.id = first.id)
        BY <2>1, <2>4
      <3>3. t.op = "save" /\ t.alone =>
              /\ record.zone = t.current.zone /\ record.name = HostOf("save", t.current.root)
              /\ record.type = TypeOf[t.current.origin] /\ record.content = t.current.origin
        BY <1>d, <3>1
      <3> QED
        BY <1>1, <3>2, <3>3
    <2> QED
      BY <2>3, <2>4
  <1>3. CASE PostRecord(w)
    <2> PICK record :
          record = [id |-> t.no, zone |-> t.current.zone, name |-> HostOf(t.op, t.current.root),
                    type |-> TypeOf[t.current.origin], content |-> t.current.origin]
      OBVIOUS
    <2>1. Store(w, record, records, TRUE)
      BY <1>3 DEF PostRecord
    <2> QED
      BY <1>1, <2>1
  <1> QED
    BY <1>2, <1>3

\* What is said of saves that run alone is inductive.
LEMMA StepSettled == ShapeInv /\ SettledInv /\ [Next]_vars => SettledInv'
  <1> SUFFICES ASSUME ShapeInv, SettledInv, [Next]_vars PROVE SettledInv'
    OBVIOUS
  <1>1. CASE SettingsNext
    <2>1. PICK w \in Workers :
            \/ SaveSettings(w) \/ SaveGitHubSettings(w) \/ ApplyProject(w) \/ DeleteProject(w)
            \/ LoadSettings(w) \/ ReadSecrets(w) \/ ReadAll(w)
            \/ StoreDefaultRoot(w) \/ SaveDeployment(w) \/ SaveApplication(w)
            \/ Reconcile(w) \/ DeleteRecords(w) \/ Interrupt(w)
            \/ ClearConflicts(w) \/ ListDoomed(w) \/ DeleteDoomed(w)
            \/ ListOwn(w) \/ PutRecord(w) \/ PostRecord(w)
      BY Zenon, <1>1 DEF SettingsNext
    <2> QED
      BY <2>1, SettledBeginnings, SettledReadings, SettledWritings, SettledDeletions,
         SettledPurges, SettledListings, SettledStorings
  <1>2. CASE UNCHANGED settingsVars
    BY <1>2 DEF settingsVars, settingsHistory, SettledInv
  <1> QED
    BY Zenon, <1>1, <1>2, SettingsMove

\* After a save beside which nothing ran, whatever the records were before and
\* whatever was interrupted or refused earlier: CaddyTower's name points at the
\* origin and at nothing of another type, and its name under the root domain
\* before is gone.
THEOREM AdminRecordStays == Spec => []AdminRecordFollows
  <1>1. Init => SettledInv
    BY DEF Init, SettingsInit, IdleTask, SettledInv
  <1>2. SettledInv => AdminRecordFollows
    BY DEF SettledInv, AdminRecordFollows, Done, OldGone, NoConflict, Absent, Named, Token, HasToken
  <1> QED
    BY <1>1, <1>2, StepSettled, ShapeHolds, PTL DEF Spec

-----------------------------------------------------------------------------
(* Webhooks.                                                               *)

\* The newest webhook of an installation says what GitHub says, and what was
\* processed had been sent.
MailInv ==
  /\ installed \subseteq Installations /\ known \subseteq Installations
  /\ appSecret \in Numbers \cup {0, None} /\ mail \subseteq Webhook
  /\ sent \in [Installations -> 0..MaxRequests] /\ processed \in [Installations -> 0..MaxRequests]
  /\ \A i \in Installations : sent[i] <= requests /\ processed[i] <= sent[i]
  /\ \A m \in mail :
       /\ m.no <= sent[m.from]
       /\ m.no = sent[m.from] => (m.removal <=> m.from \notin installed)
  /\ InstallationsFollow

\* Requests are counted upwards.
LEMMA RequestsGrow == ShapeInv /\ [Next]_vars => requests' >= requests
  <1> SUFFICES ASSUME ShapeInv, [Next]_vars PROVE requests' >= requests
    OBVIOUS
  <1>1. requests \in Nat
    BY MaxRequestsAssumption DEF ShapeInv
  <1>2. SettingsNext => requests' = requests \/ requests' = requests + 1
    BY Zenon DEF SettingsNext, SaveSettings, SaveGitHubSettings, ApplyProject, DeleteProject, Begin,
       LoadSettings, ReadSecrets, ReadAll, StoreDefaultRoot, SaveDeployment, SaveApplication,
       Reconcile, DeleteRecords, ClearConflicts, ListDoomed, DeleteDoomed, ListOwn, PutRecord, PostRecord,
       Interrupt
  <1>3. requests' = requests \/ requests' = requests + 1
    BY Zenon, <1>2, SettingsMove
  <1> QED
    BY <1>1, <1>3

\* The steps that touch the app's state.
LEMMA GitHubMoves ==
  [Next]_vars => \/ UNCHANGED gitHubVars
                 \/ ChooseSecret
                 \/ \E i \in Installations : Change(i) \/ DisconnectInstallation(i)
                 \/ \E m \in mail : HandleWebhook(m)
  BY Zenon DEF Next, vars, HandleImportCreate, DetectImport, CreateWebProject, DeployImport,
     WorkflowStep, WorkflowStepFails, InterruptImport, Importing

\* GitHub's webhooks, and what is made of them in whatever order.
LEMMA MailStep == ShapeInv /\ MailInv /\ [Next]_vars => MailInv'
  <1> SUFFICES ASSUME ShapeInv, MailInv, [Next]_vars PROVE MailInv'
    OBVIOUS
  <1>0. /\ requests \in 0..MaxRequests /\ requests' >= requests /\ MaxRequests \in Nat
        /\ requests' \in 0..MaxRequests
    BY RequestsGrow, StepShape, MaxRequestsAssumption DEF ShapeInv
  <1>1. CASE UNCHANGED gitHubVars
    BY <1>0, <1>1 DEF MailInv, gitHubVars, InstallationsFollow
  <1>2. CASE ChooseSecret
    <2>1. appSecret' \in Numbers
      BY <1>0, <1>2 DEF ChooseSecret, At, ShapeInv, TaskOK, Numbers
    <2> QED
      BY <1>0, <1>2, <2>1 DEF ChooseSecret, MailInv, InstallationsFollow
  <1>3. ASSUME NEW i \in Installations, Change(i) PROVE MailInv'
    <2> PICK n : n = sent[i] + 1
      OBVIOUS
    <2> DEFINE removal == i \in installed
    <2>a. removal \in BOOLEAN
      OBVIOUS
    <2>b. removal <=> i \in installed
      OBVIOUS
    <2> PICK new : new = [from |-> i, no |-> n, removal |-> removal, secret |-> appSecret]
      OBVIOUS
    <2>1. /\ requests < MaxRequests /\ requests' = requests + 1 /\ appSecret # None
          /\ sent' = [sent EXCEPT ![i] = n] /\ mail' = mail \cup {new}
          /\ installed' = IF i \in installed THEN installed \ {i} ELSE installed \cup {i}
          /\ UNCHANGED <<appSecret, known, processed>>
      BY Zenon, <1>3 DEF Change, Count
    <2> HIDE DEF removal
    <2>2. n \in Numbers /\ n <= requests' /\ n > sent[i] /\ sent[i] \in 0..MaxRequests
      BY <1>0, <2>1 DEF MailInv, Numbers
    <2>3. new \in Webhook /\ new.from = i /\ new.no = n /\ (new.removal <=> i \notin installed')
      <3>1. new \in Webhook
        BY <2>1, <2>2, <2>a DEF MailInv, Webhook
      <3>2. removal <=> i \notin installed'
        BY Zenon, <2>1, <2>b
      <3> QED
        BY <3>1, <3>2
    <2>4. sent' \in [Installations -> 0..MaxRequests] /\ installed' \subseteq Installations
      BY <2>1, <2>2 DEF MailInv, Numbers
    <2>5. \A j \in Installations : j # i => sent'[j] = sent[j] /\ (j \in installed' <=> j \in installed)
      BY <2>1 DEF MailInv
    <2>6. sent'[i] = n /\ \A m \in mail : m.from \in Installations /\ m.no \in Int
      BY <2>1 DEF MailInv, Webhook, Numbers
    <2>7. ASSUME NEW m \in mail'
          PROVE  m.no <= sent'[m.from]
                 /\ (m.no = sent'[m.from] => (m.removal <=> m.from \notin installed'))
      <3>1. CASE m = new
        BY <2>2, <2>3, <2>6, <3>1 DEF Numbers
      <3>2. CASE m \in mail /\ m.from = i
        BY <2>2, <2>6, <3>2 DEF MailInv, Numbers
      <3>3. CASE m \in mail /\ m.from # i
        BY <2>5, <2>6, <3>3 DEF MailInv
      <3> QED
        BY <2>1, <3>1, <3>2, <3>3
    <2>8. ASSUME NEW j \in Installations
          PROVE  /\ sent'[j] <= requests' /\ processed'[j] <= sent'[j]
                 /\ processed'[j] = sent'[j] /\ sent'[j] > 0 => (j \in known' <=> j \in installed')
      <3>1. sent[j] <= requests /\ processed[j] <= sent[j] /\ sent[j] \in Int /\ processed[j] \in Int
        BY <1>0 DEF MailInv
      <3>2. CASE j = i
        BY <2>1, <2>2, <2>6, <3>1, <3>2 DEF Numbers
      <3>3. CASE j # i
        BY <1>0, <2>1, <2>5, <3>1, <3>3 DEF MailInv, InstallationsFollow
      <3> QED
        BY <3>2, <3>3
    <2> QED
      BY <2>1, <2>3, <2>4, <2>7, <2>8 DEF MailInv, InstallationsFollow
  <1>4. ASSUME NEW m \in mail, HandleWebhook(m) PROVE MailInv'
    <2>1. /\ known' = IF m.removal THEN known \ {m.from} ELSE known \cup {m.from}
          /\ processed' = [processed EXCEPT ![m.from] = m.no]
          /\ UNCHANGED <<installed, appSecret, mail, sent>>
      BY <1>4 DEF HandleWebhook, Recorded
    <2>2. m.from \in Installations /\ m.no \in Numbers
      BY DEF MailInv, Webhook
    <2>3. /\ known' \subseteq Installations /\ processed' \in [Installations -> 0..MaxRequests]
          /\ processed'[m.from] = m.no
          /\ \A j \in Installations : j # m.from =>
               processed'[j] = processed[j] /\ (j \in known' <=> j \in known)
      BY <2>1, <2>2, <1>0 DEF MailInv, Numbers
    <2>4. m.from \in known' <=> ~m.removal
      BY <2>1
    <2>5. InstallationsFollow'
      BY <2>1, <2>2, <2>3, <2>4 DEF MailInv, InstallationsFollow
    <2>6. \A j \in Installations : sent'[j] <= requests' /\ processed'[j] <= sent'[j]
      BY <1>0, <2>1, <2>2, <2>3 DEF MailInv
    <2> QED
      BY <2>1, <2>3, <2>5, <2>6 DEF MailInv
  <1>5. ASSUME NEW i \in Installations, DisconnectInstallation(i) PROVE MailInv'
    <2>1. /\ known' = known \ {i} /\ processed' = [processed EXCEPT ![i] = 0]
          /\ UNCHANGED <<installed, appSecret, mail, sent>>
      BY <1>5 DEF DisconnectInstallation
    <2>2. /\ known' \subseteq Installations /\ processed' \in [Installations -> 0..MaxRequests]
          /\ processed'[i] = 0
          /\ \A j \in Installations : j # i =>
               processed'[j] = processed[j] /\ (j \in known' <=> j \in known)
      BY <1>0, <2>1 DEF MailInv
    <2>3. InstallationsFollow' /\
          \A j \in Installations : sent'[j] <= requests' /\ processed'[j] <= sent'[j]
      BY <1>0, <2>1, <2>2 DEF MailInv, InstallationsFollow
    <2> QED
      BY <2>1, <2>2, <2>3 DEF MailInv
  <1> QED
    BY <1>1, <1>2, <1>3, <1>4, <1>5, GitHubMoves

\* In the beginning nothing is installed.
LEMMA InitMail == Init => MailInv
  BY MaxRequestsAssumption DEF Init, SettingsInit, MailInv, InstallationsFollow, InForce

\* However webhooks are lost, repeated and reordered: once the newest webhook
\* of an installation is the one processed last, the table says what GitHub
\* says.
THEOREM InstallationsTrue == Spec => []InstallationsFollow
  <1>1. MailInv => InstallationsFollow
    BY DEF MailInv
  <1> QED
    BY <1>1, InitMail, MailStep, ShapeHolds, PTL DEF Spec

-----------------------------------------------------------------------------
(* Imports.                                                                *)

\* What an import may do, by the place of the code it is at: x is the import,
\* pr the project, made what is at GitHub, answer what was said.
ImportOK(x, pr, made, answer) ==
  /\ x \in Import /\ pr \in Project \cup {None} /\ made \in SUBSET Steps /\ answer \in Answers
  /\ pr = None => answer = "none" /\ made = {}
  /\ x.pc = "deploy" => pr # None /\ answer = "none" /\ made = {}
  /\ x.pc \in Steps => pr # None /\ ~pr.deployed /\ answer = "none"
  /\ x.pc \in {"file", "pull"} => "branch" \in made
  /\ x.pc = "pull" => "file" \in made
  /\ made # {} => ~pr.deployed
  /\ answer = "pull request" => made = Steps
  /\ answer = "deployed" => pr.deployed
  /\ answer = "by hand" => ~pr.deployed

ImportsInv ==
  /\ imports \in [Projects -> Import] /\ projects \in [Projects -> Project \cup {None}]
  /\ remote \in [Projects -> SUBSET Steps] /\ told \in [Projects -> Answers]
  /\ \A p \in Projects : ImportOK(imports[p], projects[p], remote[p], told[p])

\* A step of the import of one slug.
LEMMA ImportLocal ==
  ASSUME ImportsInv, NEW p \in Projects, NEW x, NEW pr, NEW made, NEW answer,
         ImportOK(x, pr, made, answer),
         imports' = [imports EXCEPT ![p] = x], projects' = [projects EXCEPT ![p] = pr],
         remote' = [remote EXCEPT ![p] = made], told' = [told EXCEPT ![p] = answer]
  PROVE  ImportsInv'
  <1>1. x \in Import /\ pr \in Project \cup {None} /\ made \in SUBSET Steps /\ answer \in Answers
    BY DEF ImportOK
  <1>2. /\ imports' \in [Projects -> Import] /\ projects' \in [Projects -> Project \cup {None}]
        /\ remote' \in [Projects -> SUBSET Steps] /\ told' \in [Projects -> Answers]
    BY <1>1 DEF ImportsInv
  <1>3. \A q \in Projects : ImportOK(imports'[q], projects'[q], remote'[q], told'[q])
    BY DEF ImportsInv
  <1> QED
    BY <1>2, <1>3 DEF ImportsInv

\* Every step of an import keeps what is true of it.
LEMMA ImportSteps ==
  ASSUME ImportsInv, NEW p \in Projects
  PROVE  /\ \A i \in Installations : HandleImportCreate(p, i) => ImportsInv'
         /\ DetectImport(p) => ImportsInv'
         /\ CreateWebProject(p) => ImportsInv'
         /\ DeployImport(p) => ImportsInv'
         /\ InterruptImport(p) => ImportsInv'
         /\ \A step \in Steps : WorkflowStep(p, step) \/ WorkflowStepFails(p, step) => ImportsInv'
  <1> PICK x, pr, made, answer :
        x = imports[p] /\ pr = projects[p] /\ made = remote[p] /\ answer = told[p]
    OBVIOUS
  <1>0. ImportOK(x, pr, made, answer) /\ x \in Import
    BY DEF ImportsInv, ImportOK
  <1>u. /\ UNCHANGED projects => projects' = [projects EXCEPT ![p] = pr]
        /\ UNCHANGED remote => remote' = [remote EXCEPT ![p] = made]
        /\ UNCHANGED told => told' = [told EXCEPT ![p] = answer]
    BY DEF ImportsInv
  <1>1. NoImport \in Import /\ NoImport.pc = "idle" /\ "idle" \notin Steps
    BY DEF NoImport, Import, ImportLabels, Steps
  <1>2. \A a : Tell(p, a) => imports' = [imports EXCEPT ![p] = NoImport]
                             /\ told' = [told EXCEPT ![p] = a]
    BY DEF Tell
  <1>3. ImportOK(NoImport, pr, made, "none") /\ ImportOK(NoImport, pr, made, answer)
    BY <1>0, <1>1 DEF ImportOK, Answers, Steps
  <1>4. ASSUME NEW i \in Installations, HandleImportCreate(p, i) PROVE ImportsInv'
    <2> PICK y : y = [NoImport EXCEPT !.pc = "detect", !.installation = i]
      OBVIOUS
    <2>1. y \in Import /\ y.pc = "detect"
      BY DEF NoImport, Import, ImportLabels
    <2>2. ImportOK(y, pr, made, answer)
      BY <1>0, <2>1 DEF ImportOK, Steps
    <2>3. imports' = [imports EXCEPT ![p] = y] /\ UNCHANGED <<projects, remote, told>>
      BY <1>4 DEF HandleImportCreate
    <2>4. /\ imports' = [imports EXCEPT ![p] = y] /\ projects' = [projects EXCEPT ![p] = pr]
          /\ remote' = [remote EXCEPT ![p] = made] /\ told' = [told EXCEPT ![p] = answer]
      BY Zenon, <1>u, <2>3
    <2> QED
      BY Zenon, <2>2, <2>4, ImportLocal
  <1>5. ASSUME DetectImport(p) PROVE ImportsInv'
    <2>1. UNCHANGED <<projects, remote>>
      BY <1>5 DEF DetectImport
    <2>2. CASE Tell(p, "none")
      BY <1>u, <1>2, <1>3, <2>1, <2>2, ImportLocal
    <2>3. ASSUME NEW workflow \in BOOLEAN, NEW image \in BOOLEAN, UNCHANGED told,
                 imports' = [imports EXCEPT ![p] =
                   [x EXCEPT !.pc = "create", !.workflow = workflow, !.image = image]]
          PROVE  ImportsInv'
      <3> PICK y : y = [x EXCEPT !.pc = "create", !.workflow = workflow, !.image = image]
        OBVIOUS
      <3>1. y \in Import /\ y.pc = "create"
        BY <1>0 DEF Import, ImportLabels
      <3>2. ImportOK(y, pr, made, answer)
        BY <1>0, <3>1 DEF ImportOK, Steps
      <3>3. /\ imports' = [imports EXCEPT ![p] = y] /\ projects' = [projects EXCEPT ![p] = pr]
            /\ remote' = [remote EXCEPT ![p] = made] /\ told' = [told EXCEPT ![p] = answer]
        BY Zenon, <1>u, <2>1, <2>3
      <3> QED
        BY Zenon, <3>2, <3>3, ImportLocal
    <2>4. \/ Tell(p, "none")
          \/ \E workflow, image \in BOOLEAN : UNCHANGED told /\
               imports' = [imports EXCEPT ![p] =
                   [x EXCEPT !.pc = "create", !.workflow = workflow, !.image = image]]
      <3>1. ASSUME NEW workflow \in BOOLEAN, NEW image \in BOOLEAN
            PROVE  [imports EXCEPT ![p].pc = "create", ![p].workflow = workflow, ![p].image = image]
                     = [imports EXCEPT ![p] =
                         [x EXCEPT !.pc = "create", !.workflow = workflow, !.image = image]]
        BY DEF ImportsInv
      <3> QED
        BY Zenon, <1>5, <3>1 DEF DetectImport
    <2> QED
      BY <2>2, <2>3, <2>4
  <1>6. ASSUME CreateWebProject(p) PROVE ImportsInv'
    <2>1. UNCHANGED remote
      BY <1>6 DEF CreateWebProject
    <2>2. CASE pr # None
      <3>1. Tell(p, "none") /\ UNCHANGED projects
        BY <1>6, <2>2 DEF CreateWebProject
      <3> QED
        BY <1>u, <1>2, <1>3, <2>1, <3>1, ImportLocal
    <2>3. CASE pr = None
      <3> PICK new : new = [installation |-> x.installation, deployed |-> FALSE]
        OBVIOUS
      <3>1. new \in Project /\ ~new.deployed /\ answer = "none" /\ made = {}
            /\ None \notin Project
        <4>1. new \in Project /\ ~new.deployed /\ answer = "none" /\ made = {}
          BY <1>0, <2>3 DEF Project, Import, ImportOK
        <4>2. None \notin Project
          BY NoneAssumption
        <4> QED
          BY <4>1, <4>2
      <3>2. projects' = [projects EXCEPT ![p] = new]
        BY <1>6, <2>3 DEF CreateWebProject
      <3>3. CASE Tell(p, "pending")
        <4>1. ImportOK(NoImport, new, made, "pending")
          BY <1>1, <3>1 DEF ImportOK, Answers, Steps
        <4>2. /\ imports' = [imports EXCEPT ![p] = NoImport] /\ projects' = [projects EXCEPT ![p] = new]
              /\ remote' = [remote EXCEPT ![p] = made] /\ told' = [told EXCEPT ![p] = "pending"]
          BY Zenon, <1>u, <1>2, <2>1, <3>2, <3>3
        <4> QED
          BY Zenon, <4>1, <4>2, ImportLocal
      <3>4. ASSUME NEW pc \in {"branch", "deploy"}, ImportAt(p, pc), UNCHANGED told PROVE ImportsInv'
        <4> PICK y : y = [x EXCEPT !.pc = pc]
          OBVIOUS
        <4>1. y \in Import /\ y.pc = pc
          BY <1>0 DEF Import, ImportLabels, Steps
        <4>2. ImportOK(y, new, made, answer)
          BY <3>1, <4>1 DEF ImportOK, Steps, Answers
        <4>3. imports' = [imports EXCEPT ![p] = y]
          BY <3>4 DEF ImportAt
        <4>4. /\ imports' = [imports EXCEPT ![p] = y] /\ projects' = [projects EXCEPT ![p] = new]
              /\ remote' = [remote EXCEPT ![p] = made] /\ told' = [told EXCEPT ![p] = answer]
          BY Zenon, <1>u, <2>1, <3>2, <3>4, <4>3
        <4> QED
          BY Zenon, <4>2, <4>4, ImportLocal
      <3> QED
        BY <1>6, <2>3, <3>3, <3>4 DEF CreateWebProject, NextStep
    <2> QED
      BY <2>2, <2>3
  <1>7. ASSUME DeployImport(p) PROVE ImportsInv'
    <2>1. x.pc = "deploy" /\ UNCHANGED remote
      BY <1>7 DEF DeployImport, Importing
    <2>2. CASE Tell(p, "none") /\ UNCHANGED projects
      BY <1>u, <1>2, <1>3, <2>1, <2>2, ImportLocal
    <2>3. CASE /\ projects' = [projects EXCEPT ![p] = IF @ = None THEN @ ELSE [@ EXCEPT !.deployed = TRUE]]
               /\ Tell(p, "deployed")
      <3> PICK new : new = [pr EXCEPT !.deployed = TRUE]
        OBVIOUS
      <3>1. pr # None /\ pr \in Project /\ made = {}
        BY <1>0, <2>1 DEF ImportOK
      <3>2. new \in Project /\ new.deployed /\ None \notin Project
        BY <3>1, NoneAssumption DEF Project
      <3>3. ImportOK(NoImport, new, made, "deployed")
        BY <1>1, <3>1, <3>2 DEF ImportOK, Answers, Steps
      <3>4. projects' = [projects EXCEPT ![p] = new]
        BY <2>3, <3>1
      <3>5. /\ imports' = [imports EXCEPT ![p] = NoImport] /\ projects' = [projects EXCEPT ![p] = new]
            /\ remote' = [remote EXCEPT ![p] = made] /\ told' = [told EXCEPT ![p] = "deployed"]
        BY Zenon, <1>u, <1>2, <2>1, <2>3, <3>4
      <3> QED
        BY Zenon, <3>3, <3>5, ImportLocal
    <2> QED
      BY <1>7, <2>2, <2>3 DEF DeployImport
  <1>8. ASSUME InterruptImport(p) PROVE ImportsInv'
    BY <1>u, <1>2, <1>3, <1>8, ImportLocal DEF InterruptImport
  <1>9. ASSUME NEW step \in Steps, WorkflowStep(p, step) PROVE ImportsInv'
    <2> PICK more : more = made \cup {step}
      OBVIOUS
    <2>1. /\ x.pc = step /\ pr # None /\ ~pr.deployed /\ answer = "none" /\ pr \in Project
          /\ more \in SUBSET Steps
      BY <1>0, <1>9 DEF WorkflowStep, Importing, ImportOK
    <2>2. remote' = [remote EXCEPT ![p] = more] /\ UNCHANGED projects
      BY <1>9 DEF WorkflowStep
    <2>3. CASE step = "pull"
      <3>1. more = Steps
        BY <1>0, <2>1, <2>3 DEF ImportOK, Steps
      <3>2. ImportOK(NoImport, pr, more, "pull request")
        BY <1>1, <2>1, <3>1 DEF ImportOK, Answers, Steps
      <3>3. Tell(p, "pull request")
        BY <1>9, <2>3 DEF WorkflowStep
      <3>4. /\ imports' = [imports EXCEPT ![p] = NoImport] /\ projects' = [projects EXCEPT ![p] = pr]
            /\ remote' = [remote EXCEPT ![p] = more] /\ told' = [told EXCEPT ![p] = "pull request"]
        BY Zenon, <1>u, <1>2, <2>2, <3>3
      <3> QED
        BY Zenon, <3>2, <3>4, ImportLocal
    <2>4. CASE step # "pull"
      <3> PICK y : y = [x EXCEPT !.pc = After(step)]
        OBVIOUS
      <3>1. /\ step \in {"branch", "file"} /\ y \in Import
            /\ y.pc = IF step = "branch" THEN "file" ELSE "pull"
        BY <1>0, <2>4 DEF After, Import, ImportLabels, Steps
      <3>2. ImportOK(y, pr, more, answer)
        BY <1>0, <2>1, <3>1 DEF ImportOK, Steps, Answers
      <3>3. imports' = [imports EXCEPT ![p] = y] /\ UNCHANGED told
        BY <1>9, <2>4 DEF WorkflowStep, ImportAt
      <3>4. /\ imports' = [imports EXCEPT ![p] = y] /\ projects' = [projects EXCEPT ![p] = pr]
            /\ remote' = [remote EXCEPT ![p] = more] /\ told' = [told EXCEPT ![p] = answer]
        BY Zenon, <1>u, <2>2, <3>3
      <3> QED
        BY Zenon, <3>2, <3>4, ImportLocal
    <2> QED
      BY <2>3, <2>4
  <1>10. ASSUME NEW step \in Steps, WorkflowStepFails(p, step) PROVE ImportsInv'
    <2>1. /\ x.pc = step /\ pr # None /\ ~pr.deployed /\ answer = "none" /\ pr \in Project
          /\ made \in SUBSET Steps /\ made \cup {step} \in SUBSET Steps
      BY <1>0, <1>10 DEF WorkflowStepFails, Importing, ImportOK
    <2>3. PICK more \in {made, made \cup {step}} :
            /\ Tell(p, "by hand") /\ UNCHANGED projects
            /\ remote' = [remote EXCEPT ![p] = more]
      BY <1>10, <1>u DEF WorkflowStepFails
    <2>2. ImportOK(NoImport, pr, more, "by hand")
      BY <1>1, <2>1 DEF ImportOK, Answers, Steps
    <2>4. /\ imports' = [imports EXCEPT ![p] = NoImport] /\ projects' = [projects EXCEPT ![p] = pr]
          /\ remote' = [remote EXCEPT ![p] = more] /\ told' = [told EXCEPT ![p] = "by hand"]
      BY Zenon, <1>u, <1>2, <2>3
    <2> QED
      BY Zenon, <2>2, <2>4, ImportLocal
  <1> QED
    BY Zenon, <1>4, <1>5, <1>6, <1>7, <1>8, <1>9, <1>10

\* Where an installation goes, its projects stay what they were otherwise.
LEMMA UnlinkedOK ==
  ASSUME ImportsInv, NEW i \in Installations, projects' = Unlinked(i),
         UNCHANGED <<imports, remote, told>>
  PROVE  ImportsInv'
  <1>1. ASSUME NEW p \in Projects
        PROVE  /\ projects'[p] \in Project \cup {None}
               /\ ImportOK(imports[p], projects'[p], remote[p], told[p])
    <2> PICK pr, new : pr = projects[p] /\ new = projects'[p]
      OBVIOUS
    <2>0. ImportOK(imports[p], pr, remote[p], told[p]) /\ pr \in Project \cup {None}
      BY DEF ImportsInv
    <2>1. new = pr \/ (pr # None /\ new = [pr EXCEPT !.installation = None])
      BY DEF Unlinked
    <2>2. CASE new = pr
      BY <2>0, <2>2
    <2>3. CASE pr # None /\ new = [pr EXCEPT !.installation = None]
      <3>1. pr \in Project /\ new \in Project /\ new.deployed = pr.deployed /\ new # None
        BY <2>0, <2>3, NoneAssumption DEF Project
      <3> QED
        BY <2>0, <2>3, <3>1 DEF ImportOK
    <2> QED
      BY <2>1, <2>2, <2>3
  <1>2. projects' \in [Projects -> Project \cup {None}]
    BY <1>1 DEF Unlinked
  <1> QED
    BY <1>1, <1>2 DEF ImportsInv

\* Imports under any interleaving with webhooks, disconnects and each other.
LEMMA ImportsStep == ImportsInv /\ MailInv /\ [Next]_vars => ImportsInv'
  <1> SUFFICES ASSUME ImportsInv, MailInv, [Next]_vars PROVE ImportsInv'
    OBVIOUS
  <1>1. CASE UNCHANGED importVars
    BY <1>1 DEF ImportsInv, importVars
  <1>2. ASSUME NEW m \in mail, HandleWebhook(m) PROVE ImportsInv'
    <2>1. /\ projects' = projects \/ projects' = Unlinked(m.from)
          /\ UNCHANGED <<imports, remote, told>>
      BY <1>2 DEF HandleWebhook
    <2>2. m.from \in Installations
      BY DEF MailInv, Webhook
    <2>3. CASE projects' = projects
      BY <2>1, <2>3 DEF ImportsInv
    <2> QED
      BY <2>1, <2>2, <2>3, UnlinkedOK
  <1>3. ASSUME NEW i \in Installations, DisconnectInstallation(i) PROVE ImportsInv'
    BY <1>3, UnlinkedOK DEF DisconnectInstallation
  <1>4. ASSUME NEW p \in Projects,
               \/ \E i \in Installations : HandleImportCreate(p, i)
               \/ DetectImport(p) \/ CreateWebProject(p) \/ DeployImport(p)
               \/ \E step \in Steps : WorkflowStep(p, step) \/ WorkflowStepFails(p, step)
               \/ InterruptImport(p)
        PROVE  ImportsInv'
    BY Zenon, <1>4, ImportSteps
  <1>5. \/ UNCHANGED importVars
        \/ \E m \in mail : HandleWebhook(m)
        \/ \E i \in Installations : DisconnectInstallation(i)
        \/ \E p \in Projects :
             \/ \E i \in Installations : HandleImportCreate(p, i)
             \/ DetectImport(p) \/ CreateWebProject(p) \/ DeployImport(p)
             \/ \E step \in Steps : WorkflowStep(p, step) \/ WorkflowStepFails(p, step)
             \/ InterruptImport(p)
    BY Zenon DEF Next, vars, ChooseSecret, Change
  <1> QED
    BY Zenon, <1>1, <1>2, <1>3, <1>4, <1>5

\* In the beginning nothing is imported.
LEMMA InitImports == Init => ImportsInv
  <1> SUFFICES ASSUME Init PROVE ImportsInv
    OBVIOUS
  <1>1. NoImport \in Import /\ NoImport.pc = "idle" /\ "idle" \notin Steps
    BY DEF NoImport, Import, ImportLabels, Steps
  <1>2. ImportOK(NoImport, None, {}, "none")
    BY <1>1 DEF ImportOK, Answers, Steps
  <1> QED
    BY <1>1, <1>2 DEF Init, ImportsInv, ImportOK

\* Whatever fails, is cut off or overlaps: nothing is made at GitHub for a
\* project that is not there or needs no workflow, and an import answers what
\* it has done.
THEOREM ImportsTrue == Spec => []ImportsHonest
  <1>1. ImportsInv => ImportsHonest
    <2> SUFFICES ASSUME ImportsInv, NEW p \in Projects
                 PROVE  /\ remote[p] # {} => projects[p] # None /\ ~projects[p].deployed
                        /\ told[p] = "pull request" => remote[p] = Steps
                        /\ told[p] = "deployed" => projects[p].deployed
                        /\ told[p] = "by hand" => projects[p] # None /\ ~projects[p].deployed
      BY DEF ImportsHonest
    <2>1. ImportOK(imports[p], projects[p], remote[p], told[p])
      BY DEF ImportsInv
    <2> QED
      BY <2>1 DEF ImportOK
  <1> QED
    BY <1>1, InitMail, MailStep, InitImports, ImportsStep, ShapeHolds, PTL DEF Spec

\* The tables, Cloudflare, GitHub and the requests have their types.
THEOREM TypesHold == Spec => []TypeOK
  <1>1. ShapeInv /\ MailInv /\ ImportsInv => TypeOK
    BY DEF ShapeInv, TableOK, Known, MailInv, ImportsInv, TypeOK, SettingsTypeOK
  <1> QED
    BY <1>1, InitMail, MailStep, InitImports, ImportsStep, ShapeHolds, PTL DEF Spec
=============================================================================
