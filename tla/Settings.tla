------------------------------- MODULE Settings -------------------------------
(***************************************************************************)
(* The settings and the DNS records that follow from them: SaveSettings,   *)
(* SaveGitHubSettings, loadSettings and the DNS half of deploys and        *)
(* deletes in internal/projects/service.go, the table settings             *)
(* (store/projects.go) and internal/cloudflare/service.go.                 *)
(*                                                                         *)
(* Both forms read the whole table, change their keys in the copy and      *)
(* write the copy back; so does whoever reads the settings while no root   *)
(* domain is stored.  Each call to SQLite or Cloudflare is a step.         *)
(*                                                                         *)
(* A secret is the number of the request that brought it, or 0 if it came  *)
(* with the environment.  An operator whose comment begins "A mutant" is   *)
(* no part of the model.                                                   *)
(***************************************************************************)
EXTENDS Integers, FiniteSets

CONSTANTS
  Workers,      \* goroutines that may serve requests at once
  Roots,        \* root domains
  Zones,        \* Cloudflare zones
  Targets,      \* origin hostnames and addresses
  TypeOf,       \* the record type a target calls for (dnsRecordType)
  CfgRoot,      \* the root domain of the environment, or Blank
  CfgApp,       \* are the GitHub App's credentials in the environment?
  Forms,        \* the deployment forms people send
  AppForms,     \* the GitHub forms people send: is there a secret, a key?
  Foreign,      \* records in the zones that are not CaddyTower's
  SettingsFaults, \* "interrupt": a request may end anywhere
  MaxRequests,  \* bound: requests served
  Blank, None   \* an empty value; a key that is not in the table

ASSUME TypeAssumption == TypeOf \in [Targets -> {"CNAME", "A", "AAAA"}]
ASSUME CfgAssumption == CfgRoot \in Roots \cup {Blank} /\ CfgApp \in BOOLEAN
ASSUME MaxRequestsAssumption == MaxRequests \in Nat
ASSUME NullAssumption ==
  /\ Blank # None
  /\ {Blank, None} \cap (Int \cup Roots \cup Zones \cup Targets) = {}
  /\ None \notin {"save", "github", "deploy", "remove"}

Numbers == 1..MaxRequests
Form == [root : Roots \cup {Blank}, zone : Zones \cup {Blank}, origin : Targets \cup {Blank},
         token : BOOLEAN]
ASSUME FormsAssumption == Forms \subseteq Form /\ AppForms \subseteq [hook : BOOLEAN, key : BOOLEAN]

Table == [root : Roots \cup {Blank, None}, zone : Zones \cup {Blank, None},
          origin : Targets \cup {Blank, None}, token : Numbers \cup {Blank, None},
          app : Numbers \cup {None}, hook : Numbers \cup {0, None}, key : Numbers \cup {None}]

\* CaddyTower's own names are those of its page and of its one project.
Hosts == {"caddytower", "app"} \X Roots
Types == {"CNAME", "A", "AAAA"}
Record == [id : Int, zone : Zones, name : Hosts \cup {r.name : r \in Foreign},
           type : Types, content : Targets]

\* Cloudflare's ids are distinct; those of CaddyTower's records are numbers of
\* requests.
ASSUME ForeignAssumption ==
  /\ Foreign \subseteq Record
  /\ \A r \in Foreign : r.id \notin Numbers /\ \A s \in Foreign : r.id = s.id => r = s

VARIABLES
  table,     \* table settings
  records,   \* the records at Cloudflare
  tasks,     \* what each worker is doing, and what it has read
  requests,  \* requests accepted so far: numbers them, bounds the model
  wanted,    \* history: the table, had the writes come one after another
  overtaken, \* history: a write was based on a copy that was out of date
  settled    \* history: the last save, while nothing has come since

settingsHistory == <<wanted, overtaken, settled>>

Empty == [root |-> None, zone |-> None, origin |-> None, token |-> None,
          app |-> None, hook |-> None, key |-> None]

\* What loadSettings returns.
Loaded == [root : Roots \cup {Blank}, zone : Zones \cup {Blank}, origin : Targets \cup {Blank}]
NothingLoaded == [root |-> Blank, zone |-> Blank, origin |-> Blank]

Labels == {"idle", "load", "default", "secrets", "read", "write", "reconcile", "delete", "deleting",
           "clear", "clearing", "list", "put"}
SettingsTask ==
  [pc : Labels, op : {None, "save", "github", "deploy", "remove"}, no : Numbers \cup {0},
   form : Form \cup [hook : BOOLEAN, key : BOOLEAN] \cup {None},
   copy : Table, stale : BOOLEAN, previous : Loaded \cup {None}, current : Loaded,
   found : SUBSET Record, left : SUBSET Types, alone : BOOLEAN]

IdleTask == [pc |-> "idle", op |-> None, no |-> 0, form |-> None, copy |-> Empty,
             stale |-> FALSE, previous |-> None, current |-> NothingLoaded, found |-> {},
             left |-> {}, alone |-> FALSE]

SettingsInit ==
  /\ table = Empty
  /\ records = Foreign
  /\ tasks = [w \in Workers |-> IdleTask]
  /\ requests = 0
  /\ wanted = Empty /\ overtaken = FALSE /\ settled = None

-----------------------------------------------------------------------------

At(w, label) == tasks[w].pc = label
Goto(w, label) == tasks' = [tasks EXCEPT ![w].pc = label]
Return(w) == tasks' = [tasks EXCEPT ![w] = IdleTask]

\* A new request: nobody is alone any more, unless nobody else was there.
Begin(w, task) ==
  /\ At(w, "idle")
  /\ requests < MaxRequests
  /\ requests' = requests + 1
  /\ tasks' = [v \in Workers |->
       IF v = w THEN [task EXCEPT !.no = requests + 1,
                                  !.alone = \A u \in Workers : At(u, "idle")]
                ELSE [tasks[v] EXCEPT !.alone = FALSE]]
  /\ settled' = None
  /\ UNCHANGED <<table, records, wanted, overtaken>>

\* UpsertSettings: one transaction, over the keys that are in the copy.
Upsert(copy) == [k \in DOMAIN table |-> IF copy[k] = None THEN table[k] ELSE copy[k]]

Holding == {"default", "read", "write"}

\* The copies others hold are out of date from now on.  The table that was
\* asked for is followed until a write is based on such a copy.
Write(w, copy, task, asked) ==
  /\ table' = Upsert(copy)
  /\ overtaken' = (overtaken \/ tasks[w].stale)
  /\ wanted' = IF overtaken' THEN Empty ELSE asked
  /\ tasks' = [v \in Workers |->
       IF v = w THEN task ELSE [tasks[v] EXCEPT !.stale = @ \/ tasks[v].pc \in Holding]]

OrBlank(value) == IF value = None THEN Blank ELSE value

-----------------------------------------------------------------------------
(* The requests.                                                           *)

SaveSettings(w) ==
  \E form \in Forms :
    Begin(w, [IdleTask EXCEPT !.op = "save", !.pc = "load", !.form = form])

SaveGitHubSettings(w) ==
  \E form \in AppForms :
    Begin(w, [IdleTask EXCEPT !.op = "github", !.pc = "secrets", !.form = form])

\* A deploy or a delete of the project, of which only the DNS matters here;
\* the settings are loaded at its beginning.
ApplyProject(w) == Begin(w, [IdleTask EXCEPT !.op = "deploy", !.pc = "load"])
DeleteProject(w) == Begin(w, [IdleTask EXCEPT !.op = "remove", !.pc = "load"])

-----------------------------------------------------------------------------
(* loadSettings.                                                           *)

\* A mutant: what is not in the table is passed on as it is.
EffectiveRaw(t) ==
  [root |-> IF OrBlank(t.root) = Blank THEN CfgRoot ELSE t.root,
   zone |-> t.zone, origin |-> t.origin]

Effective(t) ==
  [root |-> IF OrBlank(t.root) = Blank THEN CfgRoot ELSE t.root,
   zone |-> OrBlank(t.zone), origin |-> OrBlank(t.origin)]

\* Where each request goes on with the settings it has loaded.
AfterLoad(t, loaded) ==
  LET task == [t EXCEPT !.copy = Empty, !.stale = FALSE]
  IN
  CASE task.op = "save" /\ task.previous = None ->
         [task EXCEPT !.previous = loaded, !.pc = "read"]
    [] task.op = "save" /\ task.previous # None ->
         [task EXCEPT !.current = loaded, !.pc = "reconcile"]
    [] task.op = "deploy" -> [task EXCEPT !.current = loaded, !.pc = "clear"]
    [] task.op = "remove" -> [task EXCEPT !.previous = loaded, !.pc = "delete"]

LoadSettings(w) ==
  /\ At(w, "load")
  /\ tasks' = [tasks EXCEPT ![w] =
       IF OrBlank(table.root) = Blank /\ CfgRoot # Blank
       THEN [@ EXCEPT !.copy = table, !.stale = FALSE, !.pc = "default"]
       ELSE AfterLoad(@, Effective(table))]
  /\ UNCHANGED <<table, records, requests, settingsHistory>>

\* The root domain of the environment is written back, with all the rest.
StoreDefaultRoot(w) ==
  LET copy == [tasks[w].copy EXCEPT !.root = CfgRoot]
  IN  /\ At(w, "default")
      /\ Write(w, copy, AfterLoad(tasks[w], Effective(copy)),
               [wanted EXCEPT !.root = IF OrBlank(@) = Blank THEN CfgRoot ELSE @])
      /\ UNCHANGED <<records, requests, settled>>

-----------------------------------------------------------------------------
(* The two forms.                                                          *)

\* The secret that webhooks are checked with: the environment's, if none is stored.
InForce(hook) == IF hook = None /\ CfgApp THEN 0 ELSE hook

\* GitHubSettings: the secret and the key there are, for a form without.  The
\* environment has a file with the key, which is never stored.
ReadSecrets(w) ==
  LET form == tasks[w].form
      complete == /\ form.hook \/ InForce(table.hook) # None
                  /\ form.key \/ table.key # None \/ CfgApp
  IN  /\ At(w, "secrets")
      /\ IF complete
         THEN tasks' = [tasks EXCEPT ![w].copy = [table EXCEPT !.hook = InForce(@)],
                                     ![w].stale = FALSE, ![w].pc = "read"]
         ELSE Return(w)
      /\ UNCHANGED <<table, records, requests, settingsHistory>>

\* GetSettings, all of them; secret and key are those read before.
ReadAll(w) ==
  LET old == tasks[w].copy
  IN  /\ At(w, "read")
      /\ tasks' = [tasks EXCEPT ![w] =
           IF @.op = "save" THEN [@ EXCEPT !.pc = "write", !.copy = table, !.stale = FALSE]
           ELSE [@ EXCEPT !.pc = "write",
                          !.copy = [table EXCEPT !.hook = old.hook,
                                                 !.key = IF old.key = None THEN @ ELSE old.key]]]
      /\ UNCHANGED <<table, records, requests, settingsHistory>>

FirstNonBlank(a, b, c) ==
  IF a # Blank THEN a ELSE IF OrBlank(b) # Blank THEN b ELSE c

\* A mutant: a root domain left blank is replaced by the environment's.
RootOfForm(form, t) == IF form.root # Blank THEN form.root ELSE CfgRoot

\* A root domain left blank stays what it was.
RootAfter(form, t) == FirstNonBlank(form.root, t.root, CfgRoot)

\* A mutant: a token left blank is stored as such.
DeploymentForgetful(no, form, t) ==
  [t EXCEPT !.root = RootAfter(form, t), !.zone = form.zone, !.origin = form.origin,
            !.token = IF form.token THEN no ELSE Blank]

\* What a deployment form makes of table t; a token left blank is kept.
Deployment(no, form, t) ==
  [t EXCEPT !.root = RootAfter(form, t), !.zone = form.zone, !.origin = form.origin,
            !.token = IF form.token THEN no ELSE @]

\* What a GitHub form makes of table t; secret and key left blank are kept.
Application(no, form, t) ==
  [t EXCEPT !.app = no, !.hook = IF form.hook THEN no ELSE @,
            !.key = IF form.key THEN no ELSE @]

\* History: the table with what the forms ask for, and nothing else, changed.
AskedByDeployment(no, form) ==
  LET root == IF form.root = Blank THEN OrBlank(wanted.root) ELSE form.root
  IN  [wanted EXCEPT !.root = IF root = Blank THEN CfgRoot ELSE root,
                     !.zone = form.zone, !.origin = form.origin,
                     !.token = IF form.token THEN no ELSE @]

AskedByApplication(no, form) ==
  [wanted EXCEPT !.app = no, !.hook = IF form.hook THEN no ELSE InForce(@),
                 !.key = IF form.key THEN no ELSE @]

\* A token that Cloudflare does not know, or a failing transaction: Interrupt.
SaveDeployment(w) ==
  LET task == tasks[w]
  IN  /\ At(w, "write") /\ task.op = "save"
      /\ Write(w, Deployment(task.no, task.form, task.copy), [task EXCEPT !.pc = "load", !.copy = Empty],
               AskedByDeployment(task.no, task.form))
      /\ UNCHANGED <<records, requests, settled>>

SaveApplication(w) ==
  LET task == tasks[w]
  IN  /\ At(w, "write") /\ task.op = "github"
      /\ Write(w, Application(task.no, task.form, task.copy), IdleTask,
               AskedByApplication(task.no, task.form))
      /\ UNCHANGED <<records, requests, settled>>

-----------------------------------------------------------------------------
(* Cloudflare.                                                             *)

HostOf(op, root) == <<IF op = "save" THEN "caddytower" ELSE "app", root>>
HasToken == table.token \notin {Blank, None}

\* A mutant: the old name is left alone.
ReconcileKeepingOld(w) ==
  /\ At(w, "reconcile")
  /\ Goto(w, "clear")
  /\ UNCHANGED <<table, records, requests, settingsHistory>>

\* reconcileCaddy succeeds (CaddyRouting has the rest of it); is there an
\* old name to delete?
Reconcile(w) ==
  LET previous == tasks[w].previous.root
  IN  /\ At(w, "reconcile")
      /\ Goto(w, IF previous # Blank /\ previous # tasks[w].current.root
                 THEN "delete" ELSE "clear")
      /\ UNCHANGED <<table, records, requests, settingsHistory>>

\* A mutant: the records of the type, whatever their name.
NamedByType(zone, name, types) == {r \in records : r.zone = zone /\ r.type \in types}

\* listDNSRecords, of several types.
Named(zone, name, types) ==
  {r \in records : r.zone = zone /\ r.name = name /\ r.type \in types}

FirstOf(types) ==
  IF "CNAME" \in types THEN "CNAME" ELSE IF "A" \in types THEN "A" ELSE "AAAA"

\* What is to go, of one type: under the old name, or under the name that is
\* about to get a record of another type.
Doomed(t, type) ==
  IF t.pc = "deleting" THEN Named(t.previous.zone, HostOf(t.op, t.previous.root), {type})
                       ELSE Named(t.current.zone, HostOf(t.op, t.current.root), {type})

\* The task with these records to delete and types to list; without any it goes on.
Purged(t, found, left) ==
  LET u == [t EXCEPT !.found = found, !.left = left]
  IN  CASE found # {} \/ left # {} -> u
        [] found = {} /\ left = {} /\ t.pc = "clearing" -> [u EXCEPT !.pc = "list"]
        [] found = {} /\ left = {} /\ t.pc # "clearing" /\ t.op = "save" -> [u EXCEPT !.pc = "clear"]
        [] OTHER -> IdleTask

\* DeleteRecord of the old name; there is nothing to do without root domain, zone
\* and token.
DeleteRecords(w) ==
  LET previous == tasks[w].previous
      applies == previous.root # Blank /\ previous.zone # Blank /\ HasToken
  IN  /\ At(w, "delete")
      /\ tasks' = [tasks EXCEPT ![w] = IF applies
                                      THEN [@ EXCEPT !.pc = "deleting", !.left = Types]
                                      ELSE Purged(@, {}, {})]
      /\ UNCHANGED <<table, records, requests, settingsHistory>>

\* One type after another is listed.
ListDoomed(w) ==
  LET type == FirstOf(tasks[w].left)
  IN  /\ At(w, "deleting") \/ At(w, "clearing")
      /\ tasks[w].found = {}
      /\ tasks' = [tasks EXCEPT ![w] = Purged(@, Doomed(@, type), @.left \ {type})]
      /\ UNCHANGED <<table, records, requests, settingsHistory>>

\* A call for each record found; Cloudflare refuses it if the record is gone.
DeleteDoomed(w) ==
  /\ At(w, "deleting") \/ At(w, "clearing")
  /\ \E r \in tasks[w].found :
       IF \E s \in records : s.id = r.id
       THEN /\ records' = {s \in records : s.id # r.id}
            /\ tasks' = [tasks EXCEPT ![w] = Purged(@, @.found \ {r}, @.left)]
       ELSE Return(w) /\ UNCHANGED records
  /\ UNCHANGED <<table, requests, settingsHistory>>

\* The save is complete; what it leaves at Cloudflare is worth a claim when
\* nothing ran beside it.
Complete(w) ==
  /\ Return(w)
  /\ settled' = IF tasks[w].op = "save" /\ tasks[w].alone
                THEN [previous |-> tasks[w].previous, current |-> tasks[w].current]
                ELSE settled

\* UpsertRecord begins with deleteConflictingRecords; there is nothing to do
\* without root domain, origin, zone and token.
ClearConflicts(w) ==
  LET current == tasks[w].current
      applies == current.root # Blank /\ current.origin # Blank /\ current.zone # Blank
                   /\ HasToken
  IN  /\ At(w, "clear")
      /\ IF applies
         THEN /\ tasks' = [tasks EXCEPT ![w].pc = "clearing",
                                        ![w].left = Types \ {TypeOf[current.origin]}]
              /\ UNCHANGED settled
         ELSE Complete(w)
      /\ UNCHANGED <<table, records, requests, wanted, overtaken>>

ListOwn(w) ==
  LET current == tasks[w].current
  IN  /\ At(w, "list")
      /\ tasks' = [tasks EXCEPT ![w].pc = "put", ![w].found =
           Named(current.zone, HostOf(tasks[w].op, current.root), {TypeOf[current.origin]})]
      /\ UNCHANGED <<table, records, requests, settingsHistory>>

\* A record Cloudflare takes: it keeps CNAMEs single and records distinct.
Acceptable(record, others) ==
  \A r \in others :
    r.zone = record.zone /\ r.name = record.name
      => /\ r.type # "CNAME" /\ record.type # "CNAME"
         /\ r.type # record.type \/ r.content # record.content

\* Cloudflare answers to a PUT or POST; it refuses what is gone meanwhile.
Store(w, record, others, there) ==
  IF there /\ Acceptable(record, others)
  THEN records' = others \cup {record} /\ Complete(w)
  ELSE Return(w) /\ UNCHANGED <<records, settled>>

\* PUT of the first record found, or nothing if it is right already.
PutRecord(w) ==
  LET target == tasks[w].current.origin
  IN  /\ At(w, "put")
      /\ \E first \in tasks[w].found :
           IF first.content = target
           THEN Complete(w) /\ UNCHANGED records
           ELSE Store(w, [first EXCEPT !.content = target],
                      {r \in records : r.id # first.id}, \E r \in records : r.id = first.id)
      /\ UNCHANGED <<table, requests, wanted, overtaken>>

PostRecord(w) ==
  LET current == tasks[w].current
  IN  /\ At(w, "put")
      /\ tasks[w].found = {}
      /\ Store(w, [id |-> tasks[w].no, zone |-> current.zone,
                   name |-> HostOf(tasks[w].op, current.root),
                   type |-> TypeOf[current.origin], content |-> current.origin], records, TRUE)
      /\ UNCHANGED <<table, requests, wanted, overtaken>>

\* A cancelled request, a failing call, a restart of the controller.
Interrupt(w) ==
  /\ "interrupt" \in SettingsFaults
  /\ ~At(w, "idle")
  /\ Return(w)
  /\ UNCHANGED <<table, records, requests, settingsHistory>>

SettingsNext ==
  \E w \in Workers :
    \/ SaveSettings(w) \/ SaveGitHubSettings(w) \/ ApplyProject(w) \/ DeleteProject(w)
    \/ LoadSettings(w) \/ StoreDefaultRoot(w) \/ ReadSecrets(w) \/ ReadAll(w)
    \/ SaveDeployment(w) \/ SaveApplication(w)
    \/ Reconcile(w) \/ DeleteRecords(w) \/ ClearConflicts(w) \/ ListDoomed(w) \/ DeleteDoomed(w)
    \/ ListOwn(w) \/ PutRecord(w) \/ PostRecord(w) \/ Interrupt(w)

-----------------------------------------------------------------------------
(* Properties.                                                             *)

\* The state has the shape of the table, of Cloudflare's records and of the
\* local variables; a record of CaddyTower's is one of Cloudflare's types.
SettingsTypeOK ==
  /\ table \in Table /\ wanted \in Table
  /\ records \subseteq Record
  /\ tasks \in [Workers -> SettingsTask]
  /\ requests \in 0..MaxRequests
  /\ overtaken \in BOOLEAN
  /\ settled \in [previous : Loaded, current : Loaded] \cup {None}

\* Unless one write fell between another's read and write, the table holds what
\* the forms, one after another, asked for: the fields of the other form, what
\* was left blank and the default root domain included.  A webhook secret left
\* blank asks for the one in force.
SavesStick == ~overtaken => table = wanted

\* Under every interleaving a secret once stored is never blank again, and is
\* replaced only by one that was submitted, or, where one write fell between
\* another's read and write, by the environment's.
SecretsKept ==
  [][\A k \in {"token", "hook", "key"} :
       table[k] # None =>
         \/ table'[k] \in Numbers /\ table'[k] <= requests
         \/ k = "hook" /\ table'[k] = 0 /\ (table[k] = 0 \/ overtaken')]_table

\* After a save beside which nothing ran, CaddyTower's name under the root
\* domain points at the origin and at nothing of another type, and its name
\* under the root domain before is gone.
AdminRecordFollows ==
  settled # None /\ HasToken =>
    LET old == settled.previous
        now == settled.current
        host == HostOf("save", now.root)
    IN  /\ Blank \notin {now.root, now.zone, now.origin} =>
             /\ \E r \in Named(now.zone, host, Types) : r.content = now.origin
             /\ Named(now.zone, host, Types \ {TypeOf[now.origin]}) = {}
        /\ Blank \notin {old.root, old.zone} /\ old.root # now.root =>
             Named(old.zone, HostOf("save", old.root), Types) = {}

\* Whatever saves, deploys and deletes overlap, no record under a name that is
\* not CaddyTower's is ever changed or deleted.
OthersRecordsStay == \A r \in Foreign : r.name \notin Hosts => r \in records
=============================================================================
