------------------------------- MODULE GitHubApp -------------------------------
(***************************************************************************)
(* The GitHub App: internal/github/service.go, the table                   *)
(* github_installations (store/projects.go), the handlers of               *)
(* internal/server/server.go that serve it, and the import of a repository *)
(* (internal/server/import.go).  The secret that webhooks are checked      *)
(* with is in the settings, so this module extends Settings: a secret lost *)
(* there silences the webhooks here.                                       *)
(*                                                                         *)
(* GitHub signs a webhook with the secret the app has there.  Webhooks sent *)
(* stay in a set: each may be delivered late, out of order, again or never. *)
(***************************************************************************)
EXTENDS Settings

CONSTANTS
  Installations,  \* accounts that may install the app
  Projects        \* slugs that repositories may be imported under

VARIABLES
  installed,  \* at GitHub: the installations that are active
  appSecret,  \* at GitHub: the app's webhook secret, None before there is an app;
              \* the environment comes with an app that has its secret
  mail,       \* the webhooks sent
  known,      \* table github_installations
  imports,    \* by slug: the import that runs
  projects,   \* by slug: the project's installation and whether it was deployed
  remote,     \* at GitHub: what imports have made, by slug
  sent,       \* history: the webhooks sent so far, by installation
  processed,  \* history: the webhook that known follows, by installation
  told        \* history: what an import has answered, by slug

gitHubVars == <<installed, appSecret, mail, known, sent, processed>>
importVars == <<imports, projects, remote, told>>
settingsVars == <<table, records, tasks, settingsHistory>>
vars == <<settingsVars, requests, gitHubVars, importVars>>

Webhook == [from : Installations, no : Numbers, removal : BOOLEAN, secret : Numbers \cup {0}]
Project == [installation : Installations \cup {None}, deployed : BOOLEAN]
ASSUME NoneAssumption == None \notin Installations \cup Project
Steps == {"branch", "file", "pull"}
ImportLabels == {"idle", "detect", "create", "deploy"} \cup Steps
Import == [pc : ImportLabels, installation : Installations \cup {None},
           workflow : BOOLEAN, image : BOOLEAN]
Answers == {"none", "deployed", "pending", "pull request", "by hand"}

NoImport == [pc |-> "idle", installation |-> None, workflow |-> FALSE, image |-> FALSE]

Init ==
  /\ SettingsInit
  /\ installed = {} /\ appSecret = InForce(None) /\ mail = {} /\ known = {}
  /\ sent = [i \in Installations |-> 0] /\ processed = [i \in Installations |-> 0]
  /\ imports = [p \in Projects |-> NoImport]
  /\ projects = [p \in Projects |-> None]
  /\ remote = [p \in Projects |-> {}]
  /\ told = [p \in Projects |-> "none"]

\* GitHubSettings: what is not stored comes from the environment, which has
\* everything or nothing.
Configured == CfgApp \/ (table.app # None /\ table.hook # None /\ table.key # None)

Count ==
  /\ requests < MaxRequests
  /\ requests' = requests + 1
  /\ UNCHANGED settingsVars

-----------------------------------------------------------------------------
(* The app at GitHub.                                                      *)

\* The secret entered with a form is the one the administrator has chosen at
\* GitHub just before.
ChooseSecret ==
  /\ \E w \in Workers : tasks[w].op = "github" /\ tasks[w].form.hook
                          /\ At(w, "secrets") /\ appSecret' = tasks[w].no
  /\ appSecret' # appSecret
  /\ UNCHANGED <<settingsVars, requests, installed, mail, known, sent, processed, importVars>>

\* An account installs, removes, suspends or unsuspends the app.
Change(i) ==
  /\ appSecret # None
  /\ Count
  /\ installed' = IF i \in installed THEN installed \ {i} ELSE installed \cup {i}
  /\ sent' = [sent EXCEPT ![i] = @ + 1]
  /\ mail' = mail \cup {[from |-> i, no |-> sent[i] + 1, removal |-> i \in installed,
                         secret |-> appSecret]}
  /\ UNCHANGED <<appSecret, known, processed, importVars>>

\* VerifyWebhookSignature: with the secret that is in force.
Verified(m) == Configured /\ InForce(table.hook) = m.secret

\* A mutant: every action upserts the row.
RecordedAlways(m) == known \cup {m.from}

\* "deleted" and "suspend" remove the row, every other action upserts it.
Recorded(m) == IF m.removal THEN known \ {m.from} ELSE known \cup {m.from}

\* Projects keep no reference to an installation that is removed.
Unlinked(i) ==
  [p \in Projects |-> IF projects[p] # None /\ projects[p].installation = i
                      THEN [projects[p] EXCEPT !.installation = None] ELSE projects[p]]

\* handleGitHubWebhook and HandleWebhook: one statement or one transaction; a
\* webhook that does not verify changes nothing.
HandleWebhook(m) ==
  /\ Verified(m)
  /\ known' = Recorded(m)
  /\ projects' = IF m.removal THEN Unlinked(m.from) ELSE projects
  /\ processed' = [processed EXCEPT ![m.from] = m.no]
  /\ UNCHANGED <<settingsVars, requests, installed, appSecret, mail, sent, imports, remote, told>>

\* handleGitHubDisconnect: the row goes, the installation at GitHub stays.
DisconnectInstallation(i) ==
  /\ Configured
  /\ i \in known
  /\ Count
  /\ known' = known \ {i}
  /\ projects' = Unlinked(i)
  /\ processed' = [processed EXCEPT ![i] = 0]
  /\ UNCHANGED <<installed, appSecret, mail, sent, imports, remote, told>>

-----------------------------------------------------------------------------
(* The import of a repository.                                             *)

Importing(p, label) ==
  /\ imports[p].pc = label
  /\ UNCHANGED <<settingsVars, requests, gitHubVars>>

ImportAt(p, label) == imports' = [imports EXCEPT ![p].pc = label]

Tell(p, answer) ==
  /\ imports' = [imports EXCEPT ![p] = NoImport]
  /\ told' = [told EXCEPT ![p] = answer]

\* handleImportCreate, for an installation the page offers.
HandleImportCreate(p, i) ==
  /\ imports[p].pc = "idle"
  /\ Configured /\ i \in known
  /\ Count
  /\ imports' = [imports EXCEPT ![p] = [NoImport EXCEPT !.pc = "detect", !.installation = i]]
  /\ UNCHANGED <<gitHubVars, projects, remote, told>>

\* detectImport reads the repository with a token of the installation: it has
\* a workflow or a Dockerfile, and an image that can be pulled or not; or it
\* fails, or has a compose file, and nothing is created.
DetectImport(p) ==
  /\ Importing(p, "detect")
  /\ \/ /\ imports[p].installation \in installed
        /\ \E workflow, image \in BOOLEAN :
             imports' = [imports EXCEPT ![p].pc = "create", ![p].workflow = workflow,
                                        ![p].image = image]
        /\ UNCHANGED told
     \/ Tell(p, "none")
  /\ UNCHANGED <<projects, remote>>

\* What follows the project's row: with workflow and image it is deployed,
\* without a workflow a pull request adds one.
NextStep(import) ==
  IF ~import.workflow THEN "branch" ELSE IF import.image THEN "deploy" ELSE "idle"

\* CreateWebProject: the slug is unique.
CreateWebProject(p) ==
  /\ Importing(p, "create")
  /\ IF projects[p] # None
     THEN Tell(p, "none") /\ UNCHANGED projects
     ELSE /\ projects' = [projects EXCEPT ![p] =
               [installation |-> imports[p].installation, deployed |-> FALSE]]
          /\ IF NextStep(imports[p]) = "idle"
             THEN Tell(p, "pending")
             ELSE ImportAt(p, NextStep(imports[p])) /\ UNCHANGED told
  /\ UNCHANGED remote

\* applyProject, which may fail: DeployPipeline has the rest of it.
DeployImport(p) ==
  /\ Importing(p, "deploy")
  /\ \/ /\ projects' = [projects EXCEPT ![p] = IF @ = None THEN @ ELSE [@ EXCEPT !.deployed = TRUE]]
        /\ Tell(p, "deployed")
     \/ Tell(p, "none") /\ UNCHANGED projects
  /\ UNCHANGED remote

After(step) == CASE step = "branch" -> "file" [] step = "file" -> "pull"

\* A mutant: a failing call is passed over.
WorkflowStepFailsUnnoticed(p, step) ==
  /\ Importing(p, step)
  /\ IF step = "pull" THEN Tell(p, "pull request") ELSE ImportAt(p, After(step)) /\ UNCHANGED told
  /\ UNCHANGED <<projects, remote>>

\* A call of createImportWorkflowPR fails, and with it the rest; it may have
\* had its effect.
WorkflowStepFails(p, step) ==
  /\ Importing(p, step)
  /\ Tell(p, "by hand")
  /\ remote' = remote \/ remote' = [remote EXCEPT ![p] = @ \cup {step}]
  /\ UNCHANGED projects

\* A branch, a file in it, a pull request: CreateBranch, PutFile,
\* CreatePullRequest.
WorkflowStep(p, step) ==
  /\ Importing(p, step)
  /\ imports[p].installation \in installed
  /\ remote' = [remote EXCEPT ![p] = @ \cup {step}]
  /\ IF step = "pull" THEN Tell(p, "pull request") ELSE ImportAt(p, After(step)) /\ UNCHANGED told
  /\ UNCHANGED projects

\* Cut off: the page says nothing at all.
InterruptImport(p) ==
  /\ "interrupt" \in SettingsFaults
  /\ imports[p].pc # "idle"
  /\ Tell(p, "none")
  /\ UNCHANGED <<settingsVars, requests, gitHubVars, projects, remote>>

-----------------------------------------------------------------------------

Next ==
  \/ SettingsNext /\ UNCHANGED <<gitHubVars, importVars>>
  \/ ChooseSecret
  \/ \E i \in Installations : Change(i) \/ DisconnectInstallation(i)
  \/ \E m \in mail : HandleWebhook(m)
  \/ \E p \in Projects :
       \/ \E i \in Installations : HandleImportCreate(p, i)
       \/ DetectImport(p) \/ CreateWebProject(p) \/ DeployImport(p)
       \/ \E step \in Steps : WorkflowStep(p, step) \/ WorkflowStepFails(p, step)
       \/ InterruptImport(p)

Spec == Init /\ [][Next]_vars

-----------------------------------------------------------------------------
(* Properties.                                                             *)

\* The state has the shape of the tables, of GitHub's and of the local
\* variables, and webhooks carry numbers GitHub has given out.
TypeOK ==
  /\ SettingsTypeOK
  /\ installed \subseteq Installations /\ known \subseteq Installations
  /\ appSecret \in Numbers \cup {0, None}
  /\ mail \subseteq Webhook /\ \A m \in mail : m.no <= sent[m.from]
  /\ sent \in [Installations -> 0..MaxRequests] /\ processed \in [Installations -> 0..MaxRequests]
  /\ imports \in [Projects -> Import]
  /\ projects \in [Projects -> Project \cup {None}]
  /\ remote \in [Projects -> SUBSET Steps]
  /\ told \in [Projects -> Answers]

\* However webhooks are lost, repeated and reordered, and whatever the forms
\* do to the secret: once the newest webhook of an installation is the one
\* processed last, the table says what GitHub says.
InstallationsFollow ==
  \A i \in Installations :
    processed[i] = sent[i] /\ sent[i] > 0 => (i \in known <=> i \in installed)

\* Nothing is made at GitHub for a project that is not there, or that needs no
\* workflow; an import that speaks of a pull request has made all of it, and
\* one that failed on the way never claims success.
ImportsHonest ==
  \A p \in Projects :
    /\ remote[p] # {} => projects[p] # None /\ ~projects[p].deployed
    /\ told[p] = "pull request" => remote[p] = Steps
    /\ told[p] = "deployed" => projects[p].deployed
    /\ told[p] = "by hand" => projects[p] # None /\ ~projects[p].deployed
=============================================================================
