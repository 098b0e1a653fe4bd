# A specification of CaddyTower

CaddyTower is a controller for one VPS: a Go web application that keeps projects in SQLite, runs
each as a Docker container, publishes the web projects through Caddy's admin API and, if asked to,
through Cloudflare DNS, provisions databases for them in shared PostgreSQL and MariaDB containers,
and backs all of it up. This directory holds TLA+ modules of its core, TLC configurations for small
instances, and proofs for TLAPS.

Paths below are relative to `src/`. `PROJECT.json` maps every definition to the lines it models.

## Inventory

State lives in SQLite (one connection pool, one statement at a time), in Docker, in Caddy, in the
database engines, at Cloudflare, in files (backups), and a little in memory (deploy event
subscribers, rate limits, timers). Every HTTP request runs on its own goroutine; the backup loop and
the monitor are two more. **No operation holds a lock across two calls** on a project, the settings
or Caddy, no transaction spans a handler, and nothing that fails is retried by the controller: these
three facts are what the models are about. Only backups, emitting events and the rate limiters have
a mutex, and the models of these show what it is worth.

| Component | State | Operations | Interacts with | What makes it correct |
|---|---|---|---|---|
| Deploy pipeline (`internal/projects/service.go`, `applyProject`) | projects, project_deploys, the container of the project | create, update, redeploy, webhook, rollback, delete, automatic rollback | Docker, store, Caddy, Cloudflare, registry | history truthful, at most one rollback per request, rollback to the right image, a live deploy is the one running |
| Docker client (`internal/dockerx`) | none of its own | pull, recreate, inspect, remove | Docker | recreate leaves one container of the name |
| Managed routes (`reconcileCaddy`, `internal/caddyadmin`) | Caddy's route list | reconcile: read the database, GET, merge, POST | store, Caddy | foreign routes survive unless one of their own hosts and paths is published, wanted routes are there and in order, idempotent |
| Project store (`internal/store`) | SQLite tables | one statement or transaction per call | everything | unique subdomain and hostname, cascade on delete |
| Settings (`SaveSettings`, `SaveGitHubSettings`, `loadSettings`) | table settings | save, load (which may write) | Caddy, Cloudflare, GitHub App | what was entered stays, secrets are not erased |
| Database engines (`internal/dbengines`) | engine containers and volumes, root passwords, attachments | attach, rotate, delete, dump | Docker, store, deploy pipeline | stored password works, no database without an attachment, root password is the volume's |
| Deploy events (`Subscribe`, `emitDeployEvent`, SSE handler) | channels of 16 events | subscribe, emit, cancel | pipeline, browser | no send on a closed channel, a viewer misses only what did not fit and sees the rest in order |
| Cloudflare DNS (`internal/cloudflare`) | zone records | upsert, delete | pipeline, settings | records follow the name and the origin, others' records stay |
| Backups (`internal/backups`) | archives on disk, a mutex, the loop's timer | run, schedule, prune, list | store, engines | one at a time, a reported archive stays whole, one nightly run a day |
| Sessions (`internal/auth`) | users, sessions, failure counters; logins per address in memory | bootstrap, login, authenticate, logout | store | sessions end on time and not before, limits and lockouts hold |
| GitHub App, import (`internal/github`, `internal/server/import.go`) | installations; projects, branches and pull requests of an import | webhook, disconnect, import | GitHub, settings, pipeline | the table follows GitHub, an import says what it did |
| Webhooks and rate limiter (`internal/server`) | windows per key | allow, collect | pipeline | limit per window |
| Self-update (`internal/projects/controller_update.go`) | the controller's own container, timers | start helper, recreate, restart | Docker | a controller survives, with its ports, and is never older |
| Monitor (`internal/monitor`) | time of the last mail per warning, in memory | check | mail | one mail per cooldown, no silence without a mail |
| UI, image check, configuration, secrets | none | rendering, REST calls, parsing | | not modelled: no protocol |

The behaviours that are hard to test are listed under `hazards` in `PROJECT.json`, each at its
line: overlapping deploys that address the container by its name, a health check that some other
deploy's container answers, a rollback pin read before and used after a long wait, whole-record
writes from old copies, a controller stopped between removing and creating a container, two
GET/merge/POST cycles on one Caddy configuration, routes that nobody recognises any more, a settings
form that writes back what another has changed, two update helpers on one container, a viewer that
leaves while deploys emit to it.

## Modules

| Module | What it is |
|---|---|
| `DeployPipeline` | The deploy pipeline of one web project, one action per call to SQLite, Docker or the registry |
| `DeployLog` | The abstract deploy history that `DeployPipeline` implements |
| `MCDeployPipeline` | Worker symmetry for TLC |
| `DeployPipelineProofs` | The theorems about `DeployPipeline` for overlapping requests |
| `DeployPipelineOutcomeProofs` | How many deploys a request starts, and what a deploy that nobody joins comes to |
| `CaddyRouting` | Reconciling Caddy with the database, and all the operations that lead to it |
| `MCCaddyRouting` | Rule sets, foreign routes and symmetry for TLC |
| `CaddyRoutingProofs` | The theorems about `CaddyRouting`, and what the merge does to any list of routes |
| `DbEngines` | A shared database engine, its root password, the attachments and what containers know of them |
| `MCDbEngines` | A project with two databases, for TLC |
| `DbEnginesProofs` | The types of `DbEngines` and the root password |
| `DbEnginesDataProofs` | What rows, databases, users and containers have to do with each other |
| `Settings` | The settings table under both forms, and the DNS records that follow from it |
| `GitHubApp` | The GitHub App and the import of a repository, over the secrets of `Settings`, which it extends |
| `MCGitHubApp` | Forms, targets and other people's records for TLC |
| `GitHubAppProofs` | The theorems about `GitHubApp` and the `Settings` under it |
| `Access` | Sign-in, sessions, lockouts and the limiter of the deploy webhook |
| `MCAccess` | Worker symmetry for TLC |
| `AccessProofs` | The theorems about `Access` |
| `Process` | The controller's container and the clock, which the next four share |
| `DeployEvents` | The live event stream of a project |
| `Backups` | Nightly and requested backups, the archives and their retention |
| `Monitor` | Resource warnings by mail |
| `ControllerUpdate` | The controller replacing and restarting itself |
| `Controller` | The composition of these four with the life of the process |
| `MCController` | The instance for TLC |
| `ControllerProofs` | The theorems about `Controller` |

### DeployPipeline

A *worker* is a goroutine serving a request; its `tasks` record is what the goroutine holds in local
variables: its place in the code (`pc`), the record it loaded (`ref`, `conf`), its own deploy's row,
the pin found for a rollback, the digest of its own container, and whether this is an automatic
rollback (`auto`, the code's `DisableAutoRollback`).

| Code | Actions |
|---|---|
| `CreateProject`, `UpdateProject`, `RedeployProject` and the webhook, `RollbackProject`, `DeleteProject` | `Create`, `Update`, `Redeploy`, `Rollback`, `Delete` |
| `autoRollbackProject` and the second half of `RollbackProject` | `ReadRecord`, `WritePin`, `Load` |
| `applyProject`, up to the container | `StartDeploy`, `ListDeploys`, `Pull`, `PullFails` |
| `RecreateContainer` | `InspectOld`, `StopOld`, `RemoveOld`, `CreateContainer`, `BootContainer`, `Confirm`, `DockerFails` |
| `waitForProjectHealthy` | `HealthPasses`, `HealthFails` |
| `reconcileCaddy` and `upsertCloudflare`, as one step that may fail | `Publish` |
| the ends of `applyProject` | `Finish` (live or failed), `FinishUnhealthy` (failed, then perhaps an automatic rollback) |
| CI, a cancelled request, a stopped controller | `Push`, `Cancel`, `Restart` |

Three history variables say what the properties are about, and no guard of the code's actions reads
them. `trace` has for each row the image of the container that deploy really created, whether its health
check was passed, whether it was an automatic rollback, and whether it started `alone`, no other deploy
being under way. `joined` are the workers whose request, at some time, was not the only one in progress.
`cutOff` is set when a failure of Docker, a cancelled request or a restart ends a worker between the
stop of the old container and the start of the new one, and cleared when a container starts.

Abstractions: an image is a digest or the one mutable `Tag`; a form may name any of `FormRefs` besides
the present reference, and a digest that this server has never pulled makes `CreateContainer` fail
(`ImageMissing`), since `shouldPullImage` pulls tags only; the rest of a project's configuration
is a version, `Checked` those with a health check path; a bad image never answers the check, a good
one may still be too slow (fault `slow`); the root domain is set (otherwise `applyProject` returns
at once and changes nothing). A row of the history survives in the model when its project is
deleted, but nothing reads or writes it from there on. Reads of the record together with the
request's acceptance (`Redeploy`) are one step, since nothing shared is touched before them.

### CaddyRouting

State: the root domain, the projects with their rules and ports, the custom domains, and Caddy's
route list `live`. Each operation changes the database in one step and goes on to `reconcileCaddy`
unless it skips or fails before it. `LoadSettings`, `ListProjects`, `ReadRules` and `ReadProject` (each
once per project: the rules are read within the store's `ListProjects`, the domains after it),
`NothingToPublish`, `GetConfig`, `Post` and `CaddyFails` are the reconcile; `Merge`, `Preserved` (the
loop of `MergeManagedRoutes` over the routes there are), `BuildConfig` and `ExpandedRoutes` translate the
functions of those names. `synced` and `overtaken` are
history variables: a reconcile is *overtaken* when the database changed, or another POST changed
Caddy, after its reads; `synced` says that the last effective reconcile was not.

A route from elsewhere (`to` is `None`) has any number of matcher sets, each with any number of hosts and
a matcher: a catch-all, one of the two kinds of path CaddyTower reads, or `"other"`, everything it does
not know, Caddy's own `path` included. `MatchedKeys` is what `routeMatchesManagedKeys` makes of it: a key
for every host of every set, an unknown matcher counting as the catch-all, and one managed key is enough
to drop the route whole. `UnmanagedStays` says what such a route can rely on under that rule;
`MatchedByHostAndMatcher` says what `docs/MIGRATION.md` promises, and a run shows it violated.

Abstractions: a path is its kind of matcher, so paths of different length are not ordered, and of several
paths in one matcher the first stands for all, as it does in the code; the sort is by specificity alone,
routes of one specificity coming in some order (`Alike`), since the order of hosts decides nothing about
who serves a request; TLS, `listen` and everything in the configuration outside of `srv0`'s routes is left
out (the merge does not touch it).

### DbEngines

State: one engine (`kind` chooses PostgreSQL or MariaDB, whose statements come in different orders),
the root password in the settings and the one its volume was initialised with, its databases and
users, the rows of `project_db_attachments`, and what each project's container was given as
environment. A password, and the id of a row, is the number of the request that made it: all that
matters is which request's it is.

| Code | Actions |
|---|---|
| the handlers of `internal/projects/service.go` | `AttachDatabase`, `RotateDatabaseAttachment`, `DeleteDatabaseAttachment`, `DeleteProject`; `NextAttachment`, `Purge` for the rest of the delete |
| `ensureEngine`, `rootPassword`, `waitForReady` | `InspectEngine`, `GetRoot`, `PutRoot`, `RecreateEngine`, `EngineReady` |
| `openPostgresAdmin`, `openMariaDBAdmin` | `OpenAdmin` |
| `provisionDatabase` | `CreateFirst`, `CreateSecond`, `UndoFirst`, `Grant` |
| `rotatePassword`, `dropDatabase` | `Alter`, `DropDatabase`, `DropUser` |
| the store's statements | `Insert`, `UpdateRow`, `DeleteRow` |
| `loadAttachments` and `applyProject` | `Load`, `Deploy` |
| a cancelled request, a restart, a failure that is not compensated; an engine that goes down | `Interrupt`, `EngineGone`, `EngineStops` |

The code undoes the first statement of `provisionDatabase` when the second fails (`UndoFirst`), and
both when the row cannot be inserted (`op` becomes `"undo"`, through `dropDatabase`). Everything
else that fails is left as it is: `disturbed` remembers the names on which a request ended with row,
database and user out of step, `behind` the projects whose rows changed
without the redeploy that should have followed.
Two more say where requests met: `mixed` has the projects on which two requests were at work at once, at
any time, and `rivals` is set when two requests are about to store a root password they generated. All
four are history variables, which no guard reads; deleting an attachment makes its name clean again.

Abstractions: `RecreateContainer` is one step here (`DeployPipeline` has its parts); the deletion of
the project's row, container and routes is one step, after the attachments; `FLUSH PRIVILEGES` is
part of the statement before it; `DumpAll` belongs to backups; a request names an attachment of its
own project, as the page does.

### Settings

State: the table, the records at Cloudflare, and per worker the copy of the table it has read. A request
`load`s (`LoadSettings`, and `StoreDefaultRoot` where the table has no root domain and the environment
does), reads (`ReadSecrets` for a GitHub form, `ReadAll`), and writes the whole copy back
(`SaveDeployment`, `SaveApplication`, through `Write`, which is `UpsertSettings`). A save goes on to
`Reconcile`, `DeleteRecords` of the old name, and `UpsertRecord`: `ClearConflicts`, `ListOwn`, then
`PutRecord` or `PostRecord`. `DeleteRecords` and `ClearConflicts` only decide whether there is something
to do; the deletes they lead to are one `ListDoomed` per record type and one `DeleteDoomed` per record
found, which another request may come between and a failure may stop half-way. Deploys and deletes of
one project join with their own name (`ApplyProject`, `DeleteProject`). `Acceptable` is what Cloudflare
takes: a CNAME stands alone and no record is there twice.

History: `wanted` is the table as the forms, one after another, asked for it, followed until the first
write that is based on a copy made stale by another write (`overtaken`); `settled` remembers the last
save while nothing has run beside or since. A secret is the number of the request that brought it, or 0
if it came with the environment. With `CfgApp` the GitHub App's credentials are in the environment too:
`InForce` is the webhook secret that counts, and a GitHub form without one stores it in the table
(`ReadSecrets`), as the code does; the environment's key is a file and is never stored.

Abstractions: the proxied flag, TTL and comment of a record; the environment has all four credentials
of the App or none; the App's ID and slug are one value; the root passwords of the engines, which
are in the same table but never change once stored, are in `DbEngines`.

### GitHubApp

Extends `Settings`: the webhook secret that verification uses is the one in that table, or the
environment's while there is none, so a secret lost there would silence the webhooks here. `Change` is
GitHub's side: an account installs, removes or suspends the app and a webhook, signed with the secret
GitHub has then, joins `mail`, from which it is delivered (`HandleWebhook`) late, out of order,
repeatedly or never. `DisconnectInstallation` is the button. An import runs `HandleImportCreate`,
`DetectImport`, `CreateWebProject`, then `DeployImport` or `WorkflowStep` for branch, file and pull
request; each may fail (`WorkflowStepFails`, whose effect may have happened) and be cut off.

The installation tokens are not state here: `projects.Service` builds a new GitHub service for every
request (`projects/service.go:1111`), so the cache in it never outlives a request.

### Access

A worker's task is what the request holds in local variables; every statement is a step.

| Code | Actions |
|---|---|
| `handleSetupSubmit`, `Bootstrap` | `Setup`, `CountUsers`, `CreateUser` |
| `Login` | `Login` (address limit), `FindUser`, `WrongCredentials` or `RightCredentials`, `ClearIPAttempts` |
| `createSession`, of a set-up or a login | `DeleteExpired`, `CreateSession` |
| `Authenticate` | `Request`, `DeleteExpired`, `GetSession`, `CheckSession`, `Answer` |
| `handleLogout` | `Logout` |
| `webhookRateLimiter.Allow` | `Webhook` |
| time, a request that is cut off, a new process | `Tick`, `Interrupt`, `Restart` |

A token is the number of the request that made it. `raced` remembers accounts of which two logins
overlapped: the count of failures is read before the password is compared and written after it, so
two of them may count as one, and `LockoutHolds` is about the other accounts. Password and TOTP are one
check that either passes or not; the e-mail of a user does not change. `Allow` reads the clock just
before it takes the mutex, with no call between, and `Webhook` is one step: a tick never falls between
the two.

### Controller

`Process` has the container `caddytower` and the clock. Four modules extend it, each with its `Init`,
its `Next` and what becomes of its memory when the process ends (`EventsLost`, `BackupsLost`,
`MonitorLost`) or starts (`BackupsStart`, `MonitorStart`); `Controller` puts them together. `main` does
not wait for `Shutdown`, so a stop, a restart and a crash all take requests, goroutines and timers with
them at any step; only the helper containers of an update and the files survive.

| Module | Code | Actions |
|---|---|---|
| `DeployEvents` | `SubscribeDeployEvents`, its cancel, the SSE handler | `SubscribeDeployEvents`, `Show`, `Leave`, `Cancel` |
| | `emitDeployEvent`, one step per subscriber | `EmitDeployEvent`, `Send`, `Emitted` |
| `Backups` | the loop, `RunNow` | `BackupDue`, `RequestBackup`, `LockBackups`, `Dump`, `CreateArchive`, `FillArchive`, `UnlockBackups` |
| | `pruneOld` and the `Stat` after it | `Prune` |
| `Monitor` | `checkAndNotify` | `CheckAndNotify`, `SendMail`, `RecordSent` |
| `ControllerUpdate` | the buttons and their timers | `HandleSettingsUpdate`, `HandleSettingsRestart`, `RestartController`, `RestartFails` |
| | the timer and `StartControllerUpdate`, which gives up or creates a helper | `StartControllerUpdate` |
| | `SelfUpdateController`, `RecreateContainer` | `Inspect`, `Pull`, `Look`, `Stop`, `Remove`, `Create`, `StartMine`, `HelperCut` |
| | a process that dies; Docker, after a stop of its own or a back-off | `Crash`, `DockerStarts` |

History variables: `due`, `shown` and `skipped` of a viewer; `reported` and `nightly` of the backups, and
`spoilt`, the names whose archive was damaged after its report (by a second run of the same second,
or by a close whose error nobody sees); `mails`; `overlapped` (two helpers were at work at once),
`cut` (a helper was ended by Docker or its two minutes after the stop of the old container and before
the start of the new one, or Docker did not start the container again) and `blinded` (a helper read the
ports while Docker was about to start the controller again). No guard reads them.

A restart and a crash take time: `Stops` puts the container in the state `restarting`, in which it has no
process and Docker reports no ports, until `DockerStarts` it or fails to. A helper may inspect, stop or
remove it meanwhile. What `blinded` excepts from `PortsKept` is what the code does then: the controller
comes back without its ports.

Abstractions: an event is its deploy and number; the name of an archive is the tick its run got its turn;
a warning is the set of resources that are low; a release is its version number, and installations
that follow a moving tag are left out; a container that is created or stopped has no process; Docker
reports ports of a running container only, which is why a helper that finds another's stopped
container would lose them.

## Runs

| Run | Instance | Shows |
|---|---|---|
| `deploy_pipeline_faults` | 2 workers, 2 images (one bad), the configuration with a health check, window of 3 deploys, creation and 2 further requests, every fault | type, `HistoryPinsOwnImage`, `OneRollbackPerRequest`, `LiveMeansServing`, `RollbackRestoresPrevious`, `ServingSurvives` |
| `deploy_pipeline_fair` | 2 workers, 2 configurations, forms with the tag or either digest, 1 further request, `FairSpec`, faults pull, docker, slow, publish | `RequestsEnd`, `ImplementsDeployLog` |
| `deploy_pipeline_overlap` | 2 workers, no faults | **violated**: a deploy reports live while its container is gone |
| `deploy_pipeline_unchecked` | 1 worker, no faults | **violated**: a rollback to an image that no health check ever saw |
| `caddy_routing_concurrent` | 2 workers, 2 projects, 2 subdomains, 1 root, 1 custom host with 2 foreign routes (one for a path on it and on another host, one with an unknown matcher), 2 ports, 3 requests, faults deploy, caddy | type, `UnmanagedStays`, `Published`, `ReconcileIsIdempotent` |
| `caddy_routing_foreign` | 1 worker, no faults | **violated**: a foreign route goes with a host or a matcher that nothing is published for |
| `caddy_routing_stale` | 1 worker, no faults | **violated**: the route of a deleted project stays |
| `db_engines_concurrent` | 2 workers, 2 projects with 3 databases between them, either engine, 3 requests, faults interrupt, statement, engine, deploy | type, `RootPasswordKnown`, `Consistent`, `EnvFollows` |
| `db_engines_delete` | 2 workers, 2 requests, no faults | **violated**: a deleted project leaves a database behind |
| `access` | 2 workers, 1 account, address and key, 4 requests, 3 ticks; sessions and lockouts of 2 ticks, lock after 2 failures, 2 logins an address, 1 webhook a window | type, `SessionsHonest`, `LoginsLimited`, `WebhooksLimited`, `LockoutHolds` |
| `administration` | 2 workers, 2 roots, 2 origins of different type, 3 foreign records (2 of them under CaddyTower's names), 1 installation, 1 project to import, credentials in the environment too, 3 requests, interruptions | type, `SavesStick`, `SecretsKept`, `AdminRecordFollows`, `OthersRecordsStay`, `InstallationsFollow`, `ImportsHonest` |
| `controller` | 2 deploys, 1 viewer with a buffer of 1, nightly and requested backups over 3 ticks with a day of 2, 2 resources, 2 updates over 3 releases of which the oldest is installed, 3 units of work | type, `NeverPanics`, `StreamsFaithful`, `ReportedBackupsKept`, `EachNightOnce`, `MailsSpaced`, `SilenceEarned`, `ControllerSurvives`, `PortsKept`, `ReleasesForward` |

The bounds: two workers are enough for every pairwise overlap, and the code has no operation that
depends on a third; with the creation and two further requests two deploys overlap after a third has
gone live, so there is something for them to destroy and to roll back to. A bad and a good image, a
checked and an unchecked configuration give both outcomes of the check. `ListLimit` stands for the
20 of `applyProject` and is set so that the window both covers and misses rows. Two projects over two
subdomains let a subdomain be reused, two ports let a redeploy change a route in place. `MaxRequests`
bounds users only. `CHECK_DEADLOCK FALSE` because a system with no request left rightly stops.

`deploy_pipeline_faults` has every fault and, so that a run can visit all of it, one configuration instead
of two: the one with a health check, which alone can roll back. A window of 3 lets a rollback choose
between two live deploys. Its forms keep the reference or type the tag: a digest as well would make it
6.4 million states, so typed digests, and the unchecked configuration, are in `deploy_pipeline_fair` and in
the theorems. Its properties are stated of every state that overlapping requests reach;
`deploy_pipeline_overlap` shows what becomes of a deploy that another one joins.

In `db_engines_concurrent` a name can be attached, rotated or detached twice and then something else, while
a second request works on the same project, on the other one or on the engine they share, with an engine
that stops in between. Two of the names have one owner, so that one project has attachments that stay
while another comes or goes.

In `access` two requests overlap in every way two can, a third and fourth let a lockout follow two
failures and a session be used after it ended; the durations are as short as they can be told apart
within `MaxTime`. In `administration` the second root domain makes a save move a name, the foreign
records conflict in type with what CaddyTower needs under its own names, and three requests are two
overlapping saves with one before or after. The GitHub forms bring secret and key, the secret alone or
neither, so that the environment's secret is in force, is stored by a form without one, and is replaced;
without credentials in the environment (`CfgApp` `FALSE`) the theorems hold as well.

In `controller` `MaxWork` counts everything that begins from
outside (subscriptions, events, backups, warnings, clicks, crashes) so that each activity can use the whole
budget: three allow two updates and a restart, an event that is dropped, or three backups; a buffer
of 1 is full after one event; `MaxTime` reaches the retention of a first backup and, with a day of two
ticks, the midnight after the first night, so that a run may begin before and end after it and a restart
fall on either side; what a second night adds is left to the theorem (`NightsOnce`), since one more tick
makes it 6.8 million states. With the oldest of three releases installed, two clicks can be on
their way to different releases, so that an update that a restart should have ended could take the
controller back. The activities share the process and the clock only, so a larger budget mostly
multiplies combinations.

What the properties except is part of what they say. `LiveMeansServing` and `RollbackRestoresPrevious`
except deploys and requests that others joined, though not what happened before or happens after to
other requests; `ServingSurvives` a replacement that was itself cut off, until a container starts again.
`Consistent` and `EnvFollows` except projects on which two requests were at work at once: two rotations of
one attachment may store the password the engine has forgotten. `RootPasswordKnown` excepts two first
requests that generate a root password at once, since the volume may get one and the settings the other.
Both are among the hazards. `SavesStick` excepts tables after an
overlapping write, since the code does lose the other form's fields then, and `SecretsKept` only that such
a write may bring back the environment's webhook secret; `AdminRecordFollows` is about a
save beside which nothing ran; `InstallationsFollow` about an installation whose newest webhook was the
last one processed; `LockoutHolds` about accounts whose logins did not overlap; `ReportedBackupsKept`
about names that were not spoilt; `PortsKept` and `ReleasesForward` about updates that did not overlap;
`ControllerSurvives` and `PortsKept` about helpers that nothing cut off between stop and start and
restarts that Docker brings to their end; `PortsKept` about helpers that did not read the ports of a
restarting controller. `UnmanagedStays` lets a foreign route go with any one of its keys. That last one
contradicts the documentation and is shown as such (`caddy_routing_foreign`); otherwise no document of the
repository promises the excepted cases.

**Fairness.** `FairSpec` has weak fairness of `Apply(w)`, per worker: Go schedules every runnable
goroutine, each call to Docker, the registry and Caddy ends in an answer or an error, and the health
check ends with its window, so a goroutine inside a request always goes on. Nothing is assumed of
users, CI, cancellations or restarts, and `deploy_pipeline_fair` leaves the latter two out: after a
restart a row does stay at `running`, which `RequestsEnd` therefore does not deny. The other
specifications state no fairness: their properties are about safety.

## What the violated runs show

1. Two deploys of one project (for instance two webhooks in close succession, which `README.md`
   suggests with a webhook after each push) run through `RecreateContainer` together. The second may
   remove the first one's container after the first has confirmed it, and the first still emits
   "Deployment is live." and records itself as live.
2. The image chosen for "Rolling back to the last healthy image" is that of the newest live deploy,
   and without a health check path a deploy is live unchecked.
3. The delete dialog promises to remove the "generated routing". The merge recognises CaddyTower's
   own routes by what is wanted *now*, so nothing recognises those of a deleted project.
4. `docs/MIGRATION.md` promises that "unmanaged routes stay in place" and that managed routes are matched
   "by host + route matcher". The merge drops a route whole as soon as one of its hosts, with its
   matcher, is managed: a route for two hosts is lost for both, and one with a matcher CaddyTower does
   not know goes with the first catch-all on its host.
5. The delete dialog promises to remove the "shared attachments". `DeleteProject` drops those it has
   read at its beginning; one attached meanwhile loses its row to the cascade, while its database and
   user stay in the engine with nothing that refers to them.

## Proofs

`DeployPipelineProofs` proves, for any set of workers, images and configurations, any faults and any
bounds:

| Theorem | States |
|---|---|
| `Invariance` | `Spec => []IInv`, the inductive invariant |
| `TypeCorrect` | `Spec => []TypeOK` |
| `PinsCorrect` | `Spec => []HistoryPinsOwnImage` |
| `ServingCorrect` | `Spec => []ServingSurvives` |
| `HistoryImplementsLog` | `Spec => ImplementsDeployLog` |

`HistoryPinsOwnImage` is not inductive: a row's pin is copied from a worker's `digest` when the deploy
ends, so the invariant has to say what that digest is worth until then. `IInv` adds, per worker, that
the row it holds exists, is still `running` without a digest, and that its digest is the image of the
container created for that row (`RowOK`), that no two workers hold one row (`RowsOwned`), that whatever
container holds the name was created for the row it says, with that row's image (`ContainerOK`), that a
pin kept for a rollback is named by the history (`PinOK`), that a tag is resolved only after a pull
(`SnapshotOK`), and that after a delete the project stays gone (`DeleteOK`). Three shapes of step make
up most of the proof: steps that only move a worker (`QuietStep`), steps that change something no
invariant of another worker reads (`LocalStep`), and steps that change the history, for which
`HistoryKept` says what the others may rely on.

`ServingSurvives` needs `ServingInv`: unless a replacement was cut off, a project that has had a container
and has none is waiting for a worker about to create one, and a container that is stopped is waiting for
one about to remove it or for its creator about to start it. A create that finds the name taken fails and
leaves the container there alone; that is what makes overlapping deploys harmless to the project as
such. Faults need no assumption: one that hits a worker outside of the replacement leaves container and
waiting workers as they were, one inside is what `cutOff` records, and a container that starts, whoever
starts it, ends the outage.

`HistoryImplementsLog` maps `log` to `deploys` and `image` to the record's image reference and uses
`IInv` for the two places where the log has a guard: a row is settled once, and a rollback goes to an
image the log names. A form may type any reference of `FormRefs`, a set about which nothing is assumed
but that it is one of references.

`DeployPipelineOutcomeProofs` adds what a request comes to:

| Theorem | States |
|---|---|
| `RollbacksBounded` | `Spec => []OneRollbackPerRequest`, overlapping requests and all faults included |
| `LiveServes` | `Spec => []LiveMeansServing` |
| `RollbackRestores` | `Spec => []RollbackRestoresPrevious` |

`OneRollbackPerRequest` bounds the length of the history by the number of requests, and a step knows
nothing of how many workers are under way. `Budget` therefore counts: every deploy that a worker's
request may still start (two before it has started one, one within its own deploy, none within a
rollback) is a token, the set `Tokens` is finite, and its size plus the length of the history never
exceeds two per accepted request. Accepting a request makes two tokens, `StartDeploy` trades one for a
row, every other step keeps or loses some.

The other two hold for any number of workers and need to know who is alone. `AloneInv` says that while the
newest deploy is one that started alone, no worker holds another row, and that a worker outside of
`joined` is the only one at work; a step of a request that starts (`Enters`), one of a request that goes on
(`GoesOn`) and `StartDeploy` keep it, each for its own reason. With this, `HoldsOK` can say of a deploy that
started alone that the container it has created is still there, its own and of its image, although others
may have entered since: whoever would replace the container has to open a row first, and with it the
newest deploy is another one. `AutoOK` says of a request that has been alone that, from the list it has
read to the end of the rollback, what it is after is the newest image that was live before. The newest live
row is said of the first `n` rows (`NewestLive`), so that appending rows keeps it. `LiveMeansServing` is part
of the invariant (`OutcomeInv`): a new row is not `live`, so the claim suspends itself during a deploy.

`DbEnginesProofs` and `DbEnginesDataProofs` prove, for any workers, projects, names, any owner of each
name, any faults and any bound:

| Theorem | States |
|---|---|
| `EnginesTypeCorrect` | `Spec => []TypeOK` |
| `RootPasswordCorrect` | `Spec => []RootPasswordKnown` |
| `AttachmentsConsistent` | `Spec => []Consistent` |
| `ContainersFollow` | `Spec => []EnvFollows` |

`TypeOK` says more than types (a row belongs to an existing project, a running engine has a root
password) and is not inductive: the row that `Insert` writes, the name that a statement works on and the
password `RecreateEngine` passes on come out of the worker's task. `TypeInv` adds `GoodTask`: at each
label, which of the task's fields hold real values, which operations can be there at all (an undo only
drops), and that an attachment's project is its name's owner.

`RootPasswordKnown` needs `RootInv`: until two requests generate a password at once, one that is at `rootPut`
is the only one there, finds nothing stored and the volume uninitialised, and one at `recreate` holds
what is stored. `rivals` is set by `GetRoot` when a second worker arrives at `rootPut`, which is the
interleaving hazard at `rootPassword`; no other step can store a password that the volume does not have.

`Consistent` and `EnvFollows` speak of projects at which nobody is at work; `Sync` says what holds on the
way, of one project and the one worker that may be at work on it. A name is `Settled` unless a request was
cut off half-way with it or is half-way now, and row, database and user of a settled name stand together
(`NamesOK`); a project that is neither behind nor about to be deployed has a container that knows its
attachments (`EnvsOK`). For the rest, `DataOK` says what there is of a name at each step of provisioning,
undoing and dropping, in the order of either engine, `ScopeOK` which names an operation may still touch,
above all that a project is deleted after its last row, and `EnvOK` that what was loaded for a deploy is
what the rows still say. `SyncInv` then says of every project that was never `mixed` that at most one
worker is at work on it (`Alone`) and that it is in step for any worker that could be that one. A step of a
request on another project leaves all of it `Untouched`, which is where it matters that a name has one
owner and that the statements of the engine go by name.

`CaddyRoutingProofs` proves, for any sets of workers, projects, hosts, rules and foreign routes, any
faults and any bound:

| Theorem | States |
|---|---|
| `RoutingTypeCorrect` | `Spec => []TypeOK` |
| `UnmanagedKept` | `Spec => []UnmanagedStays` |
| `ReconcilesPublish` | `Spec => []Published` |
| `ReconcilesIdempotent` | `Spec => ReconcileIsIdempotent` |

First come lemmas about lists. `Preserved` is a recursive function, and what it returns for every list
is shown by induction over its length (`AllNumbers`: a set of numbers with 0 that has with each number
the next has them all, from the fact that `<` on numbers is well-founded): the routes of which no key is
managed and no other (`PreservedRoutes`); and of a list whose first part has no managed key and whose
rest has only such, the first part (`PreservedBeginning`). `BuiltRoutes` says that `BuildConfig` lists
each wanted route, the more specific first, `MergedRoutes` what is in a merge, and `MergeTwice` that
merging the same routes into a merge changes nothing.

`ShapeInv` types what a reconcile carries, on which `RoutingTypeCorrect` and the other proofs rest.
`UnmanagedStays` is not inductive, because a reconcile that has read Caddy will later overwrite it with
what it read: `KeepsInv` therefore says of the live list and of *every* list about to be posted that it
has each foreign route, or one of CaddyTower's own in its place. `Published` and `ReconcileIsIdempotent`
need `SyncInv`: a worker that nothing has overtaken has read what the database has, collected the routes
of the projects it has read so far, and holds the list that is in Caddy (`WorkerSync`); and in sync,
merging what the database asks for into the live list would give the live list (`LiveSync`). What
`Published` says of the live list follows from that equation alone.

The theorems assume `FiniteAssumption`, that the sets of projects, custom hosts and foreign routes are
finite, since only a finite set of routes can be listed.

`ControllerProofs` proves, for any sets of deploys, viewers, requests, resources, updates and releases,
any durations, capacities and bounds:

| Theorem | States |
|---|---|
| `NobodyPanics` | `Spec => []NeverPanics` |
| `ViewersSeeInOrder` | `Spec => []StreamsFaithful` |
| `ControllerAlwaysReturns`, `PortsStay` | `Spec => []ControllerSurvives`, `Spec => []PortsKept` |
| `NoDowngrade` | `Spec => ReleasesForward` |
| `CooldownKept`, `SilenceIsEarned` | `Spec => []MailsSpaced`, `Spec => []SilenceEarned` |
| `BackupsStay`, `NightsOnce` | `Spec => []ReportedBackupsKept`, `Spec => []EachNightOnce` |
| `ControllerTypeCorrect` | `Spec => []TypeOK` |

The activities share little, so each has its own invariant, and one lemma says what a step of the whole
system may do to it (`EventsMove`, `BackupsMove`, `MonitorMove`, `UpdateMove`). `NeverPanics` needs that
whoever is in the table or still to be reached has an open channel (`EventsInv`): a viewer cancels only
while no emitter holds the lock. `StreamsFaithful` needs that no event was offered with a number above
its deploy's, and not yet that of an emission that is still to reach the viewer (`OfferedInv`), or a new
event would not come last. `ControllerSurvives` is not inductive, since between two calls of a helper
there is no controller: `SurvivalInv` says that some update then is exactly at the call that brings it
on (`Reviving`), or Docker is about to start it. `AloneInv` and `PortsInv` say where a helper that works
alone is, and what it has read, in each state of the container. `MailsSpaced` needs that a warning about
to be mailed has no sure mail within the cooldown (`MonitorInv`); `ReportedBackupsKept` that a run
filling an archive holds the mutex, and that what was reported under its name is spoilt from then on
(`BackupsInv`). `EachNightOnce` needs `NightsInv`: a night that has begun was due by then, and the time
the loop waits for, unless it is beyond the end of the clock, is the due time of a night not yet begun.
However late the timer or long the run, and after any restart, `NextScheduledRun` computes a due time
after the present, so of no night that has begun. Both this and the types rest on `BoundsInv`, that
clock and work stay within their bounds.

`AccessProofs` proves, for any sets of workers, accounts, addresses and keys, any limits and durations:

| Theorem | States |
|---|---|
| `SessionsEndOnTime` | `Spec => []SessionsHonest` |
| `LockoutStays` | `Spec => []LockoutHolds` |
| `LoginsStayLimited` | `Spec => []LoginsLimited` |
| `WebhooksStayLimited` | `Spec => []WebhooksLimited` |
| `AccessTypeCorrect` | `Spec => []TypeOK` |

`SessionInv` says that a token is in the table until its session has ended and then never again
(`TableOK`), that no two requests make the same token (`CreatorOK`), and what a request has a right to
conclude after its sweep and after its lookup (`UserOK`). `LockInv` says that an account's row is what
its history of failures comes to, unless two of its logins overlapped (`RowTrue`), and that a login past
the lookup holds that row's count and found no lock (`LoginTrue`). `LoginInv` says that the attempts in
memory are all those of the last window, so that one more is let through only if they are fewer than the
limit, and that no login has more than the limit within a window from it (`Following`). `HookInv`
relates a key's window to the calls of the history (`WindowTrue`): the calls since it was opened are
exactly its count, and those of the window before are no more than the limit. `TypeOK` bounds the
counters of failures by the number of requests, which needs `Bounded`: no count exceeds the number of
requests that are done with their password.

`GitHubAppProofs` proves, for any sets of workers, domains, targets, forms, foreign records,
installations and projects, any environment and any bound:

| Theorem | States |
|---|---|
| `TypesHold` | `Spec => []TypeOK` |
| `SecretsStay` | `Spec => SecretsKept` |
| `SavesHold` | `Spec => []SavesStick` |
| `AdminRecordStays` | `Spec => []AdminRecordFollows` |
| `OthersStay` | `Spec => []OthersRecordsStay` |
| `InstallationsTrue` | `Spec => []InstallationsFollow` |
| `ImportsTrue` | `Spec => []ImportsHonest` |

All rest on `ShapeInv`: what a request holds at each place of the code (`TaskOK`), above all that every
secret, in the table or in a copy of it, was brought by a request that has begun or, for the webhook
secret, came with the environment, and that a record with an id of Cloudflare's own has the name its owner
gave it (`Known`). `SecretsStay` follows, since `UpsertSettings` leaves alone what a copy lacks, with
`SticksInv` for the environment's secret: a copy that has it where the table has another is out of
date. `OthersStay` needs `ForeignAssumption`, that
Cloudflare's ids are distinct: the put goes by the id of a record listed before, and one with that id
has CaddyTower's name. `SavesStick` is not inductive: `SticksInv` adds that a copy about to be written
is the table itself unless it is marked out of date, and that the default root domain is only on its way
to a table without one (`Fresh`); `AskedIsStored` then says that what the code writes of such a copy is
what the form asks for. `AdminRecordFollows` needs `SettledInv`: a save beside which nothing has run has
table and zone to itself, and `SaveOK` says at each of its steps what is still to be done (the name
before is gone once `DeleteRecords` is through, what stands in the way is gone after `ClearConflicts`,
the record listed is the one in the zone), so that at its end the record is there (`Done`). `MailInv`
says that the newest webhook of an installation tells what GitHub has, `ImportOK` what an import may
have made and answered at each of its steps: before the first call nothing was made, and who has been
answered has a project.

The assumptions are those of the constants in the modules (reserved values differ from real ones, each
name has an owner, durations are positive, the installed release is one of the releases); TLC evaluates
them in each run.

Only model-checked: `RequestsEnd` (liveness under fairness), which is out of the prover's reach. Every
other property that a passing run checks is the statement of a theorem above.

## Not modelled

Each component left out is in `PROJECT.json` with its reason: the image update check, the user
interface, secrets and configuration keep no state and have no protocol. Within the modelled ones:
background projects (their deploys have no check and no routes), Watchtower labels, audit records,
streaming of logs, releases under a moving tag, temporary directories of killed backups, pull
requests asked for again from a project's page, and the wording of errors.

## Plan

What is left, in order of what matters most:

1. Composition: `DeployPipeline`'s `Publish` refined by `CaddyRouting`'s reconcile, and its DNS step by
   the one in `Settings`.
2. Background projects, and updates along a moving tag.
