---------------------------- MODULE CaddyRouting ----------------------------
(***************************************************************************)
(* How CaddyTower publishes its web projects through Caddy's admin API:    *)
(* reconcileCaddy and expandedProjectRoutes of internal/projects/service.go *)
(* and ReconcileManagedRoutes, MergeManagedRoutes and BuildConfig of       *)
(* internal/caddyadmin/service.go.                                         *)
(*                                                                         *)
(* A reconcile reads the settings, the list of projects, the rules of each *)
(* and then the domains of each, GETs Caddy's whole configuration, merges  *)
(* its routes into it and POSTs the result, with no lock around these      *)
(* calls and no revision on the POST.  The routes in Caddy that CaddyTower *)
(* did not write share the list with those it did; a route is replaced     *)
(* when one of its hosts, with its path if CaddyTower can read it, is one  *)
(* that some project asks for.                                             *)
(*                                                                         *)
(* An operator whose comment begins "A mutant" is no part of the model.    *)
(***************************************************************************)
EXTENDS Integers, SequencesExt

CONSTANTS
  Workers,      \* goroutines that may serve requests at once
  Projects,     \* web projects, as the slugs that name their containers
  Subs,         \* subdomains
  Roots,        \* root domains
  CustomHosts,  \* hostnames that may be added to a project
  RuleSets,     \* the HTTP route rules a project may be given
  Ports,        \* internal ports
  Unmanaged,    \* the routes that are in Caddy before CaddyTower comes
  Faults,       \* "deploy": the work before the routing may fail;
                \* "caddy": a call to Caddy may fail
  MaxRequests,  \* bound: requests served
  None, Controller

ASSUME ReservedAssumption ==
  None \notin Projects \cup Roots \cup {Controller} /\ Controller \notin Projects
ASSUME FiniteAssumption ==
  IsFiniteSet(Projects) /\ IsFiniteSet(CustomHosts) /\ IsFiniteSet(Unmanaged)
ASSUME MaxRequestsAssumption == MaxRequests \in Nat
ASSUME FaultsAssumption == Faults \subseteq {"deploy", "caddy"}

Hosts == ((Subs \cup {Controller}) \X (Roots \cup {None})) \cup CustomHosts

Matchers == {"host", "path_prefix", "path_exact"}

\* A rule's host is None for "@domains": the generated and the custom ones.
Rule == [host : CustomHosts \cup {None}, match : Matchers]

\* A route as CaddyTower writes it: what it matches, and the container it leads to.
ManagedRoute == [host : Hosts, match : Matchers,
                 to : Projects \cup {Controller}, port : Ports \cup {None}]

\* Any other route has matcher sets, of which it is enough that one matches.  Each
\* has hosts, and beside them no matcher, a path, or one that CaddyTower does not
\* know: "other".
Route == ManagedRoute \cup Unmanaged

ASSUME UnmanagedAssumption ==
  \A r \in Unmanaged : r.to = None /\ \A s \in r.sets : s.match \in Matchers \cup {"other"}
ASSUME RuleSetsAssumption == RuleSets \subseteq SUBSET Rule

VARIABLES
  root,      \* settings: the root domain, or None
  projects,  \* tables projects and project_http_routes, by slug
  domains,   \* table project_domains: the project each custom host belongs to
  live,      \* the routes of Caddy's server "srv0", in order
  tasks,     \* what each worker is doing, what it has read and has yet to read
  requests,  \* requests accepted so far (bounds the model)
  synced,    \* history: the last reconcile was of the present state
  overtaken  \* history: the workers whose reads something has outdated

vars == <<root, projects, domains, live, tasks, requests, synced, overtaken>>

Project == [sub : Subs, rules : RuleSets, port : Ports]

\* unread: the projects whose rules are not read yet; pending: their domains.
IdleTask == [pc |-> "idle", root |-> None, records |-> <<>>, unread |-> {}, pending |-> {},
             routes |-> {}, config |-> <<>>]

\* The root domain may come with the environment (config.RootDomain).
Init ==
  /\ root \in Roots \cup {None}
  /\ projects = [p \in Projects |-> None]
  /\ domains = [h \in CustomHosts |-> None]
  /\ live \in SetToSeqs(Unmanaged)
  /\ tasks = [w \in Workers |-> IdleTask]
  /\ requests = 0
  /\ synced = FALSE
  /\ overtaken = Workers

-----------------------------------------------------------------------------
(* The routes a project asks for.                                          *)

\* A mutant: the two labels the wrong way round.
FullDomainSwapped(sub, rootDomain) == <<rootDomain, sub>>

\* fqdn
FullDomain(sub, rootDomain) == <<sub, rootDomain>>

\* RouteKey: what makes two routes the same for the merge.
RouteKey(route) == <<route.host, route.match>>

\* effectiveProjectRouteHosts
RouteHosts(p, sub, rootDomain) ==
  {FullDomain(sub, rootDomain)} \cup {h \in CustomHosts : domains[h] = p}

\* expandedProjectRoutes of project p, as it was read, with the domains it has
\* now; defaultProjectHTTPRoutes when it has no rules.
ExpandedRoutes(p, record, rootDomain) ==
  LET rules == IF record.rules = {} THEN {[host |-> None, match |-> "host"]} ELSE record.rules
      hosts(rule) == IF rule.host = None THEN RouteHosts(p, record.sub, rootDomain)
                                         ELSE {rule.host}
  IN  UNION {{[host |-> h, match |-> rule.match, to |-> p, port |-> record.port] :
               h \in hosts(rule)} : rule \in rules}

\* The route to CaddyTower itself.
AdminRoutes(rootDomain) ==
  IF rootDomain = None THEN {}
  ELSE {[host |-> FullDomain(Controller, rootDomain), match |-> "host",
         to |-> Controller, port |-> None]}

\* routeSpecificity
Specificity(route) ==
  CASE route.match = "path_exact" -> 2
    [] route.match = "path_prefix" -> 1
    [] OTHER -> 0

\* The routes of one specificity, in some order.
Alike(routes, n) == SetToSeq({r \in routes : Specificity(r) = n})

\* A mutant: sorted the wrong way round.
BuildConfigReversed(routes) == Alike(routes, 0) \o Alike(routes, 1) \o Alike(routes, 2)

\* routeLess sorts by host first; only the order within a host decides who
\* serves what.
BuildConfig(routes) == Alike(routes, 2) \o Alike(routes, 1) \o Alike(routes, 0)

Managed(routes) == {RouteKey(r) : r \in routes}

\* What a route that is in Caddy is known by: each of its hosts, with the path
\* that goes with it; a matcher that is not known counts as none.
MatchedKeys(route) ==
  IF route.to # None THEN {RouteKey(route)}
  ELSE UNION {s.hosts \X {IF s.match = "other" THEN "host" ELSE s.match} : s \in route.sets}

\* routeMatchesManagedKeys: any of them is enough.
MatchesManagedKeys(route, keys) == MatchedKeys(route) \cap keys # {}

\* The loop over the routes there are: those that match no managed key are
\* preserved.
Preserved(config, keys) ==
  LET preserved[n \in 0..Len(config)] ==
        IF n = 0 THEN <<>>
        ELSE IF MatchesManagedKeys(config[n], keys) THEN preserved[n - 1]
        ELSE Append(preserved[n - 1], config[n])
  IN  preserved[Len(config)]

\* A mutant: routes matched by host only, as they once were.
MergeByHost(config, routes) ==
  LET unmanaged(r) == {k[1] : k \in MatchedKeys(r)} \cap {d.host : d \in routes} = {}
  IN  SelectSeq(config, unmanaged) \o BuildConfig(routes)

\* A mutant: every reconcile adds its routes to those already there.
MergeAppending(config, routes) == config \o BuildConfig(routes)

\* MergeManagedRoutes
Merge(config, routes) == Preserved(config, Managed(routes)) \o BuildConfig(routes)

-----------------------------------------------------------------------------
(* The handlers, up to the point where they call reconcileCaddy.           *)

At(w, label) == tasks[w].pc = label
Goto(w, label) == tasks' = [tasks EXCEPT ![w].pc = label]
Return(w) == tasks' = [tasks EXCEPT ![w] = IdleTask]

Accept(w) ==
  /\ At(w, "idle")
  /\ requests < MaxRequests
  /\ requests' = requests + 1

\* The deploy or the removal before the routing may fail.
ThenReconcile(w) ==
  \/ Goto(w, "settings")
  \/ "deploy" \in Faults /\ UNCHANGED tasks

\* The database has changed: what was read before is out of date.
Changed == synced' = FALSE /\ overtaken' = Workers

\* SaveSettings never clears the root domain.
SaveSettings(w) ==
  /\ Accept(w)
  /\ root' \in Roots
  /\ Goto(w, "settings")
  /\ Changed
  /\ UNCHANGED <<projects, domains, live>>

FreeSubs(p) == {s \in Subs : \A q \in Projects \ {p} :
                               projects[q] = None \/ projects[q].sub # s}

\* CreateProject; with SkipDeploy nothing is published.
CreateProject(w) ==
  /\ Accept(w)
  /\ \E p \in Projects :
       /\ projects[p] = None
       /\ \E s \in FreeSubs(p), rules \in RuleSets, port \in Ports :
            projects' = [projects EXCEPT ![p] = [sub |-> s, rules |-> rules, port |-> port]]
  /\ Goto(w, "settings") \/ UNCHANGED tasks
  /\ Changed
  /\ UNCHANGED <<root, domains, live>>

UpdateProject(w) ==
  /\ Accept(w)
  /\ \E p \in Projects :
       /\ projects[p] # None
       /\ \E s \in FreeSubs(p), rules \in RuleSets, port \in Ports :
            projects' = [projects EXCEPT ![p] = [sub |-> s, rules |-> rules, port |-> port]]
  /\ ThenReconcile(w)
  /\ Changed
  /\ UNCHANGED <<root, domains, live>>

\* A deploy of any other trigger: the record stays as it is.
Redeploy(w) ==
  /\ Accept(w)
  /\ \E p \in Projects : projects[p] # None
  /\ Goto(w, "settings")
  /\ UNCHANGED <<root, projects, domains, live, synced, overtaken>>

\* The domains go with the project; RemoveContainer comes before the routing.
DeleteProject(w) ==
  /\ Accept(w)
  /\ \E p \in Projects :
       /\ projects[p] # None
       /\ projects' = [projects EXCEPT ![p] = None]
       /\ domains' = [h \in CustomHosts |-> IF domains[h] = p THEN None ELSE domains[h]]
  /\ ThenReconcile(w)
  /\ Changed
  /\ UNCHANGED <<root, live>>

AddProjectDomain(w) ==
  /\ Accept(w)
  /\ \E p \in Projects, h \in CustomHosts :
       /\ projects[p] # None
       /\ domains[h] = None
       /\ h # FullDomain(projects[p].sub, root)
       /\ domains' = [domains EXCEPT ![h] = p]
  /\ Goto(w, "settings")
  /\ Changed
  /\ UNCHANGED <<root, projects, live>>

DeleteProjectDomain(w) ==
  /\ Accept(w)
  /\ \E h \in CustomHosts :
       /\ domains[h] # None
       /\ domains' = [domains EXCEPT ![h] = None]
  /\ Goto(w, "settings")
  /\ Changed
  /\ UNCHANGED <<root, projects, live>>

-----------------------------------------------------------------------------
(* reconcileCaddy.                                                         *)

LoadSettings(w) ==
  /\ At(w, "settings")
  /\ tasks' = [tasks EXCEPT ![w].root = root, ![w].pc = "list"]
  /\ overtaken' = overtaken \ {w}
  /\ UNCHANGED <<root, projects, domains, live, requests, synced>>

\* The rows that ListProjects reads first, and the route to CaddyTower itself.
ListProjects(w) ==
  /\ At(w, "list")
  /\ LET listed == {p \in Projects : projects[p] # None}
     IN  tasks' = [tasks EXCEPT ![w].records = projects,
                                ![w].unread = listed, ![w].pending = listed,
                                ![w].routes = AdminRoutes(tasks[w].root),
                                ![w].pc = "project"]
  /\ UNCHANGED <<root, projects, domains, live, requests, synced, overtaken>>

\* The rules of each come with a query of its own, once all rows are read: those
\* the project has by then, none if it is gone.
ReadRules(w) ==
  /\ At(w, "project")
  /\ \E p \in tasks[w].unread :
       tasks' = [tasks EXCEPT
                  ![w].unread = @ \ {p},
                  ![w].records[p].rules = IF projects[p] = None THEN {} ELSE projects[p].rules]
  /\ UNCHANGED <<root, projects, domains, live, requests, synced, overtaken>>

\* projectFromRecord reads the domains of each once the list is complete.
ReadProject(w) ==
  /\ At(w, "project")
  /\ tasks[w].unread = {}
  /\ \E p \in tasks[w].pending :
       tasks' = [tasks EXCEPT
                  ![w].pending = @ \ {p},
                  ![w].routes = @ \cup ExpandedRoutes(p, tasks[w].records[p], tasks[w].root)]
  /\ UNCHANGED <<root, projects, domains, live, requests, synced, overtaken>>

\* Nothing to publish, or no root domain to publish it under.
NothingToPublish(w) ==
  /\ At(w, "project")
  /\ tasks[w].pending = {}
  /\ tasks[w].root = None
  /\ Return(w)
  /\ UNCHANGED <<root, projects, domains, live, requests, synced, overtaken>>

GetConfig(w) ==
  /\ At(w, "project")
  /\ tasks[w].pending = {}
  /\ tasks[w].root # None
  /\ tasks' = [tasks EXCEPT ![w].config = live, ![w].pc = "post"]
  /\ UNCHANGED <<root, projects, domains, live, requests, synced, overtaken>>

\* The configuration is posted only if the merge has changed it.  What the
\* other workers have got from Caddy by now is then out of date.
Post(w) ==
  /\ At(w, "post")
  /\ LET merged == Merge(tasks[w].config, tasks[w].routes)
     IN  live' = IF merged = tasks[w].config THEN live ELSE merged
  /\ Return(w)
  /\ synced' = (w \notin overtaken \/ (synced /\ live' = live))
  /\ overtaken' = IF live' = live THEN overtaken
                  ELSE overtaken \cup {v \in Workers \ {w} : At(v, "post")}
  /\ UNCHANGED <<root, projects, domains, requests>>

\* The GET or the POST fails; nothing retries it.
CaddyFails(w) ==
  /\ "caddy" \in Faults
  /\ \/ At(w, "project") /\ tasks[w].pending = {} /\ tasks[w].root # None
     \/ At(w, "post")
  /\ Return(w)
  /\ UNCHANGED <<root, projects, domains, live, requests, synced, overtaken>>

Next ==
  \E w \in Workers :
    \/ SaveSettings(w) \/ CreateProject(w) \/ UpdateProject(w) \/ Redeploy(w)
    \/ DeleteProject(w) \/ AddProjectDomain(w) \/ DeleteProjectDomain(w)
    \/ LoadSettings(w) \/ ListProjects(w) \/ ReadRules(w) \/ ReadProject(w)
    \/ NothingToPublish(w) \/ GetConfig(w) \/ Post(w) \/ CaddyFails(w)

Spec == Init /\ [][Next]_vars

-----------------------------------------------------------------------------
(* Properties.                                                             *)

TypeOK ==
  /\ root \in Roots \cup {None}
  /\ projects \in [Projects -> Project \cup {None}]
  /\ domains \in [CustomHosts -> Projects \cup {None}]
  /\ ToSet(live) \subseteq Route
  /\ \A w \in Workers :
       /\ tasks[w].pc \in {"idle", "settings", "list", "project", "post"}
       /\ tasks[w].routes \subseteq Route
       /\ tasks[w].unread \subseteq tasks[w].pending /\ tasks[w].pending \subseteq Projects
       /\ ToSet(tasks[w].config) \subseteq Route
  /\ requests \in 0..MaxRequests
  /\ synced \in BOOLEAN
  /\ overtaken \subseteq Workers

\* What the database asks for now.
Wanted ==
  AdminRoutes(root) \cup
  UNION {ExpandedRoutes(p, projects[p], root) : p \in {q \in Projects : projects[q] # None}}

\* However reconciles interleave, a route that CaddyTower did not write stays,
\* even on a host it publishes other routes on, until one of its own routes for
\* one of the hosts and paths it is known by replaces it.
UnmanagedStays ==
  \A r \in Unmanaged :
    \/ Contains(live, r)
    \/ \E i \in DOMAIN live : live[i].to # None /\ RouteKey(live[i]) \in MatchedKeys(r)

\* docs/MIGRATION.md: "unmanaged routes stay in place.  Managed routes are now
\* matched by host + route matcher instead of host only": a route that CaddyTower
\* did not write stays unless its own routes match all that it matched.
MatchedByHostAndMatcher ==
  \A r \in Unmanaged :
    \/ Contains(live, r)
    \/ \A s \in r.sets : \A h \in s.hosts :
         \E i \in DOMAIN live : live[i].to # None /\ RouteKey(live[i]) = <<h, s.match>>

\* A reconcile that nothing has overtaken leaves Caddy with every route the
\* database asks for, with no other route for the same requests, and, within a
\* host, with the more specific route first.
Published ==
  (synced /\ root # None) =>
    /\ Wanted \subseteq ToSet(live)
    /\ \A i \in DOMAIN live : MatchesManagedKeys(live[i], Managed(Wanted)) => live[i] \in Wanted
    /\ \A i, j \in DOMAIN live :
         (/\ i < j /\ live[i] \in Wanted /\ live[j] \in Wanted
          /\ live[i].host = live[j].host)
         => Specificity(live[i]) >= Specificity(live[j])

\* Reconciling what is in sync already does not touch Caddy: the merge is
\* idempotent, and routes do not pile up.
ReconcileIsIdempotent == [][(synced /\ synced') => live' = live]_vars

\* The delete dialog: "CaddyTower will remove the managed container, generated
\* routing, custom domains".  After a reconcile that nothing has overtaken no
\* route leads to a project that does not exist.
DeletedRoutesGone ==
  synced => \A i \in DOMAIN live :
              live[i].to \in Projects => projects[live[i].to] # None
=============================================================================
