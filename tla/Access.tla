-------------------------------- MODULE Access --------------------------------
(***************************************************************************)
(* Who may come in: internal/auth/service.go, store/auth.go, the handlers  *)
(* of internal/server that sign in and out or ask for a user, and the rate *)
(* limiter of the deploy webhook (server/middleware.go).                   *)
(*                                                                         *)
(* Requests run side by side, every call to SQLite is a step.  Users and   *)
(* sessions are in the database; the attempts of an address and the        *)
(* webhook windows are in memory and guarded by a mutex.  Time is counted  *)
(* in ticks, and a token is the number of the request that made it.        *)
(* An operator whose comment begins "A mutant" is no part of the model.    *)
(***************************************************************************)
EXTENDS Integers, FiniteSets, Sequences

CONSTANTS
  Workers,          \* goroutines that may serve requests at once
  Emails,           \* addresses people sign in with
  Ips,              \* client addresses
  Keys,             \* keys of the webhook limiter: an address and a slug
  SessionTTL,       \* ticks; 12 hours
  LockoutAfter,     \* failed logins in a row that lock an account; 5
  LockoutDuration,  \* ticks; 15 minutes
  IpWindow,         \* ticks; 5 minutes
  IpLimit,          \* logins allowed per address and window; 20
  HookWindow,       \* ticks; a minute
  HookLimit,        \* webhooks allowed per key and window; 10
  MaxTime,          \* bound: ticks
  MaxRequests,      \* bound: requests served
  None

ASSUME DurationAssumption ==
  {SessionTTL, LockoutAfter, LockoutDuration, IpWindow, IpLimit, HookWindow, HookLimit}
    \subseteq Nat \ {0}
ASSUME BoundAssumption == MaxTime \in Nat /\ MaxRequests \in Nat

VARIABLES
  users,     \* table users, by e-mail: failures counted and end of the lockout
  sessions,  \* table sessions, by token: when it expires
  attempts,  \* memory: the logins of an address, each a request and its time
  windows,   \* memory: the limiter's entry of a key
  tasks,     \* what each worker is doing, and what it has read
  clock, requests,
  issued,    \* history: when each token ever issued expires
  revoked,   \* history: tokens signed out
  passed,    \* history: logins let through since the last success, by address
  calls,     \* history: webhooks answered since the start, by key
  streak,    \* history: failures in a row, by e-mail
  lockEnd,   \* history: when the lockouts so far end, by e-mail
  raced      \* history: e-mails of which two logins overlapped

memory == <<attempts, windows, passed, calls>>
history == <<issued, revoked, streak, lockEnd, raced>>
vars == <<users, sessions, memory, tasks, clock, requests, history>>

Numbers == 1..MaxRequests
Times == 0..MaxTime
Later == 0..(MaxTime + SessionTTL + LockoutDuration)
User == [failed : 0..MaxRequests, until : Later \cup {None}]
Window == [count : 1..HookLimit, started : Times, seen : Times]

ASSUME NoneAssumption == None \notin Int \cup Emails \cup Ips \cup User \cup Window

Labels == {"idle", "count", "create", "find", "compare", "session", "insert",
           "forget", "sweep", "look", "check", "admitted", "refused"}
Task == [pc : Labels, no : Numbers \cup {0}, email : Emails \cup {None}, ip : Ips \cup {None},
         failed : 0..MaxRequests, at : Times, token : Numbers \cup {0},
         until : Later \cup {None}, over : BOOLEAN]

IdleTask == [pc |-> "idle", no |-> 0, email |-> None, ip |-> None, failed |-> 0, at |-> 0,
             token |-> 0, until |-> None, over |-> FALSE]

NoLogins == [i \in Ips |-> {}]
NoCalls == [k \in Keys |-> <<>>]
NoWindows == [k \in Keys |-> None]

Init ==
  /\ users = [e \in Emails |-> None]
  /\ sessions = [t \in Numbers |-> None]
  /\ attempts = NoLogins /\ passed = NoLogins
  /\ windows = NoWindows /\ calls = NoCalls
  /\ tasks = [w \in Workers |-> IdleTask]
  /\ clock = 0 /\ requests = 0
  /\ issued = [t \in Numbers |-> None] /\ revoked = {}
  /\ streak = [e \in Emails |-> 0] /\ lockEnd = [e \in Emails |-> 0] /\ raced = {}

-----------------------------------------------------------------------------

At(w, label) == tasks[w].pc = label
Goto(w, label) == tasks' = [tasks EXCEPT ![w].pc = label]
Return(w) == tasks' = [tasks EXCEPT ![w] = IdleTask]

Accept ==
  /\ requests < MaxRequests
  /\ requests' = requests + 1
  /\ UNCHANGED <<clock, sessions>>

Begin(w, task) ==
  /\ At(w, "idle")
  /\ tasks' = [tasks EXCEPT ![w] = [task EXCEPT !.no = requests + 1]]

Users == {e \in Emails : users[e] # None}

-----------------------------------------------------------------------------
(* The first user.                                                         *)

\* handleSetupSubmit
Setup(w) ==
  /\ \E e \in Emails : Begin(w, [IdleTask EXCEPT !.pc = "count", !.email = e])
  /\ Accept
  /\ UNCHANGED <<users, memory, history>>

\* BootstrapRequired; the checks of the form may refuse as well.
CountUsers(w) ==
  /\ At(w, "count")
  /\ \/ Users = {} /\ Goto(w, "create")
     \/ Return(w)
  /\ UNCHANGED <<users, sessions, memory, clock, requests, history>>

NewUser == [failed |-> 0, until |-> None]

\* CreateUser: the column is unique.
CreateUser(w) ==
  LET e == tasks[w].email
  IN  /\ At(w, "create")
      /\ IF users[e] = None
         THEN users' = [users EXCEPT ![e] = NewUser] /\ Goto(w, "session")
         ELSE Return(w) /\ UNCHANGED users
      /\ UNCHANGED <<sessions, memory, clock, requests, history>>

-----------------------------------------------------------------------------
(* Signing in.                                                             *)

\* What is left of a list of logins; their order is never looked at.
Recent(logins, now) == {l \in logins : now - l[2] <= IpWindow}

\* A mutant: one login too many is let through.
AllowIPOneMore(ip, now) == Cardinality(Recent(attempts[ip], now)) <= IpLimit

AllowIP(ip, now) == Cardinality(Recent(attempts[ip], now)) < IpLimit

\* Login, up to the check of the address.
Login(w) ==
  \E e \in Emails, ip \in Ips :
    LET kept == Recent(attempts[ip], clock)
        login == <<requests + 1, clock>>
    IN  /\ At(w, "idle")
        /\ Accept
        /\ IF AllowIP(ip, clock)
           THEN /\ Begin(w, [IdleTask EXCEPT !.pc = "find", !.email = e, !.ip = ip])
                /\ attempts' = [attempts EXCEPT ![ip] = kept \cup {login}]
                /\ passed' = [passed EXCEPT ![ip] = @ \cup {login}]
           ELSE /\ attempts' = [attempts EXCEPT ![ip] = kept]
                /\ UNCHANGED <<tasks, passed>>
        /\ UNCHANGED <<users, windows, calls, history>>

Locked(e) == users[e].until # None /\ users[e].until > clock

\* GetUserByEmail: the count and the lockout are those of this moment, and
\* so is the time that is used from here on.
FindUser(w) ==
  LET e == tasks[w].email
  IN  /\ At(w, "find")
      /\ IF users[e] = None \/ Locked(e)
         THEN Return(w) /\ UNCHANGED raced
         ELSE /\ tasks' = [tasks EXCEPT ![w].pc = "compare", ![w].at = clock,
                                        ![w].failed = users[e].failed]
              /\ raced' = IF \E v \in Workers : At(v, "compare") /\ tasks[v].email = e
                          THEN raced \cup {e} ELSE raced
      /\ UNCHANGED <<users, sessions, memory, clock, requests, issued, revoked, streak, lockEnd>>

\* A mutant: the account is locked one failure too late.
LockLate(failed, now) ==
  IF failed > LockoutAfter THEN now + LockoutDuration ELSE None

\* The end of the lockout that a failure brings with it.
Lock(failed, now) ==
  IF failed >= LockoutAfter THEN now + LockoutDuration ELSE None

\* Password or code is wrong: the count read above, plus one, is written.
WrongCredentials(w) ==
  LET e == tasks[w].email
      failed == tasks[w].failed + 1
  IN  /\ At(w, "compare")
      /\ users' = [users EXCEPT ![e] = [failed |-> failed, until |-> Lock(failed, tasks[w].at)]]
      /\ streak' = [streak EXCEPT ![e] = @ + 1]
      /\ lockEnd' = IF streak[e] + 1 >= LockoutAfter
                    THEN [lockEnd EXCEPT ![e] = tasks[w].at + LockoutDuration]
                    ELSE lockEnd
      /\ Return(w)
      /\ UNCHANGED <<sessions, memory, clock, requests, issued, revoked, raced>>

\* ClearUserLoginFailures
RightCredentials(w) ==
  LET e == tasks[w].email
  IN  /\ At(w, "compare")
      /\ users' = [users EXCEPT ![e] = NewUser]
      /\ streak' = [streak EXCEPT ![e] = 0]
      /\ Goto(w, "session")
      /\ UNCHANGED <<sessions, memory, clock, requests, issued, revoked, lockEnd, raced>>

Unexpired(now) == [t \in Numbers |-> IF sessions[t] # None /\ sessions[t] <= now
                                     THEN None ELSE sessions[t]]

\* DeleteExpiredSessions, with which createSession and requireAuthenticated begin.
DeleteExpired(w) ==
  /\ At(w, "session") \/ At(w, "sweep")
  /\ sessions' = Unexpired(clock)
  /\ Goto(w, IF At(w, "session") THEN "insert" ELSE "look")
  /\ UNCHANGED <<users, memory, clock, requests, history>>

\* The rest of createSession.
CreateSession(w) ==
  LET token == tasks[w].no
      until == clock + SessionTTL
  IN  /\ At(w, "insert")
      /\ sessions' = [sessions EXCEPT ![token] = until]
      /\ issued' = [issued EXCEPT ![token] = until]
      /\ IF tasks[w].ip = None THEN Return(w) ELSE Goto(w, "forget")
      /\ UNCHANGED <<users, memory, clock, requests, revoked, streak, lockEnd, raced>>

\* clearIPAttempts
ClearIPAttempts(w) ==
  /\ At(w, "forget")
  /\ attempts' = [attempts EXCEPT ![tasks[w].ip] = {}]
  /\ passed' = [passed EXCEPT ![tasks[w].ip] = {}]
  /\ Return(w)
  /\ UNCHANGED <<users, sessions, windows, calls, clock, requests, history>>

-----------------------------------------------------------------------------
(* Using a session, and signing out.                                       *)

Tokens == {t \in Numbers : issued[t] # None}

\* The session has ended: it was signed out, or its time is up.
Ended(t) == t \in revoked \/ clock >= issued[t]

\* requireAuthenticated with the cookie of some session there has been;
\* there has been one, so BootstrapRequired says no.
Request(w) ==
  /\ \E t \in Tokens :
       Begin(w, [IdleTask EXCEPT !.pc = "sweep", !.token = t, !.over = Ended(t)])
  /\ Accept
  /\ UNCHANGED <<users, memory, history>>

GetSession(w) ==
  LET until == sessions[tasks[w].token]
  IN  /\ At(w, "look")
      /\ IF until = None THEN Goto(w, "refused")
         ELSE tasks' = [tasks EXCEPT ![w].pc = "check", ![w].until = until]
      /\ UNCHANGED <<users, sessions, memory, clock, requests, history>>

CheckSession(w) ==
  /\ At(w, "check")
  /\ IF tasks[w].until < clock
     THEN /\ sessions' = [sessions EXCEPT ![tasks[w].token] = None]
          /\ Goto(w, "refused")
     ELSE UNCHANGED sessions /\ Goto(w, "admitted")
  /\ UNCHANGED <<users, memory, clock, requests, history>>

Answer(w) ==
  /\ tasks[w].pc \in {"admitted", "refused"}
  /\ Return(w)
  /\ UNCHANGED <<users, sessions, memory, clock, requests, history>>

\* A mutant: the cookie is cleared, the session is not.
LogoutCookieOnly(w) ==
  \E t \in Tokens :
    /\ At(w, "idle")
    /\ requests < MaxRequests
    /\ requests' = requests + 1
    /\ revoked' = revoked \cup {t}
    /\ UNCHANGED <<users, sessions, memory, tasks, clock, issued, streak, lockEnd, raced>>

\* handleLogout: one statement.
Logout(w) ==
  \E t \in Tokens :
    /\ At(w, "idle")
    /\ requests < MaxRequests
    /\ requests' = requests + 1
    /\ sessions' = [sessions EXCEPT ![t] = None]
    /\ revoked' = revoked \cup {t}
    /\ UNCHANGED <<users, memory, tasks, clock, issued, streak, lockEnd, raced>>

-----------------------------------------------------------------------------
(* The limiter of the deploy webhook.                                      *)

\* A mutant: a window goes on from the last call, not from its first.
OpenSliding(window, now) == window # None /\ now - window.seen < HookWindow

\* A mutant: the call that opens a window is not counted, in effect.
FullOneMore(window) == window.count >= HookLimit + 1

\* The window a call falls into is still open.
Open(window, now) == window # None /\ now - window.started < HookWindow

Full(window) == window.count >= HookLimit

Pruned(now) ==
  [k \in Keys |-> IF windows[k] # None /\ now - windows[k].seen > HookWindow
                  THEN None ELSE windows[k]]

\* The entry of a key after a call: a window's first, or one more, or refused.
Called(window, now, refused) ==
  IF ~Open(window, now) THEN [count |-> 1, started |-> now, seen |-> now]
  ELSE [window EXCEPT !.seen = now, !.count = IF refused THEN @ ELSE @ + 1]

\* webhookRateLimiter.Allow, within its mutex.
Webhook(w) ==
  \E k \in Keys :
    LET kept == Pruned(clock)
        refused == Open(kept[k], clock) /\ Full(kept[k])
    IN  /\ At(w, "idle")
        /\ Accept
        /\ windows' = [kept EXCEPT ![k] = Called(@, clock, refused)]
        /\ calls' = [calls EXCEPT ![k] = Append(@, <<clock, ~refused>>)]
        /\ UNCHANGED <<users, attempts, passed, tasks, history>>

-----------------------------------------------------------------------------
(* The environment.                                                        *)

Tick ==
  /\ clock < MaxTime
  /\ clock' = clock + 1
  /\ UNCHANGED <<users, sessions, memory, tasks, requests, history>>

\* The browser goes away, or a statement fails.
Interrupt(w) ==
  /\ ~At(w, "idle")
  /\ Return(w)
  /\ UNCHANGED <<users, sessions, memory, clock, requests, history>>

\* The controller restarts: what it keeps in memory is empty again.
Restart ==
  /\ tasks' = [w \in Workers |-> IdleTask]
  /\ attempts' = NoLogins /\ passed' = NoLogins
  /\ windows' = NoWindows /\ calls' = NoCalls
  /\ UNCHANGED <<users, sessions, clock, requests, history>>

Next ==
  \/ \E w \in Workers :
       \/ Setup(w) \/ CountUsers(w) \/ CreateUser(w)
       \/ Login(w) \/ FindUser(w) \/ WrongCredentials(w) \/ RightCredentials(w)
       \/ CreateSession(w) \/ ClearIPAttempts(w)
       \/ Request(w) \/ DeleteExpired(w) \/ GetSession(w) \/ CheckSession(w) \/ Answer(w)
       \/ Logout(w) \/ Webhook(w) \/ Interrupt(w)
  \/ Tick
  \/ Restart

Spec == Init /\ [][Next]_vars

-----------------------------------------------------------------------------
(* Properties.                                                             *)

\* The state has the shape of the tables, the maps and the local variables,
\* and no window counts more calls than the limit.
TypeOK ==
  /\ users \in [Emails -> User \cup {None}]
  /\ sessions \in [Numbers -> Later \cup {None}]
  /\ attempts \in [Ips -> SUBSET (Numbers \X Times)]
  /\ passed \in [Ips -> SUBSET (Numbers \X Times)]
  /\ windows \in [Keys -> Window \cup {None}]
  /\ calls \in [Keys -> Seq(Times \X BOOLEAN)]
  /\ tasks \in [Workers -> Task]
  /\ clock \in Times /\ requests \in 0..MaxRequests
  /\ issued \in [Numbers -> Later \cup {None}] /\ revoked \subseteq Tokens
  /\ streak \in [Emails -> 0..MaxRequests] /\ lockEnd \in [Emails -> Later]
  /\ raced \subseteq Emails

\* A request that began after its session was signed out, or after its time
\* was up, is never admitted, whatever runs beside it; and one is refused only
\* if the session has ended: the sweeps of other requests and a restart take
\* nobody's session early.
SessionsHonest ==
  \A w \in Workers :
    /\ At(w, "admitted") => ~tasks[w].over
    /\ At(w, "refused") => Ended(tasks[w].token)

\* However logins from an address interleave, no more than IpLimit of them
\* since the last success or restart reach the database within IpWindow.
LoginsLimited ==
  \A ip \in Ips : \A first \in passed[ip] :
    Cardinality({l \in passed[ip] : l[2] - first[2] \in 0..IpWindow}) <= IpLimit

\* The windows of the webhook limiter are fixed, not sliding: in any stretch of
\* a window's length at most two windows' worth of calls is let through, and a
\* call is refused only if a whole window's worth was let through just before.
WebhooksLimited ==
  \A k \in Keys :
    LET log == calls[k]
        Let(from, to) == {i \in DOMAIN log : log[i][2] /\ log[i][1] > from /\ log[i][1] <= to}
    IN  \A i \in DOMAIN log :
          LET now == log[i][1]
          IN  /\ Cardinality(Let(now - HookWindow, now)) <= 2 * HookLimit
              /\ ~log[i][2] => Cardinality(Let(now - HookWindow, now)) >= HookLimit

\* Where the logins of an account do not overlap, nobody signs in to it between
\* the failure that locks it and the end of the lockout, whatever else runs,
\* is interrupted or restarts in between.
LockoutHolds ==
  [][\A w \in Workers :
       At(w, "compare") /\ tasks'[w].pc = "session" /\ tasks[w].email \notin raced
         => tasks[w].at >= lockEnd[tasks[w].email]]_vars
=============================================================================
