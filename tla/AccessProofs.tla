----------------------------- MODULE AccessProofs -----------------------------
(***************************************************************************)
(* Theorems about Access, for any sets of workers, users and addresses,    *)
(* any durations and any bounds: sessions end when they should, and not    *)
(* before; the limiters let through what they should; a lockout holds.     *)
(***************************************************************************)
EXTENDS Access, FiniteSetTheorems, SequenceTheorems, TLAPS

\* The places of a request that may yet make a session, and of one that shows
\* the token of an old one.
Creating == {"count", "create", "find", "compare", "session", "insert"}
Using == {"sweep", "look", "check", "admitted", "refused"}

WideUser == [failed : Nat, until : Nat \cup {None}]
WideTask == [pc : Labels, no : Nat, email : Emails \cup {None}, ip : Ips \cup {None},
             failed : Nat, at : Nat, token : Nat, until : Nat \cup {None}, over : BOOLEAN]

Typed ==
  /\ clock \in Nat /\ requests \in 0..MaxRequests
  /\ users \in [Emails -> WideUser \cup {None}]
  /\ sessions \in [Numbers -> Nat \cup {None}]
  /\ issued \in [Numbers -> Nat \cup {None}]
  /\ revoked \subseteq Tokens
  /\ tasks \in [Workers -> WideTask]

\* A token is in the table until its session has ended, and then never again.
TableOK ==
  /\ \A t \in Numbers : issued[t] # None => t <= requests
  /\ \A t \in Numbers : sessions[t] # None => sessions[t] = issued[t] /\ t \notin revoked
  /\ \A t \in Numbers : issued[t] # None /\ sessions[t] = None => Ended(t)

\* No two requests make the same token.
CreatorOK(w) ==
  tasks[w].pc \in Creating =>
    /\ tasks[w].no \in 1..requests /\ issued[tasks[w].no] = None
    /\ \A v \in Workers \ {w} : tasks[v].pc \in Creating => tasks[v].no # tasks[w].no

\* A session that had ended when the request began is out of the table once the
\* request has swept it.
UserOK(w) ==
  tasks[w].pc \in Using =>
    /\ tasks[w].token \in Tokens
    /\ tasks[w].over => Ended(tasks[w].token)
    /\ tasks[w].pc = "look" /\ tasks[w].over => sessions[tasks[w].token] = None
    /\ tasks[w].pc = "check" => ~tasks[w].over /\ tasks[w].until = issued[tasks[w].token]
    /\ tasks[w].pc = "admitted" => ~tasks[w].over
    /\ tasks[w].pc = "refused" => Ended(tasks[w].token)

\* The inductive invariant: SessionsHonest is UserOK at the last two places.
SessionInv == Typed /\ TableOK /\ \A w \in Workers : CreatorOK(w) /\ UserOK(w)

\* No session, no token and no request yet.
LEMMA InitSessionInv == Init => SessionInv
  BY BoundAssumption
     DEF Init, SessionInv, Typed, TableOK, CreatorOK, UserOK, Creating, Using, IdleTask, WideTask,
         Labels, WideUser, Tokens

\* A step of w that leaves the sessions alone and ends at a place where nothing
\* is said about it, or where it was before as far as that is concerned.
LEMMA QuietTask ==
  ASSUME SessionInv, NEW w \in Workers, NEW task \in WideTask, Typed',
         UNCHANGED <<sessions, issued, revoked, clock>>, requests' >= requests,
         tasks' = [tasks EXCEPT ![w] = task],
         task.pc \notin Using,
         task.pc \in Creating => tasks[w].pc \in Creating /\ task.no = tasks[w].no
  PROVE  SessionInv'
  <1>1. tasks'[w] = task /\ \A v \in Workers \ {w} : tasks'[v] = tasks[v]
    BY DEF SessionInv, Typed
  <1>2. requests \in Int /\ requests' \in Int
    BY BoundAssumption DEF SessionInv, Typed
  <1>3. TableOK'
    BY <1>2 DEF SessionInv, TableOK, Ended, Numbers
  <1>4. \A v \in Workers : CreatorOK(v)'
    BY <1>1, <1>2 DEF SessionInv, CreatorOK
  <1>5. \A v \in Workers : UserOK(v)'
    BY <1>1 DEF SessionInv, UserOK, Ended, Tokens
  <1> QED
    BY <1>3, <1>4, <1>5 DEF SessionInv

\* A request that begins takes a number nobody has.
LEMMA BeginTask ==
  ASSUME SessionInv, NEW w \in Workers, NEW task \in WideTask, Typed',
         UNCHANGED <<sessions, issued, revoked, clock>>, requests' = requests + 1,
         tasks' = [tasks EXCEPT ![w] = task],
         task.no = requests + 1,
         task.pc \in Creating \cup {"sweep"},
         task.pc = "sweep" => task.token \in Tokens /\ (task.over => Ended(task.token))
  PROVE  SessionInv'
  <1>1. tasks'[w] = task /\ \A v \in Workers \ {w} : tasks'[v] = tasks[v]
    BY DEF SessionInv, Typed
  <1>2. requests \in Nat /\ requests' \in 0..MaxRequests /\ requests + 1 \in Numbers
    BY BoundAssumption DEF SessionInv, Typed, Numbers
  <1>3. TableOK'
    BY <1>2 DEF SessionInv, TableOK, Ended, Numbers
  <1>4. issued[requests + 1] = None
    BY <1>2 DEF SessionInv, TableOK
  <1>5. \A v \in Workers : CreatorOK(v)'
    BY <1>1, <1>2, <1>4 DEF SessionInv, CreatorOK
  <1>6. \A v \in Workers : UserOK(v)'
    BY <1>1 DEF SessionInv, UserOK, Ended, Tokens, Creating, Using
  <1> QED
    BY <1>3, <1>5, <1>6 DEF SessionInv
\* Every step leaves the variables of the shape Typed gives them.
LEMMA StepTyped == SessionInv /\ [Next]_vars => Typed'
  <1> SUFFICES ASSUME SessionInv, Typed, [Next]_vars PROVE Typed'
    BY DEF SessionInv
  <1> USE BoundAssumption
  <1>0. IdleTask \in WideTask
    BY DEF IdleTask, WideTask, Labels
  <1>d. SessionTTL \in Nat /\ LockoutDuration \in Nat
    BY DurationAssumption
  <1>b. ASSUME NEW w \in Workers, NEW task \in WideTask, Begin(w, task), Accept
        PROVE  tasks' \in [Workers -> WideTask] /\ requests' \in 0..MaxRequests
               /\ clock' = clock /\ sessions' = sessions
    <2>1. [task EXCEPT !.no = requests + 1] \in WideTask
      BY DEF WideTask, Typed
    <2> QED
      BY <1>b, <2>1 DEF Begin, Accept, Typed
  <1>1. CASE \E w \in Workers : Setup(w) \/ Login(w) \/ Request(w)
    <2> PICK w \in Workers : Setup(w) \/ Login(w) \/ Request(w)
      BY <1>1
    <2>1. CASE Setup(w)
      <3> PICK e \in Emails : Begin(w, [IdleTask EXCEPT !.pc = "count", !.email = e])
        BY <2>1 DEF Setup
      <3>1. [IdleTask EXCEPT !.pc = "count", !.email = e] \in WideTask
        BY <1>0 DEF WideTask, Labels
      <3> QED
        BY <1>b, <2>1, <3>1 DEF Setup, Typed, history, Tokens
    <2>2. CASE Login(w)
      <3> PICK e \in Emails, ip \in Ips :
            /\ Accept /\ UNCHANGED <<users, history>>
            /\ \/ Begin(w, [IdleTask EXCEPT !.pc = "find", !.email = e, !.ip = ip])
               \/ UNCHANGED tasks
        BY <2>2 DEF Login
      <3>1. [IdleTask EXCEPT !.pc = "find", !.email = e, !.ip = ip] \in WideTask
        BY <1>0 DEF WideTask, Labels
      <3> QED
        BY <1>b, <3>1 DEF Accept, Typed, history, Tokens
    <2>3. CASE Request(w)
      <3> PICK t \in Tokens :
            Begin(w, [IdleTask EXCEPT !.pc = "sweep", !.token = t, !.over = Ended(t)])
        BY <2>3 DEF Request
      <3>1. [IdleTask EXCEPT !.pc = "sweep", !.token = t, !.over = Ended(t)] \in WideTask
        <4>1. Ended(t) \in BOOLEAN
          BY DEF Ended
        <4>2. t \in Nat
          BY DEF Tokens, Numbers
        <4> HIDE DEF Ended
        <4> QED
          BY <1>0, <4>1, <4>2 DEF WideTask, Labels
      <3> QED
        BY <1>b, <2>3, <3>1 DEF Request, Typed, history, Tokens
    <2> QED
      BY <2>1, <2>2, <2>3
  <1>2. CASE \E w \in Workers : CountUsers(w) \/ CreateUser(w) \/ FindUser(w)
                               \/ WrongCredentials(w) \/ RightCredentials(w)
    <2> PICK w \in Workers : CountUsers(w) \/ CreateUser(w) \/ FindUser(w)
                               \/ WrongCredentials(w) \/ RightCredentials(w)
      BY <1>2
    <2>1. CASE CountUsers(w)
      BY <1>0, <2>1 DEF CountUsers, Goto, Return, Typed, WideTask, Labels, memory, history, Tokens
    <2>2. CASE CreateUser(w)
      BY <1>0, <2>2 DEF CreateUser, NewUser, WideUser, Goto, Return, Typed, WideTask, Labels, memory,
                        history, Tokens
    <2>3. CASE FindUser(w)
      BY <1>0, <2>3 DEF FindUser, WideUser, Return, Typed, WideTask, Labels, memory, Tokens
    <2>4. CASE WrongCredentials(w)
      <3> DEFINE failed == tasks[w].failed + 1
      <3>1. [failed |-> failed, until |-> Lock(failed, tasks[w].at)] \in WideUser
        BY <1>d DEF WideUser, WideTask, Lock, Typed
      <3> QED
        BY <1>0, <2>4, <3>1 DEF WrongCredentials, Return, Typed, Tokens
    <2>5. CASE RightCredentials(w)
      BY ZenonT(30), <1>0, <2>5 DEF RightCredentials, NewUser, WideUser, Goto, Typed, WideTask, Labels, memory, Tokens
    <2> QED
      BY <2>1, <2>2, <2>3, <2>4, <2>5
  <1>3. CASE \E w \in Workers : CreateSession(w) \/ ClearIPAttempts(w) \/ DeleteExpired(w)
                               \/ GetSession(w) \/ CheckSession(w)
    <2> PICK w \in Workers : CreateSession(w) \/ ClearIPAttempts(w) \/ DeleteExpired(w)
                               \/ GetSession(w) \/ CheckSession(w)
      BY <1>3
    <2>0. Unexpired(clock) \in [Numbers -> Nat \cup {None}]
      BY DEF Unexpired, Typed
    <2>1. CASE CreateSession(w)
      <3> DEFINE until == clock + SessionTTL
      <3>1. until \in Nat /\ until # None
        BY <1>d, NoneAssumption DEF Typed
      <3>2. tasks' \in [Workers -> WideTask]
        BY <1>0, <2>1 DEF CreateSession, Goto, Return, Typed, WideTask, Labels
      <3>3. sessions' = [sessions EXCEPT ![tasks[w].no] = until]
            /\ issued' = [issued EXCEPT ![tasks[w].no] = until]
        BY <2>1 DEF CreateSession
      <3>4. UNCHANGED <<users, clock, requests, revoked>>
        BY <2>1 DEF CreateSession
      <3> HIDE DEF until
      <3> QED
        BY <2>0, <3>1, <3>2, <3>3, <3>4 DEF Typed, Tokens
    <2>2. CASE ClearIPAttempts(w)
      BY <1>0, <2>2 DEF ClearIPAttempts, Return, Typed, memory, history, Tokens
    <2>3. CASE DeleteExpired(w)
      BY <2>0, <2>3 DEF DeleteExpired, Goto, Typed, WideTask, Labels, memory, history, Tokens
    <2>4. CASE GetSession(w)
      <3>1. sessions[tasks[w].token] \in Nat \cup {None}
        BY <2>4 DEF GetSession, At, SessionInv, UserOK, Using, Typed, Tokens
      <3> QED
        BY <2>4, <3>1 DEF GetSession, Goto, Typed, WideTask, Labels, history, Tokens
    <2>5. CASE CheckSession(w)
      BY <2>5 DEF CheckSession, Goto, Typed, WideTask, Labels, memory, history, Tokens
    <2> QED
      BY <2>1, <2>2, <2>3, <2>4, <2>5
  <1>4. CASE \E w \in Workers : Answer(w) \/ Logout(w) \/ Webhook(w) \/ Interrupt(w)
    <2> PICK w \in Workers : Answer(w) \/ Logout(w) \/ Webhook(w) \/ Interrupt(w)
      BY <1>4
    <2>1. CASE Answer(w) \/ Interrupt(w)
      BY <1>0, <2>1 DEF Answer, Interrupt, Return, Typed, Tokens, history
    <2>2. CASE Logout(w)
      BY <2>2 DEF Logout, Typed, Tokens
    <2>3. CASE Webhook(w)
      <3>1. Accept /\ UNCHANGED <<users, tasks, history>>
        BY <2>3, Zenon DEF Webhook
      <3> QED
        BY <3>1 DEF Accept, Typed, Tokens, history
    <2> QED
      BY <2>1, <2>2, <2>3
  <1>5. CASE Tick
    BY <1>5 DEF Tick, Typed, Tokens, memory, history
  <1>6. CASE Restart
    BY <1>0, <1>6 DEF Restart, Typed, Tokens, history
  <1>7. CASE UNCHANGED vars
    BY <1>7 DEF vars, history, Typed, Tokens
  <1> QED
    BY <1>1, <1>2, <1>3, <1>4, <1>5, <1>6, <1>7 DEF Next
\* A step of w that leaves the tasks of the others alone, once TableOK and what
\* concerns w itself are known to hold after it.
LEMMA OneTask ==
  ASSUME SessionInv, NEW w \in Workers, Typed', TableOK', UserOK(w)',
         requests' = requests, clock' = clock, issued' = issued, revoked' = revoked,
         \A t \in Tokens : sessions[t] = None => sessions'[t] = None,
         tasks'[w].pc \in Creating => tasks[w].pc \in Creating /\ tasks'[w].no = tasks[w].no,
         \A v \in Workers \ {w} : tasks'[v] = tasks[v]
  PROVE  SessionInv'
  <1>1. \A v \in Workers : CreatorOK(v)'
    BY DEF SessionInv, CreatorOK
  <1>2. \A v \in Workers \ {w} : UserOK(v)'
    BY DEF SessionInv, UserOK, Ended, Tokens
  <1> QED
    BY <1>1, <1>2 DEF SessionInv

\* What the sweep takes out of the table has ended, and what has ended is out.
LEMMA Sweep ==
  ASSUME SessionInv, NEW t \in Numbers
  PROVE  /\ Unexpired(clock)[t] = None \/ Unexpired(clock)[t] = sessions[t]
         /\ sessions[t] = None => Unexpired(clock)[t] = None
         /\ sessions[t] # None /\ Unexpired(clock)[t] = None => Ended(t)
         /\ t \in Tokens /\ Ended(t) => Unexpired(clock)[t] = None
  <1> /\ clock \in Nat /\ issued[t] \in Nat \cup {None} /\ sessions[t] \in Nat \cup {None}
    BY DEF SessionInv, Typed
  <1> QED
    BY DEF SessionInv, TableOK, Unexpired, Ended, Tokens

\* A new session is entered under a token no request has.
LEMMA StepCreateSession ==
  ASSUME SessionInv, Typed', NEW w \in Workers, CreateSession(w)
  PROVE  SessionInv'
  <1> DEFINE n == tasks[w].no
             until == clock + SessionTTL
  <1>1. /\ sessions' = [sessions EXCEPT ![n] = until]
        /\ issued' = [issued EXCEPT ![n] = until]
        /\ UNCHANGED <<clock, requests, revoked>>
        /\ tasks[w].pc = "insert"
        /\ tasks' = [tasks EXCEPT ![w] = IdleTask]
           \/ tasks' = [tasks EXCEPT ![w] = [tasks[w] EXCEPT !.pc = "forget"]]
    BY DEF CreateSession, Goto, Return, At
  <1>2. tasks'[w].pc \notin Creating \cup Using /\ \A v \in Workers \ {w} : tasks'[v] = tasks[v]
    BY <1>1 DEF SessionInv, Typed, WideTask, IdleTask, Creating, Using
  <1>3. n \in 1..requests /\ issued[n] = None /\ n \notin Tokens
    BY <1>1 DEF SessionInv, CreatorOK, Creating, Tokens
  <1>4. n \in Numbers /\ requests \in Nat
    BY <1>3, BoundAssumption DEF SessionInv, Typed, Numbers
  <1>5. until # None
    BY DurationAssumption, NoneAssumption DEF SessionInv, Typed
  <1>6. DOMAIN sessions = Numbers /\ DOMAIN issued = Numbers
    BY DEF SessionInv, Typed
  <1>7. /\ \A t \in Numbers \ {n} : sessions'[t] = sessions[t] /\ issued'[t] = issued[t]
        /\ sessions'[n] = until /\ issued'[n] = until
    BY <1>1, <1>4, <1>6
  <1> HIDE DEF n, until
  <1>8. TableOK'
    <2> SUFFICES ASSUME NEW t \in Numbers
                 PROVE  /\ issued'[t] # None => t <= requests'
                        /\ sessions'[t] # None => sessions'[t] = issued'[t] /\ t \notin revoked'
                        /\ issued'[t] # None /\ sessions'[t] = None => Ended(t)'
      BY DEF TableOK
    <2>1. CASE t = n
      BY <1>1, <1>3, <1>4, <1>5, <1>7, <2>1 DEF SessionInv, Typed
    <2>2. CASE t # n
      BY <1>1, <1>7, <2>2 DEF SessionInv, TableOK, Ended
    <2> QED
      BY <2>1, <2>2
  <1>9. \A v \in Workers : CreatorOK(v)'
    <2> SUFFICES ASSUME NEW v \in Workers, tasks'[v].pc \in Creating
                 PROVE  CreatorOK(v)'
      BY DEF CreatorOK
    <2>1. v # w /\ tasks'[v] = tasks[v] /\ CreatorOK(v) /\ CreatorOK(w) /\ w \in Workers \ {v}
      BY <1>2 DEF SessionInv
    <2>2. tasks[v].no \in Numbers /\ tasks[v].no # n
      BY <1>1, <2>1, BoundAssumption DEF CreatorOK, Creating, n, SessionInv, Typed, Numbers
    <2> QED
      BY <1>1, <1>2, <1>7, <2>1, <2>2 DEF CreatorOK
  <1>10. \A v \in Workers : UserOK(v)'
    <2> SUFFICES ASSUME NEW v \in Workers, tasks'[v].pc \in Using
                 PROVE  UserOK(v)'
      BY DEF UserOK
    <2>1. v # w /\ tasks'[v] = tasks[v] /\ UserOK(v)
      BY <1>2 DEF SessionInv
    <2>2. tasks[v].token \in Tokens /\ tasks[v].token \in Numbers \ {n}
      BY <1>3, <2>1 DEF UserOK, Tokens
    <2> QED
      BY <1>1, <1>7, <2>1, <2>2 DEF UserOK, Ended, Tokens
  <1> QED
    BY <1>8, <1>9, <1>10 DEF SessionInv
\* Every action preserves SessionInv.
LEMMA StepSessionInv == SessionInv /\ [Next]_vars => SessionInv'
  <1> SUFFICES ASSUME SessionInv, [Next]_vars PROVE SessionInv'
    OBVIOUS
  <1>0. Typed /\ Typed' /\ IdleTask \in WideTask /\ requests + 1 \in Nat
    BY StepTyped, BoundAssumption DEF SessionInv, Typed, IdleTask, WideTask, Labels
  <1>1. ASSUME NEW w \in Workers, Setup(w) PROVE SessionInv'
    <2> PICK e \in Emails : Begin(w, [IdleTask EXCEPT !.pc = "count", !.email = e])
      BY <1>1 DEF Setup
    <2> DEFINE task == [IdleTask EXCEPT !.pc = "count", !.email = e, !.no = requests + 1]
    <2>1. /\ tasks' = [tasks EXCEPT ![w] = task] /\ requests' = requests + 1
          /\ UNCHANGED <<sessions, issued, revoked, clock>>
      BY <1>1 DEF Setup, Accept, Begin, history, IdleTask
    <2>2. task \in WideTask
      BY <1>0 DEF WideTask, Labels, Typed
    <2>3. task.pc = "count" /\ task.no = requests + 1
      BY DEF IdleTask
    <2> HIDE DEF task
    <2> QED
      BY <1>0, <2>1, <2>2, <2>3, BeginTask DEF Creating
  <1>2. ASSUME NEW w \in Workers, Login(w) PROVE SessionInv'
    <2> PICK e \in Emails, ip \in Ips :
          /\ Accept /\ UNCHANGED history
          /\ \/ Begin(w, [IdleTask EXCEPT !.pc = "find", !.email = e, !.ip = ip])
             \/ At(w, "idle") /\ UNCHANGED tasks
      BY <1>2 DEF Login
    <2>0. UNCHANGED <<sessions, issued, revoked, clock>> /\ requests' = requests + 1
      BY DEF Accept, history
    <2>1. CASE Begin(w, [IdleTask EXCEPT !.pc = "find", !.email = e, !.ip = ip])
      <3> DEFINE task == [IdleTask EXCEPT !.pc = "find", !.email = e, !.ip = ip, !.no = requests + 1]
      <3>1. tasks' = [tasks EXCEPT ![w] = task]
        BY <2>1 DEF Begin, IdleTask
      <3>2. task \in WideTask
        BY <1>0 DEF WideTask, Labels, Typed
      <3>3. task.pc = "find" /\ task.no = requests + 1
        BY DEF IdleTask
      <3> HIDE DEF task
      <3> QED
        BY <1>0, <2>0, <3>1, <3>2, <3>3, BeginTask DEF Creating
    <2>2. CASE At(w, "idle") /\ UNCHANGED tasks
      <3>1. tasks' = [tasks EXCEPT ![w] = tasks[w]] /\ tasks[w] \in WideTask
            /\ tasks[w].pc \notin Creating \cup Using /\ requests' >= requests
        BY <1>0, <2>0, <2>2 DEF At, Typed, Creating, Using
      <3> QED
        BY <1>0, <2>0, <3>1, QuietTask
    <2> QED
      BY <2>1, <2>2
  <1>3. ASSUME NEW w \in Workers, Request(w) PROVE SessionInv'
    <2> PICK t \in Tokens :
          Begin(w, [IdleTask EXCEPT !.pc = "sweep", !.token = t, !.over = Ended(t)])
      BY <1>3 DEF Request
    <2> DEFINE task == [IdleTask EXCEPT !.pc = "sweep", !.token = t, !.over = Ended(t),
                                        !.no = requests + 1]
    <2>1. /\ tasks' = [tasks EXCEPT ![w] = task] /\ requests' = requests + 1
          /\ UNCHANGED <<sessions, issued, revoked, clock>>
      BY <1>3 DEF Request, Accept, Begin, history, IdleTask
    <2>2. Ended(t) \in BOOLEAN /\ t \in Nat
      BY DEF Ended, Tokens, Numbers
    <2>3. task \in WideTask
      BY <1>0, <2>2 DEF WideTask, Labels, Typed
    <2>4. task.pc = "sweep" /\ task.no = requests + 1 /\ task.token = t /\ task.over = Ended(t)
      BY DEF IdleTask
    <2> HIDE DEF task
    <2> QED
      BY <1>0, <2>1, <2>3, <2>4, BeginTask
  <1>4. ASSUME NEW w \in Workers,
               \/ CountUsers(w) \/ CreateUser(w) \/ FindUser(w) \/ WrongCredentials(w)
               \/ RightCredentials(w) \/ ClearIPAttempts(w) \/ Answer(w) \/ Interrupt(w)
        PROVE  SessionInv'
    <2>1. PICK task \in {IdleTask, [tasks[w] EXCEPT !.pc = "create"], [tasks[w] EXCEPT !.pc = "session"],
                         [tasks[w] EXCEPT !.pc = "compare", !.at = clock,
                                          !.failed = users[tasks[w].email].failed]} :
            /\ tasks' = [tasks EXCEPT ![w] = task]
            /\ task.pc \in Creating => tasks[w].pc \in Creating
      <3>1. CASE CountUsers(w)
        BY <3>1, <1>0 DEF CountUsers, Goto, Return, At, Creating, IdleTask
      <3>2. CASE CreateUser(w)
        BY <3>2, <1>0 DEF CreateUser, Goto, Return, At, Creating, IdleTask
      <3>3. CASE FindUser(w)
        BY <3>3, <1>0 DEF FindUser, Return, At, Creating, IdleTask
      <3>4. CASE WrongCredentials(w)
        BY <3>4 DEF WrongCredentials, Return, Creating, IdleTask
      <3>5. CASE RightCredentials(w)
        BY <3>5, <1>0 DEF RightCredentials, Goto, At, Creating
      <3>6. CASE ClearIPAttempts(w) \/ Answer(w) \/ Interrupt(w)
        BY <3>6 DEF ClearIPAttempts, Answer, Interrupt, Return, Creating, IdleTask
      <3> QED
        BY <1>4, <3>1, <3>2, <3>3, <3>4, <3>5, <3>6
    <2>2. UNCHANGED <<sessions, issued, revoked, clock, requests>>
      BY <1>4 DEF CountUsers, CreateUser, FindUser, WrongCredentials, RightCredentials,
                  ClearIPAttempts, Answer, Interrupt, history
    <2>3. task = tasks'[w] /\ task \in WideTask /\ requests \in Nat /\ tasks[w] \in WideTask
      BY <1>0, <2>1, BoundAssumption DEF Typed
    <2>4. task.pc \notin Using /\ (task.pc \in Creating => task.no = tasks[w].no)
      <3>1. CASE task = IdleTask
        BY <3>1 DEF Using, Creating, IdleTask
      <3>2. CASE task # IdleTask
        BY <2>1, <2>3, <3>2 DEF Using, Creating, WideTask
      <3> QED
        BY <3>1, <3>2
    <2>5. requests' >= requests
      BY <2>2, <2>3
    <2> QED
      BY <1>0, <2>1, <2>2, <2>3, <2>4, <2>5, QuietTask
  <1>5. ASSUME NEW w \in Workers, CreateSession(w) PROVE SessionInv'
    BY <1>0, <1>5, StepCreateSession
  <1>6. ASSUME NEW w \in Workers, DeleteExpired(w) PROVE SessionInv'
    <2>1. /\ \/ tasks[w].pc = "sweep" /\ tasks' = [tasks EXCEPT ![w].pc = "look"]
             \/ tasks[w].pc = "session" /\ tasks' = [tasks EXCEPT ![w].pc = "insert"]
          /\ sessions' = Unexpired(clock) /\ UNCHANGED <<issued, revoked, clock, requests>>
      BY <1>6 DEF DeleteExpired, At, Goto, history
    <2>2. /\ \/ tasks[w].pc = "sweep" /\ tasks'[w].pc = "look"
             \/ tasks[w].pc = "session" /\ tasks'[w].pc = "insert"
          /\ tasks'[w].token = tasks[w].token
          /\ tasks'[w].over = tasks[w].over /\ tasks'[w].no = tasks[w].no
          /\ \A v \in Workers \ {w} : tasks'[v] = tasks[v]
      BY <1>0, <2>1 DEF Typed, WideTask
    <2>3. \A t \in Tokens : t \in Numbers
      BY DEF Tokens
    <2>4. TableOK'
      BY <2>1, Sweep DEF SessionInv, TableOK, Ended
    <2>5. UserOK(w)'
      BY <2>1, <2>2, <2>3, Sweep DEF SessionInv, UserOK, Using, Ended, Tokens
    <2> QED
      BY <1>0, <2>1, <2>2, <2>3, <2>4, <2>5, Sweep, OneTask DEF Creating
  <1>7. ASSUME NEW w \in Workers, GetSession(w) PROVE SessionInv'
    <2>1. /\ tasks[w].pc = "look" /\ UNCHANGED <<sessions, issued, revoked, clock, requests>>
          /\ UserOK(w) /\ tasks[w].token \in Tokens
      BY <1>7 DEF GetSession, At, history, SessionInv, UserOK, Using
    <2>2. /\ tasks'[w].token = tasks[w].token /\ tasks'[w].over = tasks[w].over
          /\ \A v \in Workers \ {w} : tasks'[v] = tasks[v]
          /\ \/ sessions[tasks[w].token] = None /\ tasks'[w].pc = "refused"
             \/ /\ sessions[tasks[w].token] # None /\ tasks'[w].pc = "check"
                /\ tasks'[w].until = sessions[tasks[w].token]
      BY <1>0, <1>7 DEF GetSession, Goto, Typed, WideTask
    <2>3. TableOK'
      BY <2>1 DEF SessionInv, TableOK, Ended
    <2>4. UserOK(w)'
      BY <2>1, <2>2 DEF SessionInv, TableOK, UserOK, Using, Ended, Tokens
    <2> QED
      BY <1>0, <2>1, <2>2, <2>3, <2>4, OneTask DEF Creating
  <1>8. ASSUME NEW w \in Workers, CheckSession(w) PROVE SessionInv'
    <2> DEFINE t == tasks[w].token
    <2>1. /\ tasks[w].pc = "check" /\ UNCHANGED <<issued, revoked, clock, requests>>
          /\ UserOK(w) /\ t \in Tokens /\ tasks[w].until = issued[t] /\ issued[t] \in Nat
          /\ clock \in Nat /\ ~tasks[w].over
      BY <1>0, <1>8 DEF CheckSession, At, history, SessionInv, UserOK, Using, Typed, Tokens
    <2>2. /\ tasks'[w].token = t /\ tasks'[w].over = tasks[w].over
          /\ \A v \in Workers \ {w} : tasks'[v] = tasks[v]
          /\ \/ /\ issued[t] < clock /\ tasks'[w].pc = "refused"
                /\ sessions' = [sessions EXCEPT ![t] = None]
             \/ tasks'[w].pc = "admitted" /\ sessions' = sessions
      BY <1>0, <1>8, <2>1 DEF CheckSession, Goto, Typed, WideTask
    <2>3. TableOK'
      BY <1>0, <2>1, <2>2 DEF SessionInv, TableOK, Ended, Typed
    <2>4. UserOK(w)'
      BY <2>1, <2>2 DEF UserOK, Using, Ended, Tokens
    <2>5. \A u \in Tokens : sessions[u] = None => sessions'[u] = None
      BY <1>0, <2>2 DEF Typed, Tokens
    <2> QED
      BY <1>0, <2>1, <2>2, <2>3, <2>4, <2>5, OneTask DEF Creating
  <1>9. ASSUME NEW w \in Workers, Logout(w) PROVE SessionInv'
    <2> PICK t \in Tokens :
          /\ sessions' = [sessions EXCEPT ![t] = None] /\ revoked' = revoked \cup {t}
          /\ requests' = requests + 1 /\ UNCHANGED <<tasks, clock, issued>>
      BY <1>9 DEF Logout
    <2>1. requests \in Nat /\ requests + 1 >= requests /\ t \in Numbers
      BY <1>0, BoundAssumption DEF Typed, Tokens
    <2>2. \A u \in Numbers : sessions'[u] = IF u = t THEN None ELSE sessions[u]
      BY <1>0 DEF Typed
    <2>3. TableOK'
      BY <1>0, <2>1, <2>2, BoundAssumption DEF SessionInv, TableOK, Ended, Typed, Numbers
    <2>4. \A v \in Workers : CreatorOK(v)'
      BY <2>1 DEF SessionInv, CreatorOK
    <2>5. \A v \in Workers : UserOK(v)'
      BY <2>2 DEF SessionInv, UserOK, Ended, Tokens
    <2> QED
      BY <1>0, <2>3, <2>4, <2>5 DEF SessionInv
  <1>10. ASSUME NEW w \in Workers, Webhook(w) PROVE SessionInv'
    <2>1. At(w, "idle") /\ Accept /\ UNCHANGED <<tasks, history>>
      BY <1>10, Zenon DEF Webhook
    <2>2. /\ UNCHANGED <<sessions, issued, revoked, clock>> /\ requests' = requests + 1
          /\ tasks' = [tasks EXCEPT ![w] = tasks[w]] /\ tasks[w] \in WideTask
          /\ tasks[w].pc \notin Creating \cup Using /\ requests' >= requests
      BY <1>0, <2>1 DEF Accept, At, Typed, Creating, Using, history
    <2> QED
      BY <1>0, <2>2, QuietTask
  <1>11. ASSUME Tick PROVE SessionInv'
    <2>1. /\ clock' = clock + 1 /\ clock \in Nat
          /\ UNCHANGED <<sessions, issued, revoked, requests, tasks>>
      BY <1>0, <1>11 DEF Tick, history, Typed
    <2>2. \A t \in Tokens : Ended(t) => Ended(t)'
      BY <1>0, <2>1 DEF Ended, Typed, Tokens
    <2>3. TableOK'
      BY <2>1, <2>2 DEF SessionInv, TableOK, Tokens
    <2>4. \A v \in Workers : CreatorOK(v)'
      BY <2>1 DEF SessionInv, CreatorOK
    <2>5. \A v \in Workers : UserOK(v)'
      BY <2>1, <2>2 DEF SessionInv, UserOK, Tokens
    <2> QED
      BY <1>0, <2>3, <2>4, <2>5 DEF SessionInv
  <1>12. ASSUME Restart PROVE SessionInv'
    <2>1. \A v \in Workers : tasks'[v].pc \notin Creating \cup Using
      BY <1>12 DEF Restart, IdleTask, Creating, Using
    <2>2. TableOK'
      BY <1>12 DEF Restart, history, SessionInv, TableOK, Ended
    <2> QED
      BY <1>0, <2>1, <2>2 DEF SessionInv, CreatorOK, UserOK
  <1>13. ASSUME UNCHANGED vars PROVE SessionInv'
    BY <1>0, <1>13 DEF vars, history, SessionInv, TableOK, CreatorOK, UserOK, Ended, Tokens
  <1> QED
    BY <1>1, <1>2, <1>3, <1>4, <1>5, <1>6, <1>7, <1>8, <1>9, <1>10, <1>11, <1>12, <1>13 DEF Next

\* Whatever requests run beside each other, and however often the controller
\* restarts, a request with a session that had ended before it began is not
\* admitted, and one is refused only when its session has ended: Authenticate
\* beside createSession, Logout and itself (auth/service.go:260-292, 394-417).
THEOREM SessionsEndOnTime == Spec => []SessionsHonest
  <1>1. SessionInv => SessionsHonest
    BY DEF SessionInv, UserOK, Using, SessionsHonest, At
  <1> QED
    BY InitSessionInv, StepSessionInv, <1>1, PTL DEF Spec

-----------------------------------------------------------------------------
(* Types and bounds.                                                       *)

\* A task whose request has an e-mail, or an address, where it needs one.
PlacedTask ==
  {t \in Task : /\ t.pc \in {"count", "create", "find", "compare"} => t.email \in Emails
                /\ t.pc = "forget" => t.ip \in Ips}

\* The requests that are not, or no longer, signing in with a password.
Done ==
  (1..requests) \ {tasks[w].no : w \in {v \in Workers : tasks[v].pc \in {"find", "compare"}}}

\* A failure is counted once for each request that brought one.
Bounded ==
  /\ \A e \in Emails : users[e] # None => users[e].failed <= Cardinality(Done)
  /\ \A e \in Emails : streak[e] <= Cardinality(Done)
  /\ \A w \in Workers : tasks[w].failed <= Cardinality(Done)

TypeInv == TypeOK /\ tasks \in [Workers -> PlacedTask] /\ Bounded

\* The requests are numbered, so there are at most MaxRequests of any kind.
LEMMA AtMostAll ==
  ASSUME NEW n \in 0..MaxRequests, NEW S, S \subseteq 1..n
  PROVE  IsFiniteSet(S) /\ Cardinality(S) \in 0..MaxRequests
  <1>1. n \in Nat /\ n <= MaxRequests
    BY BoundAssumption
  <1>2. IsFiniteSet(1..n) /\ Cardinality(1..n) = n
    BY <1>1, FS_Interval
  <1>3. IsFiniteSet(S) /\ Cardinality(S) <= n
    BY <1>2, FS_Subset
  <1> QED
    BY <1>1, <1>3, FS_CardinalityType, BoundAssumption

\* Where nobody goes back to signing in, what was done stays done.
LEMMA DoneGrows ==
  ASSUME requests \in 0..MaxRequests, requests' \in 0..MaxRequests, requests' >= requests,
         \A w \in Workers :
           tasks'[w].pc \in {"find", "compare"} =>
             \/ tasks[w].pc \in {"find", "compare"} /\ tasks'[w].no = tasks[w].no
             \/ tasks'[w].no = requests + 1
  PROVE  Cardinality(Done) <= Cardinality(Done)' /\ Cardinality(Done)' \in 0..MaxRequests
  <1>1. requests \in Nat /\ requests' \in Nat
    BY BoundAssumption
  <1>2. IsFiniteSet(Done') /\ Cardinality(Done') \in 0..MaxRequests
    <2>1. PICK n \in 0..MaxRequests : n = requests'
      OBVIOUS
    <2>2. Done' \subseteq 1..n
      BY <2>1 DEF Done
    <2> QED
      BY <2>2, AtMostAll
  <1>3. Done \subseteq Done'
    <2> SUFFICES ASSUME NEW n \in Done, NEW w \in Workers,
                        tasks'[w].pc \in {"find", "compare"}, tasks'[w].no = n
                 PROVE  FALSE
      BY <1>1 DEF Done
    <2>1. n \in 1..requests /\ n # requests + 1
      BY <1>1 DEF Done
    <2> QED
      BY <2>1 DEF Done
  <1>4. Cardinality(Done) <= Cardinality(Done')
    BY <1>2, <1>3, FS_Subset
  <1> QED
    BY <1>2, <1>4

\* No request has failed yet.
LEMMA InitTypeInv == Init => TypeInv
  <1> SUFFICES ASSUME Init PROVE TypeInv
    OBVIOUS
  <1>1. IdleTask \in PlacedTask /\ IdleTask.failed = 0
    BY BoundAssumption DEF IdleTask, PlacedTask, Task, Labels, Times, Later
  <1>2. 0 \in Later /\ 0 \in Times /\ 0 \in 0..MaxRequests
    BY BoundAssumption, DurationAssumption DEF Later, Times
  <1>3. <<>> \in Seq(Times \X BOOLEAN)
    BY EmptySeq
  <1>4. TypeOK
    BY <1>1, <1>2, <1>3 DEF Init, TypeOK, NoLogins, NoCalls, NoWindows, Tokens, PlacedTask
  <1>5. Cardinality(Done) \in 0..MaxRequests
    BY <1>4, AtMostAll DEF TypeOK, Done
  <1>6. Bounded
    BY <1>1, <1>5, BoundAssumption DEF Init, Bounded
  <1> QED
    BY <1>1, <1>4, <1>6 DEF TypeInv, Init

\* A request carries what it was sent and what it has read.
LEMMA StepTasks ==
  ASSUME TypeInv, SessionInv, [Next]_vars
  PROVE  /\ tasks' \in [Workers -> PlacedTask]
         /\ requests' \in 0..MaxRequests /\ requests' >= requests
         /\ clock' \in Times
  <1> USE BoundAssumption
  <1>0. /\ TypeOK /\ requests \in 0..MaxRequests /\ requests \in Nat /\ clock \in Times
        /\ tasks \in [Workers -> PlacedTask]
    BY DEF TypeInv, TypeOK
  <1>1. IdleTask \in PlacedTask
    BY DEF IdleTask, PlacedTask, Task, Labels, Times, Later
  <1>2. ASSUME NEW w \in Workers, Return(w)
        PROVE  tasks' \in [Workers -> PlacedTask]
    BY <1>0, <1>1, <1>2 DEF Return
  <1>3. ASSUME NEW w \in Workers, NEW label \in {"look", "check", "admitted", "refused", "session", "insert"},
               Goto(w, label)
        PROVE  tasks' \in [Workers -> PlacedTask]
    <2>1. [tasks[w] EXCEPT !.pc = label] \in PlacedTask
      BY <1>0 DEF PlacedTask, Task, Labels
    <2>2. tasks' = [tasks EXCEPT ![w] = [tasks[w] EXCEPT !.pc = label]]
      BY <1>3 DEF Goto
    <2> QED
      BY <1>0, <2>1, <2>2
  <1>4. ASSUME NEW w \in Workers, NEW t \in PlacedTask, Begin(w, t), Accept
        PROVE  /\ tasks' \in [Workers -> PlacedTask]
               /\ requests' \in 0..MaxRequests /\ requests' >= requests /\ clock' \in Times
    <2>1. requests + 1 \in Numbers /\ requests' = requests + 1 /\ clock' = clock
      BY <1>0, <1>4 DEF Accept, Numbers
    <2>2. [t EXCEPT !.no = requests + 1] \in PlacedTask
      BY <2>1 DEF PlacedTask, Task
    <2>3. tasks' = [tasks EXCEPT ![w] = [t EXCEPT !.no = requests + 1]]
      BY <1>4 DEF Begin
    <2> QED
      BY <1>0, <2>1, <2>2, <2>3 DEF Numbers
  <1>5. ASSUME NEW w \in Workers, Setup(w) \/ Login(w) \/ Request(w)
        PROVE  /\ tasks' \in [Workers -> PlacedTask]
               /\ requests' \in 0..MaxRequests /\ requests' >= requests /\ clock' \in Times
    <2>1. CASE Setup(w)
      <3> PICK e \in Emails : Begin(w, [IdleTask EXCEPT !.pc = "count", !.email = e])
        BY <2>1 DEF Setup
      <3>1. [IdleTask EXCEPT !.pc = "count", !.email = e] \in PlacedTask
        BY <1>1 DEF PlacedTask, Task, Labels
      <3> QED
        BY <1>4, <2>1, <3>1 DEF Setup
    <2>2. CASE Login(w)
      <3> PICK e \in Emails, ip \in Ips :
            /\ Accept
            /\ \/ Begin(w, [IdleTask EXCEPT !.pc = "find", !.email = e, !.ip = ip])
               \/ UNCHANGED tasks
        BY <2>2 DEF Login
      <3>1. [IdleTask EXCEPT !.pc = "find", !.email = e, !.ip = ip] \in PlacedTask
        BY <1>1 DEF PlacedTask, Task, Labels
      <3>2. CASE UNCHANGED tasks
        BY <1>0, <3>2 DEF Accept
      <3> QED
        BY <1>4, <3>1, <3>2
    <2>3. CASE Request(w)
      <3> PICK t \in Tokens :
            Begin(w, [IdleTask EXCEPT !.pc = "sweep", !.token = t, !.over = Ended(t)])
        BY <2>3 DEF Request
      <3>1. Ended(t) \in BOOLEAN /\ t \in Numbers
        BY DEF Ended, Tokens
      <3>2. [IdleTask EXCEPT !.pc = "sweep", !.token = t, !.over = Ended(t)] \in PlacedTask
        <4> HIDE DEF Ended
        <4> QED
          BY ZenonT(30), <1>1, <3>1 DEF PlacedTask, Task, Labels
      <3> QED
        BY <1>4, <2>3, <3>2 DEF Request
    <2> QED
      BY <1>5, <2>1, <2>2, <2>3
  <1>6. ASSUME NEW w \in Workers,
               \/ CountUsers(w) \/ CreateUser(w) \/ FindUser(w) \/ WrongCredentials(w)
               \/ RightCredentials(w) \/ CreateSession(w) \/ ClearIPAttempts(w)
               \/ DeleteExpired(w) \/ GetSession(w) \/ CheckSession(w) \/ Answer(w)
               \/ Interrupt(w)
        PROVE  tasks' \in [Workers -> PlacedTask] /\ UNCHANGED <<requests, clock>>
    <2>0. UNCHANGED <<requests, clock>>
      BY <1>6 DEF CountUsers, CreateUser, FindUser, WrongCredentials, RightCredentials,
                  CreateSession, ClearIPAttempts, DeleteExpired, GetSession, CheckSession,
                  Answer, Interrupt
    <2>1. CASE \/ WrongCredentials(w) \/ ClearIPAttempts(w) \/ Answer(w) \/ Interrupt(w)
               \/ RightCredentials(w) \/ DeleteExpired(w) \/ CheckSession(w) \/ CreateUser(w)
      BY <1>2, <1>3, <2>1
      DEF WrongCredentials, ClearIPAttempts, Answer, Interrupt, RightCredentials, DeleteExpired,
          CheckSession, CreateUser
    <2>2. CASE CountUsers(w)
      <3>1. CASE Goto(w, "create")
        <4>1. [tasks[w] EXCEPT !.pc = "create"] \in PlacedTask
          BY <1>0, <2>2 DEF PlacedTask, Task, Labels, CountUsers, At
        <4>2. tasks' = [tasks EXCEPT ![w] = [tasks[w] EXCEPT !.pc = "create"]]
          BY <3>1 DEF Goto
        <4> QED
          BY <1>0, <2>0, <4>1, <4>2
      <3> QED
        BY <1>2, <2>2, <3>1 DEF CountUsers
    <2>3. CASE FindUser(w)
      <3> DEFINE e == tasks[w].email
      <3>1. CASE users[e] # None /\ ~Return(w)
        <4>1. tasks[w].pc = "find" /\ e \in Emails
          BY <1>0, <2>3 DEF FindUser, At, PlacedTask
        <4>2. users[e] \in User /\ users[e].failed \in 0..MaxRequests
          BY <1>0, <3>1, <4>1 DEF TypeOK, User
        <4> DEFINE t == [tasks[w] EXCEPT !.pc = "compare", !.at = clock, !.failed = users[e].failed]
        <4>3. tasks' = [tasks EXCEPT ![w] = t]
          BY <2>3, <3>1 DEF FindUser
        <4>4. t \in PlacedTask
          BY ZenonT(30), <1>0, <4>1, <4>2 DEF PlacedTask, Task, Labels
        <4> HIDE DEF t
        <4> QED
          BY <1>0, <2>0, <4>3, <4>4
      <3> QED
        BY <1>2, <2>3, <3>1 DEF FindUser
    <2>4. CASE CreateSession(w)
      <3>1. CASE tasks[w].ip # None /\ Goto(w, "forget")
        <4>1. [tasks[w] EXCEPT !.pc = "forget"] \in PlacedTask
          BY <1>0, <3>1 DEF PlacedTask, Task, Labels
        <4>2. tasks' = [tasks EXCEPT ![w] = [tasks[w] EXCEPT !.pc = "forget"]]
          BY <3>1 DEF Goto
        <4> QED
          BY <1>0, <2>0, <4>1, <4>2
      <3> QED
        BY <1>2, <2>4, <3>1 DEF CreateSession
    <2>5. CASE GetSession(w)
      <3> DEFINE until == sessions[tasks[w].token]
      <3>1. tasks[w].token \in Numbers /\ until \in Later \cup {None}
        BY <1>0, <2>5 DEF GetSession, At, SessionInv, UserOK, Using, Tokens, TypeOK
      <3>2. CASE until # None
        <4> DEFINE t == [tasks[w] EXCEPT !.pc = "check", !.until = until]
        <4>1. tasks' = [tasks EXCEPT ![w] = t]
          BY <2>5, <3>2 DEF GetSession
        <4>2. t \in PlacedTask
          BY ZenonT(30), <1>0, <3>1 DEF PlacedTask, Task, Labels
        <4> HIDE DEF t
        <4> QED
          BY <1>0, <2>0, <4>1, <4>2
      <3> QED
        BY <1>3, <2>5, <3>2 DEF GetSession
    <2> QED
      BY <1>6, <2>0, <2>1, <2>2, <2>3, <2>4, <2>5
  <1>7. CASE \E w \in Workers : Webhook(w) \/ Logout(w)
    <2>1. UNCHANGED <<tasks, clock>> /\ requests < MaxRequests /\ requests' = requests + 1
      BY <1>7, Zenon DEF Webhook, Logout, Accept
    <2> QED
      BY <1>0, <2>1
  <1>8. CASE Tick \/ Restart \/ UNCHANGED vars
    BY <1>0, <1>1, <1>8 DEF Tick, Restart, vars, Times
  <1> QED
    BY <1>0, <1>5, <1>6, <1>7, <1>8 DEF Next

\* Nobody goes back to signing in, but for a request that begins.
LEMMA StepDone ==
  ASSUME TypeInv, SessionInv, [Next]_vars
  PROVE  Cardinality(Done) <= Cardinality(Done)' /\ Cardinality(Done)' \in 0..MaxRequests
  <1> DEFINE Kept(v) == tasks'[v].pc \in {"find", "compare"} =>
                          \/ tasks[v].pc \in {"find", "compare"} /\ tasks'[v].no = tasks[v].no
                          \/ tasks'[v].no = requests + 1
  <1>0. /\ requests \in 0..MaxRequests /\ requests' \in 0..MaxRequests /\ requests' >= requests
        /\ tasks \in [Workers -> PlacedTask]
    BY StepTasks DEF TypeInv, TypeOK
  <1>1. ASSUME NEW w \in Workers, NEW t, tasks' = [tasks EXCEPT ![w] = t],
               t.pc \in {"find", "compare"} =>
                 \/ tasks[w].pc \in {"find", "compare"} /\ t.no = tasks[w].no
                 \/ t.no = requests + 1,
               NEW v \in Workers
        PROVE  Kept(v)
    BY <1>0, <1>1
  <1>2. ASSUME NEW w \in Workers, Return(w), NEW v \in Workers
        PROVE  Kept(v)
    BY <1>1, <1>2 DEF Return, IdleTask
  <1>3. ASSUME NEW w \in Workers,
               NEW label \in {"create", "session", "insert", "forget", "look", "check", "admitted",
                             "refused"},
               Goto(w, label), NEW v \in Workers
        PROVE  Kept(v)
    BY <1>0, <1>3 DEF Goto, PlacedTask, Task
  <1>4. ASSUME NEW w \in Workers, NEW t \in Task, t.pc \in {"count", "find", "sweep"}, Begin(w, t),
               NEW v \in Workers
        PROVE  Kept(v)
    BY <1>0, <1>4 DEF Begin, PlacedTask, Task
  <1>5. IdleTask \in Task
    BY BoundAssumption DEF IdleTask, Task, Labels, Times, Later
  <1>6. ASSUME NEW w \in Workers, Setup(w) \/ Login(w) \/ Request(w), NEW v \in Workers
        PROVE  Kept(v)
    <2>1. CASE Setup(w)
      <3> PICK e \in Emails : Begin(w, [IdleTask EXCEPT !.pc = "count", !.email = e])
        BY <2>1 DEF Setup
      <3>1. [IdleTask EXCEPT !.pc = "count", !.email = e] \in Task
        BY <1>5 DEF Task, Labels
      <3> QED
        BY <1>4, <3>1 DEF IdleTask
    <2>2. CASE Login(w)
      <3> PICK e \in Emails, ip \in Ips :
            \/ Begin(w, [IdleTask EXCEPT !.pc = "find", !.email = e, !.ip = ip])
            \/ UNCHANGED tasks
        BY <2>2 DEF Login
      <3>1. [IdleTask EXCEPT !.pc = "find", !.email = e, !.ip = ip] \in Task
        BY <1>5 DEF Task, Labels
      <3> QED
        BY <1>4, <3>1 DEF IdleTask
    <2>3. CASE Request(w)
      <3> PICK t \in Tokens :
            Begin(w, [IdleTask EXCEPT !.pc = "sweep", !.token = t, !.over = Ended(t)])
        BY <2>3 DEF Request
      <3>1. Ended(t) \in BOOLEAN /\ t \in Numbers
        BY DEF Ended, Tokens
      <3>2. [IdleTask EXCEPT !.pc = "sweep", !.token = t, !.over = Ended(t)] \in Task
        <4> HIDE DEF Ended
        <4> QED
          BY <1>5, <3>1 DEF Task, Labels
      <3> QED
        BY <1>4, <3>2 DEF IdleTask
    <2> QED
      BY <1>6, <2>1, <2>2, <2>3
  <1>7. ASSUME NEW w \in Workers,
               \/ CountUsers(w) \/ CreateUser(w) \/ FindUser(w) \/ WrongCredentials(w)
               \/ RightCredentials(w) \/ CreateSession(w) \/ ClearIPAttempts(w)
               \/ DeleteExpired(w) \/ GetSession(w) \/ CheckSession(w) \/ Answer(w)
               \/ Interrupt(w),
               NEW v \in Workers
        PROVE  Kept(v)
    <2>1. CASE FindUser(w) /\ ~Return(w)
      BY <1>0, <2>1 DEF FindUser, At, PlacedTask, Task
    <2>2. CASE GetSession(w) /\ ~Goto(w, "refused")
      BY <1>0, <2>2 DEF GetSession, PlacedTask, Task
    <2> QED
      BY <1>2, <1>3, <1>7, <2>1, <2>2
      DEF CountUsers, CreateUser, FindUser, WrongCredentials, RightCredentials, CreateSession,
          ClearIPAttempts, DeleteExpired, GetSession, CheckSession, Answer, Interrupt
  <1>8. ASSUME \/ \E w \in Workers : Webhook(w) \/ Logout(w)
               \/ Tick \/ UNCHANGED vars,
               NEW v \in Workers
        PROVE  Kept(v)
    <2>1. UNCHANGED tasks
      BY <1>8, Zenon DEF Webhook, Logout, Tick, vars
    <2> QED
      BY <2>1
  <1>9. ASSUME Restart, NEW v \in Workers PROVE Kept(v)
    BY <1>9 DEF Restart, IdleTask
  <1>10. \A v \in Workers : Kept(v)
    BY <1>6, <1>7, <1>8, <1>9, Zenon DEF Next
  <1> QED
    BY <1>0, <1>10, DoneGrows

\* A failure takes a request from those that sign in to those that are done.
LEMMA WrongDone ==
  ASSUME TypeInv, SessionInv, NEW w \in Workers, WrongCredentials(w)
  PROVE  Cardinality(Done) + 1 <= Cardinality(Done)'
  <1> DEFINE n == tasks[w].no
  <1>1. /\ requests \in 0..MaxRequests /\ requests' = requests
        /\ tasks[w].pc = "compare" /\ tasks' = [tasks EXCEPT ![w] = IdleTask]
        /\ tasks \in [Workers -> PlacedTask]
    BY DEF TypeInv, TypeOK, WrongCredentials, At, Return
  <1>2. n \in 1..requests /\ \A v \in Workers \ {w} : tasks[v].pc \in Creating => tasks[v].no # n
    BY <1>1 DEF SessionInv, CreatorOK, Creating
  <1>3. n \notin Done
    BY <1>1 DEF Done
  <1>4. tasks'[w].pc = "idle" /\ \A v \in Workers \ {w} : tasks'[v] = tasks[v]
    BY <1>1 DEF IdleTask
  <1>5. Done \cup {n} \subseteq Done'
    <2> SUFFICES ASSUME NEW m \in Done \cup {n}, NEW v \in Workers,
                        tasks'[v].pc \in {"find", "compare"}, tasks'[v].no = m
                 PROVE  FALSE
      BY <1>1, <1>2 DEF Done
    <2>1. v # w /\ tasks[v].pc \in {"find", "compare"} /\ tasks[v].no = m
      BY <1>4
    <2> QED
      BY <1>2, <2>1 DEF Done, Creating
  <1>6. IsFiniteSet(Done) /\ Cardinality(Done) \in 0..MaxRequests
    BY <1>1, AtMostAll DEF Done
  <1>7. IsFiniteSet(Done') /\ Cardinality(Done') \in 0..MaxRequests
    <2>1. Done' \subseteq 1..requests
      BY <1>1 DEF Done
    <2> QED
      BY <1>1, <2>1, AtMostAll
  <1>8. Cardinality(Done \cup {n}) = Cardinality(Done) + 1
    BY <1>3, <1>6, FS_AddElement
  <1>9. Cardinality(Done \cup {n}) <= Cardinality(Done')
    BY <1>5, <1>7, FS_Subset
  <1> QED
    BY <1>8, <1>9

\* The rows of the users, and the failures that are counted for them.
LEMMA StepUsers ==
  ASSUME TypeInv, SessionInv, [Next]_vars
  PROVE  /\ users' \in [Emails -> User \cup {None}]
         /\ streak' \in [Emails -> 0..MaxRequests] /\ lockEnd' \in [Emails -> Later]
         /\ raced' \subseteq Emails
         /\ Bounded'
  <1> USE BoundAssumption
  <1>0. /\ TypeOK /\ Bounded /\ tasks \in [Workers -> PlacedTask]
        /\ requests \in 0..MaxRequests
    BY DEF TypeInv, TypeOK
  <1>1. PICK n \in 0..MaxRequests : n = Cardinality(Done)
    BY <1>0, AtMostAll DEF Done
  <1>2. PICK m \in 0..MaxRequests : m = Cardinality(Done') /\ n <= m
    BY <1>1, StepDone
  <1>3. /\ \A e \in Emails : (users[e] # None => users[e].failed <= n) /\ streak[e] <= n
        /\ \A w \in Workers : tasks[w].failed <= n
    BY <1>0, <1>1 DEF Bounded
  <1>4. ASSUME \A e \in Emails : (users'[e] # None => users'[e].failed <= m) /\ streak'[e] <= m,
               \A w \in Workers : tasks'[w].failed <= m
        PROVE  Bounded'
    BY <1>2, <1>4 DEF Bounded
  <1>5. None \notin User /\ n \in Nat /\ m \in Nat /\ MaxRequests \in Nat
    BY <1>1, <1>2, NoneAssumption
  <1>6. ASSUME NEW w \in Workers, CreateUser(w) \/ RightCredentials(w)
        PROVE  /\ users' \in [Emails -> User \cup {None}]
               /\ streak' \in [Emails -> 0..MaxRequests] /\ lockEnd' \in [Emails -> Later]
               /\ raced' \subseteq Emails
               /\ Bounded'
    <2> DEFINE e == tasks[w].email
    <2>1. NewUser \in User /\ NewUser.failed = 0
      BY DEF NewUser, User
    <2>2. users' = [users EXCEPT ![e] = NewUser] \/ users' = users
      BY <1>6 DEF CreateUser, RightCredentials
    <2>3. streak' = [streak EXCEPT ![e] = 0] \/ streak' = streak
      BY <1>6 DEF CreateUser, RightCredentials, history
    <2>4. UNCHANGED <<lockEnd, raced>>
      BY <1>6 DEF CreateUser, RightCredentials, history
    <2>5. \A v \in Workers : tasks'[v].failed = tasks[v].failed \/ tasks'[v].failed = 0
      BY <1>0, <1>6 DEF CreateUser, RightCredentials, Goto, Return, PlacedTask, Task, IdleTask
    <2> HIDE DEF e
    <2>6. \A u \in Emails : users'[u] # None => users'[u].failed <= m
      BY <1>0, <1>2, <1>3, <1>5, <2>1, <2>2 DEF TypeOK, User
    <2>7. \A u \in Emails : streak'[u] <= m
      <3>1. \A u \in Emails : streak'[u] \in {streak[u], 0} /\ streak[u] \in Nat
        BY <1>0, <2>3 DEF TypeOK
      <3> QED
        BY <1>2, <1>3, <1>5, <3>1
    <2>8. \A v \in Workers : tasks'[v].failed <= m
      BY <1>0, <1>2, <1>3, <1>5, <2>5 DEF PlacedTask, Task
    <2>9. Bounded'
      BY <1>4, <2>6, <2>7, <2>8
    <2>10. users' \in [Emails -> User \cup {None}]
      BY <1>0, <2>1, <2>2 DEF TypeOK
    <2>11. streak' \in [Emails -> 0..MaxRequests]
      BY <1>0, <1>5, <2>3 DEF TypeOK
    <2> QED
      BY <1>0, <2>4, <2>9, <2>10, <2>11 DEF TypeOK
  <1>7. ASSUME NEW w \in Workers, WrongCredentials(w)
        PROVE  /\ users' \in [Emails -> User \cup {None}]
               /\ streak' \in [Emails -> 0..MaxRequests] /\ lockEnd' \in [Emails -> Later]
               /\ raced' \subseteq Emails
               /\ Bounded'
    <2> DEFINE e == tasks[w].email
               failed == tasks[w].failed + 1
               user == [failed |-> failed, until |-> Lock(failed, tasks[w].at)]
    <2>1. e \in Emails /\ tasks[w] \in Task
      BY <1>0, <1>7 DEF WrongCredentials, At, PlacedTask
    <2>2. n + 1 <= m
      BY <1>1, <1>2, <1>7, WrongDone
    <2>3. failed \in 0..m /\ streak[e] + 1 \in 0..m
      BY <1>0, <1>3, <1>5, <2>1, <2>2 DEF TypeOK, Task
    <2>4. tasks[w].at + LockoutDuration \in Later
      BY <2>1, DurationAssumption DEF Task, Times, Later
    <2>5. user \in User /\ user.failed = failed
      BY <1>2, <2>3, <2>4 DEF User, Lock
    <2>6. /\ users' = [users EXCEPT ![e] = user]
          /\ streak' = [streak EXCEPT ![e] = streak[e] + 1]
          /\ \/ lockEnd' = [lockEnd EXCEPT ![e] = tasks[w].at + LockoutDuration]
             \/ lockEnd' = lockEnd
          /\ tasks' = [tasks EXCEPT ![w] = IdleTask] /\ raced' = raced
      BY <1>7 DEF WrongCredentials, Return
    <2>7. \A u \in Emails : users'[u] # None => users'[u].failed <= m
      <3> HIDE DEF user
      <3> QED
        BY <1>0, <1>2, <1>3, <1>5, <2>1, <2>3, <2>5, <2>6 DEF TypeOK, User
    <2>8. \A u \in Emails : streak'[u] <= m
      BY <1>0, <1>2, <1>3, <1>5, <2>1, <2>3, <2>6 DEF TypeOK
    <2>9. \A v \in Workers : tasks'[v].failed <= m
      BY <1>0, <1>2, <1>3, <1>5, <2>6 DEF PlacedTask, Task, IdleTask
    <2> HIDE DEF user, e, failed
    <2>10. Bounded'
      BY <1>4, <2>7, <2>8, <2>9
    <2>11. users' \in [Emails -> User \cup {None}]
      BY <1>0, <2>1, <2>5, <2>6 DEF TypeOK
    <2>12. streak[e] + 1 \in 0..MaxRequests
      BY <1>2, <1>5, <2>3
    <2>13. streak' \in [Emails -> 0..MaxRequests]
      BY <1>0, <2>1, <2>6, <2>12 DEF TypeOK
    <2>14. lockEnd' \in [Emails -> Later]
      BY <1>0, <2>1, <2>4, <2>6 DEF TypeOK
    <2> QED
      BY <1>0, <2>6, <2>10, <2>11, <2>13, <2>14 DEF TypeOK
  <1>8. ASSUME UNCHANGED <<users, streak, lockEnd>>, raced' \subseteq Emails,
               \A v \in Workers : tasks'[v].failed <= n
        PROVE  /\ users' \in [Emails -> User \cup {None}]
               /\ streak' \in [Emails -> 0..MaxRequests] /\ lockEnd' \in [Emails -> Later]
               /\ raced' \subseteq Emails
               /\ Bounded'
    <2>1. tasks' \in [Workers -> PlacedTask]
      BY StepTasks
    <2>2. \A u \in Emails : (users'[u] # None => users'[u].failed <= m) /\ streak'[u] <= m
      BY <1>0, <1>2, <1>3, <1>5, <1>8 DEF TypeOK, User
    <2>3. \A v \in Workers : tasks'[v].failed <= m
      BY <1>2, <1>5, <1>8, <2>1 DEF PlacedTask, Task
    <2> QED
      BY <1>0, <1>4, <1>8, <2>2, <2>3 DEF TypeOK
  <1>9. ASSUME NEW w \in Workers, FindUser(w)
        PROVE  /\ UNCHANGED <<users, streak, lockEnd>> /\ raced' \subseteq Emails
               /\ \A v \in Workers : tasks'[v].failed <= n
    <2> DEFINE e == tasks[w].email
    <2>1. UNCHANGED <<users, streak, lockEnd>> /\ e \in Emails
      BY <1>0, <1>9 DEF FindUser, At, PlacedTask
    <2>2. raced' \subseteq Emails
      BY <1>0, <1>9, <2>1 DEF FindUser, TypeOK
    <2>3. CASE tasks' = [tasks EXCEPT ![w] = IdleTask]
      BY <1>3, <1>5, <1>0, <2>1, <2>2, <2>3 DEF IdleTask
    <2>4. CASE /\ users[e] # None
               /\ tasks' = [tasks EXCEPT ![w].pc = "compare", ![w].at = clock,
                                         ![w].failed = users[e].failed]
      <3>1. users[e].failed <= n
        BY <1>3, <2>1, <2>4
      <3>2. \A v \in Workers : tasks'[v].failed = users[e].failed
                               \/ tasks'[v].failed = tasks[v].failed
        BY <1>0, <2>4 DEF PlacedTask, Task
      <3> QED
        BY <1>3, <2>1, <2>2, <3>1, <3>2
    <2> QED
      BY <1>9, <2>3, <2>4 DEF FindUser, Return
  <1>10. ASSUME NEW w \in Workers,
                \/ Setup(w) \/ CountUsers(w) \/ Login(w)
                \/ CreateSession(w) \/ ClearIPAttempts(w)
                \/ Request(w) \/ DeleteExpired(w) \/ GetSession(w) \/ CheckSession(w) \/ Answer(w)
                \/ Logout(w) \/ Webhook(w) \/ Interrupt(w)
         PROVE  /\ UNCHANGED <<users, streak, lockEnd, raced>>
                /\ \A v \in Workers : tasks'[v].failed = tasks[v].failed \/ tasks'[v].failed = 0
    <2>1. CASE Setup(w) \/ Request(w)
      BY <1>0, <2>1 DEF Setup, Request, Begin, IdleTask, history
    <2>2. CASE Login(w)
      <3> PICK e \in Emails, ip \in Ips :
            /\ UNCHANGED <<users, history>>
            /\ \/ Begin(w, [IdleTask EXCEPT !.pc = "find", !.email = e, !.ip = ip])
               \/ UNCHANGED tasks
        BY <2>2 DEF Login
      <3> QED
        BY <1>0 DEF Begin, IdleTask, history
    <2>3. CASE Logout(w) \/ Webhook(w)
      <3>1. UNCHANGED <<users, streak, lockEnd, raced, tasks>>
        BY <2>3, Zenon DEF Logout, Webhook, history
      <3> QED
        BY <3>1
    <2>4. CASE \/ CountUsers(w) \/ CreateSession(w) \/ ClearIPAttempts(w) \/ DeleteExpired(w)
               \/ GetSession(w) \/ CheckSession(w) \/ Answer(w) \/ Interrupt(w)
      <3>1. UNCHANGED <<users, streak, lockEnd, raced>>
        BY <2>4 DEF CountUsers, CreateSession, ClearIPAttempts, DeleteExpired, GetSession,
                    CheckSession, Answer, Interrupt, history
      <3>2. \/ Return(w) \/ \E label \in Labels : Goto(w, label)
            \/ tasks' = [tasks EXCEPT ![w].pc = "check", ![w].until = sessions[tasks[w].token]]
        BY <2>4 DEF CountUsers, CreateSession, ClearIPAttempts, DeleteExpired, GetSession,
                    CheckSession, Answer, Interrupt, Labels
      <3> QED
        BY <1>0, <3>1, <3>2 DEF Return, Goto, IdleTask, PlacedTask, Task
    <2> QED
      BY <1>10, <2>1, <2>2, <2>3, <2>4
  <1>11. CASE \E w \in Workers :
                \/ Setup(w) \/ CountUsers(w) \/ Login(w)
                \/ CreateSession(w) \/ ClearIPAttempts(w)
                \/ Request(w) \/ DeleteExpired(w) \/ GetSession(w) \/ CheckSession(w) \/ Answer(w)
                \/ Logout(w) \/ Webhook(w) \/ Interrupt(w)
    <2>1. /\ UNCHANGED <<users, streak, lockEnd, raced>>
          /\ \A v \in Workers : tasks'[v].failed = tasks[v].failed \/ tasks'[v].failed = 0
      BY <1>10, <1>11, Zenon
    <2>2. \A v \in Workers : tasks'[v].failed <= n
      BY <1>3, <1>5, <2>1
    <2> QED
      BY <1>0, <1>8, <2>1, <2>2 DEF TypeOK
  <1>12. CASE Tick \/ Restart \/ UNCHANGED vars
    <2>1. /\ UNCHANGED <<users, streak, lockEnd, raced>>
          /\ \A v \in Workers : tasks'[v].failed = tasks[v].failed \/ tasks'[v].failed = 0
      BY <1>12 DEF Tick, Restart, vars, history, IdleTask
    <2>2. \A v \in Workers : tasks'[v].failed <= n
      BY <1>3, <1>5, <2>1
    <2> QED
      BY <1>0, <1>8, <2>1, <2>2 DEF TypeOK
  <1> QED
    BY <1>6, <1>7, <1>8, <1>9, <1>11, <1>12, Zenon DEF Next

\* A session ends within the time that can be reached.
LEMMA StepTable ==
  ASSUME TypeInv, SessionInv, [Next]_vars
  PROVE  /\ sessions' \in [Numbers -> Later \cup {None}]
         /\ issued' \in [Numbers -> Later \cup {None}]
  <1> USE BoundAssumption
  <1>0. /\ sessions \in [Numbers -> Later \cup {None}]
        /\ issued \in [Numbers -> Later \cup {None}] /\ clock \in Times
    BY DEF TypeInv, TypeOK
  <1>1. Unexpired(clock) \in [Numbers -> Later \cup {None}]
    BY <1>0 DEF Unexpired
  <1>2. CASE \E w \in Workers : CreateSession(w)
    <2> PICK w \in Workers : CreateSession(w)
      BY <1>2
    <2> DEFINE until == clock + SessionTTL
    <2>1. until \in Later
      BY <1>0, DurationAssumption DEF Times, Later
    <2>2. /\ sessions' = [sessions EXCEPT ![tasks[w].no] = until]
          /\ issued' = [issued EXCEPT ![tasks[w].no] = until]
      BY DEF CreateSession
    <2> HIDE DEF until
    <2> QED
      BY <1>0, <1>1, <2>1, <2>2
  <1>3. CASE \E w \in Workers : DeleteExpired(w) \/ CheckSession(w) \/ Logout(w)
    <2>1. /\ UNCHANGED issued
          /\ \/ sessions' = Unexpired(clock)
             \/ \E t : sessions' = [sessions EXCEPT ![t] = None]
             \/ UNCHANGED sessions
      BY <1>3 DEF DeleteExpired, CheckSession, Logout, history
    <2> QED
      BY <1>0, <1>1, <2>1
  <1>4. CASE \/ \E w \in Workers :
                  \/ Setup(w) \/ CountUsers(w) \/ CreateUser(w) \/ Login(w) \/ FindUser(w)
                  \/ WrongCredentials(w) \/ RightCredentials(w) \/ ClearIPAttempts(w)
                  \/ Request(w) \/ GetSession(w) \/ Answer(w) \/ Webhook(w) \/ Interrupt(w)
             \/ Tick \/ Restart \/ UNCHANGED vars
    <2>1. UNCHANGED <<sessions, issued>>
      BY <1>4, Zenon
      DEF Setup, CountUsers, CreateUser, Login, FindUser, WrongCredentials, RightCredentials,
          ClearIPAttempts, Request, GetSession, Answer, Webhook, Interrupt, Accept, Tick, Restart,
          vars, history
    <2> QED
      BY <1>0, <2>1
  <1> QED
    BY <1>2, <1>3, <1>4, Zenon DEF Next

\* A call of key k, answered or refused, once the old windows are pruned.
CallOf(k, refused) ==
  LET kept == Pruned(clock)
  IN  /\ refused <=> Open(kept[k], clock) /\ Full(kept[k])
      /\ windows' = [kept EXCEPT ![k] = Called(kept[k], clock, refused)]
      /\ calls' = [calls EXCEPT ![k] = Append(calls[k], <<clock, ~refused>>)]
      /\ UNCHANGED <<attempts, passed, clock>> /\ requests' = requests + 1

LEMMA WebhookCalls ==
  ASSUME NEW w \in Workers, Webhook(w)
  PROVE  \E k \in Keys, refused \in BOOLEAN : CallOf(k, refused)
  <1>1. PICK k \in Keys, refused \in BOOLEAN :
          /\ Accept
          /\ refused = (Open(Pruned(clock)[k], clock) /\ Full(Pruned(clock)[k]))
          /\ windows' = [Pruned(clock) EXCEPT ![k] = Called(@, clock, refused)]
          /\ calls' = [calls EXCEPT ![k] = Append(@, <<clock, ~refused>>)]
          /\ UNCHANGED <<attempts, passed>>
    BY DEF Webhook
  <1> QED
    BY <1>1 DEF CallOf, Accept

\* The window of a key after a call.
LEMMA CalledWindow ==
  ASSUME NEW window \in Window \cup {None}, NEW now \in Times, NEW refused \in BOOLEAN,
         refused <=> Open(window, now) /\ Full(window)
  PROVE  LET new == Called(window, now, refused)
         IN  /\ new \in Window /\ new.seen = now
             /\ ~Open(window, now) => new.count = 1 /\ new.started = now
             /\ Open(window, now) =>
                  /\ window # None /\ new.started = window.started
                  /\ new.count = IF refused THEN window.count ELSE window.count + 1
  <1>1. CASE ~Open(window, now)
    BY <1>1, DurationAssumption DEF Called, Window
  <1>2. CASE Open(window, now)
    <2>1. window # None /\ window \in Window
      BY <1>2 DEF Open
    <2>2. CASE refused
      <3>1. Called(window, now, refused) = [window EXCEPT !.seen = now, !.count = window.count]
        BY <1>2, <2>1, <2>2 DEF Called, Window
      <3> QED
        BY <1>2, <2>1, <2>2, <3>1 DEF Window
    <2>3. CASE ~refused
      <3>1. Called(window, now, refused) = [window EXCEPT !.seen = now, !.count = window.count + 1]
        BY <1>2, <2>1, <2>3 DEF Called, Window
      <3>2. window.count + 1 \in 1..HookLimit
        BY <1>2, <2>1, <2>3, DurationAssumption DEF Full, Window
      <3> QED
        BY <1>2, <2>1, <2>3, <3>1, <3>2 DEF Window
    <2> QED
      BY <2>2, <2>3
  <1> QED
    BY <1>1, <1>2

\* The lists of logins, the windows and the calls; a window in use is not full
\* when a call is counted in it.
LEMMA StepMemory ==
  ASSUME TypeInv, SessionInv, [Next]_vars
  PROVE  /\ attempts' \in [Ips -> SUBSET (Numbers \X Times)]
         /\ passed' \in [Ips -> SUBSET (Numbers \X Times)]
         /\ windows' \in [Keys -> Window \cup {None}]
         /\ calls' \in [Keys -> Seq(Times \X BOOLEAN)]
  <1> USE BoundAssumption
  <1>0. /\ attempts \in [Ips -> SUBSET (Numbers \X Times)]
        /\ passed \in [Ips -> SUBSET (Numbers \X Times)]
        /\ windows \in [Keys -> Window \cup {None}]
        /\ calls \in [Keys -> Seq(Times \X BOOLEAN)]
        /\ clock \in Times /\ requests \in 0..MaxRequests
    BY DEF TypeInv, TypeOK
  <1>1. CASE \E w \in Workers : Login(w)
    <2> PICK w \in Workers, e \in Emails, ip \in Ips :
          /\ requests < MaxRequests /\ UNCHANGED <<windows, calls>>
          /\ \/ /\ attempts' = [attempts EXCEPT ![ip] = Recent(attempts[ip], clock)
                                                        \cup {<<requests + 1, clock>>}]
                /\ passed' = [passed EXCEPT ![ip] = @ \cup {<<requests + 1, clock>>}]
             \/ /\ attempts' = [attempts EXCEPT ![ip] = Recent(attempts[ip], clock)]
                /\ UNCHANGED passed
      BY <1>1 DEF Login, Accept
    <2>1. <<requests + 1, clock>> \in Numbers \X Times
      BY <1>0 DEF Numbers
    <2>2. /\ Recent(attempts[ip], clock) \in SUBSET (Numbers \X Times)
          /\ Recent(attempts[ip], clock) \cup {<<requests + 1, clock>>} \in SUBSET (Numbers \X Times)
          /\ passed[ip] \cup {<<requests + 1, clock>>} \in SUBSET (Numbers \X Times)
      BY <1>0, <2>1 DEF Recent
    <2>3. \E kept \in SUBSET (Numbers \X Times) : attempts' = [attempts EXCEPT ![ip] = kept]
      BY <2>2
    <2>4. attempts' \in [Ips -> SUBSET (Numbers \X Times)]
      BY <1>0, <2>3
    <2>5. passed' \in [Ips -> SUBSET (Numbers \X Times)]
      BY <1>0, <2>2
    <2> QED
      BY <1>0, <2>4, <2>5
  <1>2. CASE \E w \in Workers : ClearIPAttempts(w)
    <2>1. PICK ip : /\ attempts' = [attempts EXCEPT ![ip] = {}]
                    /\ passed' = [passed EXCEPT ![ip] = {}] /\ UNCHANGED <<windows, calls>>
      BY <1>2 DEF ClearIPAttempts
    <2> QED
      BY <1>0, <2>1
  <1>3. CASE \E w \in Workers : Webhook(w)
    <2> DEFINE kept == Pruned(clock)
    <2> PICK k \in Keys, refused \in BOOLEAN : CallOf(k, refused)
      BY <1>3, WebhookCalls
    <2>1. kept \in [Keys -> Window \cup {None}]
      BY <1>0 DEF Pruned
    <2>2. /\ refused <=> Open(kept[k], clock) /\ Full(kept[k])
          /\ windows' = [kept EXCEPT ![k] = Called(kept[k], clock, refused)]
      BY DEF CallOf
    <2> HIDE DEF kept
    <2>3. Called(kept[k], clock, refused) \in Window
      BY <1>0, <2>1, <2>2, CalledWindow
    <2>4. windows' \in [Keys -> Window \cup {None}]
      BY <2>1, <2>2, <2>3
    <2>5. <<clock, ~refused>> \in Times \X BOOLEAN
      BY <1>0
    <2>6. Append(calls[k], <<clock, ~refused>>) \in Seq(Times \X BOOLEAN)
      BY <1>0, <2>5, AppendProperties
    <2> QED
      BY <1>0, <2>4, <2>6 DEF CallOf
  <1>4. CASE Restart
    <2>1. <<>> \in Seq(Times \X BOOLEAN)
      BY EmptySeq
    <2> QED
      BY <1>4, <2>1 DEF Restart, NoLogins, NoWindows, NoCalls
  <1>5. CASE \/ \E w \in Workers :
                  \/ Setup(w) \/ CountUsers(w) \/ CreateUser(w) \/ FindUser(w)
                  \/ WrongCredentials(w) \/ RightCredentials(w) \/ CreateSession(w)
                  \/ Request(w) \/ DeleteExpired(w) \/ GetSession(w) \/ CheckSession(w)
                  \/ Answer(w) \/ Logout(w) \/ Interrupt(w)
             \/ Tick \/ UNCHANGED vars
    <2>1. UNCHANGED memory
      BY <1>5, Zenon
      DEF Setup, CountUsers, CreateUser, FindUser, WrongCredentials, RightCredentials,
          CreateSession, Request, DeleteExpired, GetSession, CheckSession, Answer, Logout,
          Interrupt, Tick, vars
    <2> QED
      BY <1>0, <2>1 DEF memory
  <1> QED
    BY <1>1, <1>2, <1>3, <1>4, <1>5, Zenon DEF Next

LEMMA StepTypeInv == SessionInv /\ TypeInv /\ [Next]_vars => TypeInv'
  <1> SUFFICES ASSUME SessionInv, TypeInv, [Next]_vars PROVE TypeInv'
    OBVIOUS
  <1>1. Typed'
    BY StepTyped
  <1>2. PlacedTask \subseteq Task
    BY DEF PlacedTask
  <1>3. /\ tasks' \in [Workers -> PlacedTask]
        /\ requests' \in 0..MaxRequests /\ clock' \in Times
    BY StepTasks
  <1>4. tasks' \in [Workers -> Task]
    BY <1>2, <1>3
  <1>5. TypeOK'
    BY <1>1, <1>3, <1>4, StepUsers, StepTable, StepMemory DEF TypeOK, Typed
  <1> QED
    BY <1>3, <1>5, StepUsers DEF TypeInv

\* Tables, maps and local variables keep their shape; nothing is counted beyond
\* the number of requests, and no window beyond the limit.
THEOREM AccessTypeCorrect == Spec => []TypeOK
  <1>1. TypeInv => TypeOK
    BY DEF TypeInv
  <1> QED
    BY InitSessionInv, StepSessionInv, InitTypeInv, StepTypeInv, <1>1, PTL DEF Spec

-----------------------------------------------------------------------------
(* The lockout of an account.                                              *)

Comparing(w, e) == At(w, "compare") /\ tasks[w].email = e

\* Of an account whose logins never overlapped, the row counts the failures in
\* a row, and names the end of the last lockout until that is over.
RowTrue(e) ==
  /\ users[e] = None => streak[e] = 0 /\ lockEnd[e] = 0
  /\ users[e] # None =>
       /\ users[e].failed = streak[e]
       /\ users[e].until = lockEnd[e] \/ (users[e].until = None /\ lockEnd[e] <= clock)

\* A login that compares the password does so alone, with the count of the row,
\* and began when no lockout ran.
LoginTrue(w, e) ==
  Comparing(w, e) =>
    /\ users[e] # None /\ tasks[w].failed = users[e].failed
    /\ lockEnd[e] <= tasks[w].at /\ tasks[w].at <= clock
    /\ \A v \in Workers \ {w} : ~Comparing(v, e)

LockInv == \A e \in Emails \ raced : RowTrue(e) /\ \A w \in Workers : LoginTrue(w, e)

\* A step that leaves the accounts alone, and sends nobody to compare.
LEMMA QuietLock ==
  ASSUME TypeInv, TypeInv', LockInv, UNCHANGED <<users, streak, lockEnd>>, raced \subseteq raced',
         clock' >= clock,
         \A w \in Workers : tasks'[w].pc = "compare" => tasks'[w] = tasks[w]
  PROVE  LockInv'
  <1>1. clock \in Nat /\ clock' \in Nat
    BY BoundAssumption DEF TypeInv, TypeOK, Times
  <1>2. \A w \in Workers, e \in Emails :
          Comparing(w, e)' => Comparing(w, e) /\ tasks'[w] = tasks[w]
    BY DEF Comparing, At
  <1>3. ASSUME NEW e \in Emails \ raced'
        PROVE  RowTrue(e)' /\ \A w \in Workers : LoginTrue(w, e)'
    <2>1. e \in Emails \ raced /\ RowTrue(e)
      BY <1>3 DEF LockInv
    <2>2. lockEnd[e] \in Nat
      BY <2>1, BoundAssumption, DurationAssumption DEF TypeInv, TypeOK, Later
    <2>3. RowTrue(e)'
      BY <1>1, <2>1, <2>2 DEF RowTrue
    <2>4. ASSUME NEW w \in Workers, Comparing(w, e)'
          PROVE  LoginTrue(w, e)'
      <3>1. Comparing(w, e) /\ LoginTrue(w, e) /\ tasks'[w] = tasks[w]
        BY <1>2, <2>1, <2>4 DEF LockInv
      <3>2. tasks[w].at \in Nat
        BY BoundAssumption DEF TypeInv, TypeOK, Task, Times
      <3>3. \A v \in Workers \ {w} : ~Comparing(v, e)'
        BY <1>2, <2>1, <3>1 DEF LoginTrue
      <3> QED
        BY <1>1, <3>1, <3>2, <3>3 DEF LoginTrue
    <2> QED
      BY <2>3, <2>4 DEF LoginTrue
  <1> QED
    BY <1>3 DEF LockInv

\* The first row of an account has no failures.
LEMMA CreateUserLock ==
  ASSUME TypeInv, TypeInv', LockInv, NEW w \in Workers, CreateUser(w)
  PROVE  LockInv'
  <1> DEFINE e == tasks[w].email
  <1>1. /\ UNCHANGED <<streak, lockEnd, raced, clock>> /\ clock \in Nat
        /\ \A v \in Workers : tasks'[v].pc = "compare" => tasks'[v] = tasks[v]
    BY BoundAssumption
    DEF CreateUser, history, TypeInv, TypeOK, Times, Goto, Return, IdleTask, PlacedTask, Task
  <1>2. CASE users[e] # None
    BY <1>1, <1>2, QuietLock DEF CreateUser
  <1>3. CASE users[e] = None
    <2>1. users' = [users EXCEPT ![e] = NewUser] /\ e \in Emails /\ users \in [Emails -> User \cup {None}]
      BY <1>3 DEF CreateUser, TypeInv, TypeOK, At, PlacedTask
    <2>2. NewUser \in User /\ NewUser # None /\ NewUser.failed = 0 /\ NewUser.until = None
      BY BoundAssumption, NoneAssumption DEF NewUser, User
    <2>3. /\ users'[e] = NewUser
          /\ \A d \in Emails \ {e} : users'[d] = users[d]
      BY <2>1
    <2>4. ASSUME NEW d \in Emails \ raced', NEW v \in Workers, Comparing(v, d)'
          PROVE  Comparing(v, d) /\ tasks'[v] = tasks[v] /\ d # e
      <3>1. Comparing(v, d) /\ tasks'[v] = tasks[v]
        BY <1>1, <2>4 DEF Comparing, At
      <3>2. users[d] # None
        BY <1>1, <2>4, <3>1 DEF LockInv, LoginTrue
      <3> QED
        BY <1>3, <3>1, <3>2
    <2>5. ASSUME NEW d \in Emails \ raced'
          PROVE  RowTrue(d)' /\ \A v \in Workers : LoginTrue(v, d)'
      <3>1. RowTrue(d) /\ \A v \in Workers : LoginTrue(v, d)
        BY <1>1, <2>5 DEF LockInv
      <3>2. RowTrue(d)'
        BY <1>1, <1>3, <2>2, <2>3, <3>1 DEF RowTrue
      <3>3. \A v \in Workers : LoginTrue(v, d)'
        BY <1>1, <2>3, <2>4, <3>1 DEF LoginTrue
      <3> QED
        BY <3>2, <3>3
    <2> QED
      BY <2>5 DEF LockInv
  <1> QED
    BY <1>2, <1>3

\* A login finds the account unlocked, and reads its count; where another is
\* already comparing, the two overlap.
LEMMA FindUserLock ==
  ASSUME TypeInv, TypeInv', LockInv, NEW w \in Workers, FindUser(w)
  PROVE  LockInv'
  <1> DEFINE e == tasks[w].email
  <1>1. /\ UNCHANGED <<users, streak, lockEnd, clock>> /\ clock \in Nat
        /\ tasks \in [Workers -> PlacedTask] /\ tasks[w].pc = "find"
    BY BoundAssumption DEF FindUser, TypeInv, TypeOK, Times, At
  <1>2. CASE users[e] = None \/ Locked(e)
    <2>1. UNCHANGED raced /\ Return(w)
      BY <1>2 DEF FindUser
    <2>2. \A v \in Workers : tasks'[v].pc = "compare" => tasks'[v] = tasks[v]
      BY <1>1, <2>1 DEF Return, IdleTask
    <2> QED
      BY <1>1, <2>1, <2>2, QuietLock
  <1>3. CASE ~(users[e] = None \/ Locked(e))
    <2>1. /\ tasks' = [tasks EXCEPT ![w].pc = "compare", ![w].at = clock,
                                    ![w].failed = users[e].failed]
          /\ raced' = IF \E v \in Workers : At(v, "compare") /\ tasks[v].email = e
                      THEN raced \cup {e} ELSE raced
      BY <1>3 DEF FindUser
    <2>2. /\ tasks'[w].pc = "compare" /\ tasks'[w].email = e /\ tasks'[w].at = clock
          /\ tasks'[w].failed = users[e].failed
          /\ \A v \in Workers \ {w} : tasks'[v] = tasks[v]
      BY <1>1, <2>1 DEF PlacedTask, Task
    <2>3. ASSUME NEW d \in Emails \ raced'
          PROVE  RowTrue(d)' /\ \A v \in Workers : LoginTrue(v, d)'
      <3>1. d \in Emails \ raced /\ RowTrue(d) /\ \A v \in Workers : LoginTrue(v, d)
        BY <2>1, <2>3 DEF LockInv
      <3>2. RowTrue(d)'
        BY <1>1, <3>1 DEF RowTrue
      <3>3. d = e => \A v \in Workers \ {w} : ~Comparing(v, d)'
        BY <2>1, <2>2, <2>3 DEF Comparing, At
      <3>4. d # e => ~Comparing(w, d)'
        BY <2>2 DEF Comparing
      <3>5. \A v \in Workers \ {w} : Comparing(v, d)' <=> Comparing(v, d)
        BY <2>2 DEF Comparing, At
      <3>6. LoginTrue(w, d)'
        <4>1. CASE d # e
          BY <3>4, <4>1 DEF LoginTrue
        <4>2. CASE d = e
          <5>1. users[e] \in User /\ lockEnd[e] \in Nat /\ users[e] # None
            BY <1>3, <3>1, <4>2, BoundAssumption, DurationAssumption
            DEF TypeInv, TypeOK, Later
          <5>2. lockEnd[e] <= clock
            BY <1>1, <1>3, <3>1, <4>2, <5>1, NoneAssumption, BoundAssumption, DurationAssumption
            DEF RowTrue, Locked, User, Later
          <5> QED
            BY <1>1, <2>2, <3>3, <4>2, <5>1, <5>2 DEF LoginTrue
        <4> QED
          BY <4>1, <4>2
      <3>7. \A v \in Workers \ {w} : LoginTrue(v, d)'
        BY <1>1, <2>2, <3>1, <3>3, <3>4, <3>5 DEF LoginTrue
      <3> QED
        BY <3>2, <3>6, <3>7
    <2> QED
      BY <2>3 DEF LockInv
  <1> QED
    BY <1>2, <1>3

\* The password was wrong, or right: the row of the account and what happened to
\* it change together.
LEMMA CompareLock ==
  ASSUME TypeInv, TypeInv', LockInv, NEW w \in Workers,
         WrongCredentials(w) \/ RightCredentials(w)
  PROVE  LockInv'
  <1>0. PICK e \in Emails : e = tasks[w].email
    BY DEF WrongCredentials, RightCredentials, TypeInv, At, PlacedTask
  <1> DEFINE failed == tasks[w].failed + 1
  <1>1. /\ UNCHANGED <<raced, clock>> /\ clock \in Nat /\ tasks[w].pc = "compare"
        /\ tasks \in [Workers -> PlacedTask] /\ tasks[w].at \in Times /\ tasks[w].at \in Nat
        /\ users \in [Emails -> User \cup {None}] /\ streak \in [Emails -> 0..MaxRequests]
        /\ lockEnd \in [Emails -> Later]
    BY BoundAssumption
    DEF WrongCredentials, RightCredentials, TypeInv, TypeOK, Times, At, PlacedTask, Task
  <1>2. /\ tasks'[w].pc \in {"idle", "session"}
        /\ \A v \in Workers \ {w} : tasks'[v] = tasks[v]
    BY <1>1 DEF WrongCredentials, RightCredentials, Return, Goto, IdleTask, PlacedTask, Task
  <1>3. \A d \in Emails \ {e} :
          /\ users'[d] = users[d] /\ streak'[d] = streak[d] /\ lockEnd'[d] = lockEnd[d]
    BY <1>0, <1>1 DEF WrongCredentials, RightCredentials
  <1>4. ~Comparing(w, e)' /\ ~At(w, "compare")'
    BY <1>2 DEF Comparing, At
  <1>5. ASSUME e \notin raced
        PROVE  RowTrue(e)' /\ \A v \in Workers : ~Comparing(v, e)'
    <2>1. RowTrue(e) /\ LoginTrue(w, e) /\ Comparing(w, e)
      BY <1>0, <1>1, <1>5 DEF LockInv, Comparing, At
    <2>2. \A v \in Workers : ~Comparing(v, e)'
      BY <1>2, <1>4, <2>1 DEF LoginTrue, Comparing, At
    <2>3. /\ users[e] # None /\ tasks[w].failed = streak[e] /\ streak[e] \in Nat
          /\ lockEnd[e] <= tasks[w].at /\ tasks[w].at <= clock /\ lockEnd[e] \in Nat
      BY <1>1, <2>1, BoundAssumption, DurationAssumption DEF RowTrue, LoginTrue, Later
    <2>4. CASE RightCredentials(w)
      <3>1. NewUser # None /\ NewUser.failed = 0 /\ NewUser.until = None
        BY BoundAssumption, NoneAssumption DEF NewUser, User
      <3>2. users'[e] = NewUser /\ streak'[e] = 0 /\ lockEnd'[e] = lockEnd[e]
        BY <1>0, <1>1, <2>4 DEF RightCredentials
      <3> QED
        BY <1>1, <2>2, <2>3, <3>1, <3>2 DEF RowTrue
    <2>5. CASE WrongCredentials(w)
      <3> DEFINE user == [failed |-> failed, until |-> Lock(failed, tasks[w].at)]
      <3>1. /\ users'[e] = user /\ streak'[e] = streak[e] + 1
            /\ lockEnd'[e] = IF streak[e] + 1 >= LockoutAfter
                             THEN tasks[w].at + LockoutDuration ELSE lockEnd[e]
        BY <1>0, <1>1, <2>5 DEF WrongCredentials
      <3>2. users'[e] \in User \cup {None}
        BY <1>1 DEF TypeInv, TypeOK
      <3>3. users'[e].failed = streak'[e]
        BY <2>3, <3>1
      <3>4. users'[e].until = lockEnd'[e] \/ (users'[e].until = None /\ lockEnd'[e] <= clock)
        BY <1>1, <2>3, <3>1, DurationAssumption DEF Lock
      <3>5. users'[e] # None
        <4>1. Lock(failed, tasks[w].at) \in Later \cup {None}
          BY <1>1, DurationAssumption, BoundAssumption DEF Lock, Later, Times
        <4>2. failed \in 0..MaxRequests
          <5>1. streak'[e] \in 0..MaxRequests
            BY <1>1 DEF TypeInv, TypeOK
          <5> QED
            BY <2>3, <3>1, <5>1
        <4>3. user \in User
          BY <4>1, <4>2 DEF User
        <4> QED
          BY <3>1, <4>3, NoneAssumption
      <3> QED
        BY <1>1, <2>2, <3>3, <3>4, <3>5 DEF RowTrue
    <2> QED
      BY <2>4, <2>5
  <1>6. ASSUME NEW d \in Emails \ raced'
        PROVE  RowTrue(d)' /\ \A v \in Workers : LoginTrue(v, d)'
    <2>1. CASE d = e
      BY <1>1, <1>5, <1>6, <2>1 DEF LoginTrue
    <2>2. CASE d # e
      <3>1. RowTrue(d) /\ \A v \in Workers : LoginTrue(v, d)
        BY <1>1, <1>6 DEF LockInv
      <3>2. RowTrue(d)'
        BY <1>1, <1>3, <2>2, <3>1 DEF RowTrue
      <3>3. \A v \in Workers : Comparing(v, d)' => Comparing(v, d) /\ tasks'[v] = tasks[v]
        BY <1>2, <1>4 DEF Comparing, At
      <3>4. \A v \in Workers : LoginTrue(v, d)'
        BY <1>1, <1>3, <2>2, <3>1, <3>3 DEF LoginTrue
      <3> QED
        BY <3>2, <3>4
    <2> QED
      BY <2>1, <2>2
  <1> QED
    BY <1>6 DEF LockInv

\* Every action preserves LockInv.
LEMMA StepLockInv == TypeInv /\ TypeInv' /\ LockInv /\ [Next]_vars => LockInv'
  <1> SUFFICES ASSUME TypeInv, TypeInv', LockInv, [Next]_vars PROVE LockInv'
    OBVIOUS
  <1>0. clock \in Nat /\ tasks \in [Workers -> PlacedTask]
    BY BoundAssumption DEF TypeInv, TypeOK, Times
  <1>1. ASSUME NEW w \in Workers,
               CreateUser(w) \/ FindUser(w) \/ WrongCredentials(w) \/ RightCredentials(w)
        PROVE  LockInv'
    BY <1>1, CreateUserLock, FindUserLock, CompareLock
  <1>2. ASSUME NEW w \in Workers,
               \/ Setup(w) \/ CountUsers(w) \/ Login(w)
               \/ CreateSession(w) \/ ClearIPAttempts(w)
               \/ Request(w) \/ DeleteExpired(w) \/ GetSession(w) \/ CheckSession(w) \/ Answer(w)
               \/ Logout(w) \/ Webhook(w) \/ Interrupt(w)
        PROVE  LockInv'
    <2>1. UNCHANGED <<users, streak, lockEnd, raced, clock>>
      BY <1>2, Zenon
      DEF Setup, CountUsers, Login, CreateSession, ClearIPAttempts, Request, DeleteExpired,
          GetSession, CheckSession, Answer, Logout, Webhook, Interrupt, Accept, history
    <2>2. \A v \in Workers : tasks'[v].pc = "compare" => tasks'[v] = tasks[v]
      <3>1. CASE Setup(w) \/ Request(w)
        BY <1>0, <3>1 DEF Setup, Request, Begin, IdleTask
      <3>2. CASE Login(w)
        <4> PICK e \in Emails, ip \in Ips :
              \/ Begin(w, [IdleTask EXCEPT !.pc = "find", !.email = e, !.ip = ip])
              \/ UNCHANGED tasks
          BY <3>2 DEF Login
        <4> QED
          BY <1>0 DEF Begin, IdleTask
      <3>3. CASE Logout(w) \/ Webhook(w)
        <4>1. UNCHANGED tasks
          BY <3>3, Zenon DEF Logout, Webhook
        <4> QED
          BY <4>1
      <3>4. CASE \/ CountUsers(w) \/ CreateSession(w) \/ ClearIPAttempts(w) \/ DeleteExpired(w)
                 \/ GetSession(w) \/ CheckSession(w) \/ Answer(w) \/ Interrupt(w)
        <4>1. \/ Return(w) \/ \E label \in Labels \ {"compare"} : Goto(w, label)
              \/ tasks' = [tasks EXCEPT ![w].pc = "check", ![w].until = sessions[tasks[w].token]]
          BY <3>4 DEF CountUsers, CreateSession, ClearIPAttempts, DeleteExpired, GetSession,
                      CheckSession, Answer, Interrupt, Labels
        <4> QED
          BY <1>0, <4>1 DEF Return, Goto, IdleTask, PlacedTask, Task
      <3> QED
        BY <1>2, <3>1, <3>2, <3>3, <3>4
    <2> QED
      BY <1>0, <2>1, <2>2, QuietLock
  <1>3. CASE Tick
    BY <1>0, <1>3, QuietLock DEF Tick, history
  <1>4. CASE Restart
    <2>1. \A v \in Workers : tasks'[v].pc # "compare"
      BY <1>4 DEF Restart, IdleTask
    <2> QED
      BY <1>0, <1>4, <2>1, QuietLock DEF Restart, history
  <1>5. CASE UNCHANGED vars
    <2>1. UNCHANGED <<users, streak, lockEnd, raced, clock, tasks>>
      BY <1>5 DEF vars, history
    <2> QED
      BY <1>0, <2>1, QuietLock
  <1> QED
    BY <1>1, <1>2, <1>3, <1>4, <1>5, Zenon DEF Next

LEMMA InitLockInv == Init => LockInv
  BY BoundAssumption DEF Init, LockInv, RowTrue, LoginTrue, Comparing, At, IdleTask

\* Where the logins of an account never overlapped, the account that was locked
\* stays locked: whoever signs in began when no lockout ran, whatever else runs,
\* is interrupted or restarts in between.
THEOREM LockoutStays == Spec => LockoutHolds
  <1>1. TypeInv /\ LockInv /\ [Next]_vars
        => [\A w \in Workers :
              At(w, "compare") /\ tasks'[w].pc = "session" /\ tasks[w].email \notin raced
                => tasks[w].at >= lockEnd[tasks[w].email]]_vars
    <2> SUFFICES ASSUME TypeInv, LockInv, NEW w \in Workers,
                        At(w, "compare"), tasks[w].email \notin raced
                 PROVE  tasks[w].at >= lockEnd[tasks[w].email]
      OBVIOUS
    <2>1. /\ tasks[w].email \in Emails \ raced
          /\ tasks[w].at \in Nat /\ lockEnd[tasks[w].email] \in Nat
      BY BoundAssumption, DurationAssumption
      DEF TypeInv, TypeOK, PlacedTask, Task, Times, Later, At
    <2>2. LoginTrue(w, tasks[w].email) /\ Comparing(w, tasks[w].email)
      BY <2>1 DEF LockInv, Comparing
    <2> QED
      BY <2>1, <2>2 DEF LoginTrue
  <1> QED
    BY InitSessionInv, StepSessionInv, InitTypeInv, StepTypeInv, InitLockInv, StepLockInv, <1>1,
       PTL DEF Spec, LockoutHolds

-----------------------------------------------------------------------------
(* The limit on the logins of an address.                                  *)

\* The logins of a window that begins with this one.
Following(logins, first) == {l \in logins : l[2] - first[2] \in 0..IpWindow}

\* The list of an address holds every login of the last window that was let
\* through; so no login of it begins a window that is more than full.
LoginInv ==
  \A ip \in Ips :
    /\ IsFiniteSet(passed[ip]) /\ attempts[ip] \subseteq passed[ip]
    /\ \A l \in passed[ip] : l[2] <= clock
    /\ \A l \in passed[ip] : clock - l[2] <= IpWindow => l \in attempts[ip]
    /\ \A first \in passed[ip] : Cardinality(Following(passed[ip], first)) <= IpLimit

LEMMA InitLoginInv == Init => LoginInv
  BY FS_EmptySet DEF Init, LoginInv, NoLogins

LEMMA OneMore ==
  ASSUME NEW S, IsFiniteSet(S), NEW x
  PROVE  /\ IsFiniteSet(S \cup {x})
         /\ Cardinality(S) \in Nat /\ Cardinality(S \cup {x}) \in Nat
         /\ Cardinality(S \cup {x}) <= Cardinality(S) + 1
         /\ x \notin S => Cardinality(S \cup {x}) = Cardinality(S) + 1
  <1>1. /\ IsFiniteSet(S \cup {x})
        /\ Cardinality(S \cup {x}) = IF x \in S THEN Cardinality(S) ELSE Cardinality(S) + 1
    BY FS_AddElement
  <1>2. Cardinality(S) \in Nat
    BY FS_CardinalityType
  <1> QED
    BY <1>1, <1>2

\* One more login, where the list says there is room for it.
LEMMA RoomForOne ==
  ASSUME NEW old, NEW list, NEW now \in Nat, NEW n,
         \A l \in old : l[2] \in Nat /\ l[2] <= now,
         IsFiniteSet(old), list \subseteq old,
         \A l \in old : now - l[2] <= IpWindow => l \in list,
         Cardinality(Recent(list, now)) < IpLimit,
         \A first \in old : Cardinality(Following(old, first)) <= IpLimit,
         NEW first \in old \cup {<<n, now>>}
  PROVE  Cardinality(Following(old \cup {<<n, now>>}, first)) <= IpLimit
  <1> DEFINE login == <<n, now>>
             kept == Recent(list, now)
             D == Following(old \cup {login}, first)
  <1>1. IpWindow \in Nat /\ IpLimit \in Nat /\ login[2] = now /\ first[2] \in Nat
    BY DurationAssumption
  <1>2. CASE now - first[2] <= IpWindow
    <2>1. D \subseteq kept \cup {login}
      BY <1>1, <1>2 DEF Recent, Following
    <2>2. IsFiniteSet(kept) /\ Cardinality(kept) \in Nat
      <3>1. kept \subseteq old
        BY DEF Recent
      <3> QED
        BY <3>1, FS_Subset, FS_CardinalityType
    <2>3. IsFiniteSet(kept \cup {login}) /\ Cardinality(kept \cup {login}) <= Cardinality(kept) + 1
      <3> HIDE DEF kept, login
      <3> QED
        BY <2>2, OneMore
    <2>4. Cardinality(D) <= Cardinality(kept \cup {login}) /\ Cardinality(D) \in Nat
      <3> HIDE DEF D, kept
      <3> QED
        BY <2>1, <2>3, FS_Subset, FS_CardinalityType
    <2>5. Cardinality(kept) < IpLimit
      OBVIOUS
    <2>6. Cardinality(kept \cup {login}) \in Nat
      BY <2>3, FS_CardinalityType
    <2> HIDE DEF D, kept
    <2>7. Cardinality(D) <= IpLimit
      BY <1>1, <2>2, <2>3, <2>4, <2>5, <2>6
    <2> QED
      BY <2>7 DEF D
  <1>3. CASE ~(now - first[2] <= IpWindow)
    <2>1. first \in old
      BY <1>1, <1>3
    <2>2. D = Following(old, first)
      BY <1>1, <1>3 DEF Following
    <2> QED
      BY <2>1, <2>2
  <1> QED
    BY <1>2, <1>3

LEMMA StepLoginInv == TypeInv /\ LoginInv /\ [Next]_vars => LoginInv'
  <1> SUFFICES ASSUME TypeInv, LoginInv, [Next]_vars PROVE LoginInv'
    OBVIOUS
  <1>0. /\ clock \in Nat /\ IpWindow \in Nat /\ IpLimit \in Nat
        /\ attempts \in [Ips -> SUBSET (Numbers \X Times)]
        /\ passed \in [Ips -> SUBSET (Numbers \X Times)]
        /\ \A ip \in Ips : \A l \in passed[ip] : l[2] \in Nat
    BY BoundAssumption, DurationAssumption DEF TypeInv, TypeOK, Times
  <1>1. ASSUME UNCHANGED <<attempts, passed>>, clock' >= clock, clock' \in Nat
        PROVE  LoginInv'
    BY <1>0, <1>1 DEF LoginInv
  <1>2. ASSUME NEW w \in Workers, Login(w) PROVE LoginInv'
    <2> PICK ip \in Ips :
          /\ clock' = clock
          /\ \/ /\ AllowIP(ip, clock)
                /\ attempts' = [attempts EXCEPT ![ip] = Recent(attempts[ip], clock)
                                                        \cup {<<requests + 1, clock>>}]
                /\ passed' = [passed EXCEPT ![ip] = @ \cup {<<requests + 1, clock>>}]
             \/ /\ attempts' = [attempts EXCEPT ![ip] = Recent(attempts[ip], clock)]
                /\ UNCHANGED passed
      BY <1>2 DEF Login, Accept
    <2>1. CASE AllowIP(ip, clock) /\ UNCHANGED clock /\ passed' # passed
      <3>1. PICK login : login = <<requests + 1, clock>>
        OBVIOUS
      <3>2. /\ attempts'[ip] = Recent(attempts[ip], clock) \cup {login}
            /\ passed'[ip] = passed[ip] \cup {login} /\ login[2] = clock
            /\ \A i \in Ips \ {ip} : attempts'[i] = attempts[i] /\ passed'[i] = passed[i]
        BY <1>0, <2>1, <3>1
      <3>3. /\ IsFiniteSet(passed'[ip]) /\ attempts'[ip] \subseteq passed'[ip]
            /\ \A l \in passed'[ip] : l[2] <= clock
            /\ \A l \in passed'[ip] : clock - l[2] <= IpWindow => l \in attempts'[ip]
        BY <1>0, <3>2, FS_AddElement DEF LoginInv, Recent
      <3>4. \A first \in passed'[ip] : Cardinality(Following(passed'[ip], first)) <= IpLimit
        <4> DEFINE old == passed[ip]
                   list == attempts[ip]
        <4>1. Cardinality(Recent(list, clock)) < IpLimit
          BY <2>1 DEF AllowIP
        <4>2. /\ \A l \in old : l[2] \in Nat /\ l[2] <= clock
              /\ IsFiniteSet(old) /\ list \subseteq old
              /\ \A l \in old : clock - l[2] <= IpWindow => l \in list
              /\ \A first \in old : Cardinality(Following(old, first)) <= IpLimit
          BY <1>0 DEF LoginInv
        <4>3. \A first \in old \cup {<<requests + 1, clock>>} :
                Cardinality(Following(old \cup {<<requests + 1, clock>>}, first)) <= IpLimit
          <5> HIDE DEF old, list
          <5>1. TAKE first \in old \cup {<<requests + 1, clock>>}
          <5> QED
            BY <1>0, <4>1, <4>2, RoomForOne
        <4> QED
          BY <3>1, <3>2, <4>3
      <3> QED
        <4> SUFFICES ASSUME NEW i \in Ips
                     PROVE  /\ IsFiniteSet(passed'[i]) /\ attempts'[i] \subseteq passed'[i]
                            /\ \A l \in passed'[i] : l[2] <= clock
                            /\ \A l \in passed'[i] :
                                 clock - l[2] <= IpWindow => l \in attempts'[i]
                            /\ \A first \in passed'[i] :
                                 Cardinality(Following(passed'[i], first)) <= IpLimit
          BY <2>1 DEF LoginInv
        <4>1. CASE i = ip
          BY <3>3, <3>4, <4>1
        <4>2. CASE i # ip
          BY <3>2, <4>2 DEF LoginInv
        <4> QED
          BY <4>1, <4>2
    <2>2. CASE UNCHANGED <<clock, passed>>
      BY SMTT(30), <1>0, <2>2, FS_AddElement DEF LoginInv, Recent
    <2> QED
      BY <2>1, <2>2
  <1>3. ASSUME NEW w \in Workers, ClearIPAttempts(w) PROVE LoginInv'
    <2>1. /\ attempts' = [attempts EXCEPT ![tasks[w].ip] = {}]
          /\ passed' = [passed EXCEPT ![tasks[w].ip] = {}] /\ UNCHANGED clock
      BY <1>3 DEF ClearIPAttempts
    <2>2. \A i \in Ips : \/ attempts'[i] = attempts[i] /\ passed'[i] = passed[i]
                         \/ attempts'[i] = {} /\ passed'[i] = {}
      BY <1>0, <2>1
    <2> QED
      BY <2>1, <2>2, FS_EmptySet DEF LoginInv
  <1>4. CASE Restart
    BY <1>4, FS_EmptySet DEF Restart, LoginInv, NoLogins
  <1>5. CASE \/ \E w \in Workers :
                  \/ Setup(w) \/ CountUsers(w) \/ CreateUser(w) \/ FindUser(w)
                  \/ WrongCredentials(w) \/ RightCredentials(w) \/ CreateSession(w)
                  \/ Request(w) \/ DeleteExpired(w) \/ GetSession(w) \/ CheckSession(w)
                  \/ Answer(w) \/ Logout(w) \/ Webhook(w) \/ Interrupt(w)
             \/ UNCHANGED vars
    <2>1. UNCHANGED <<attempts, passed, clock>>
      BY <1>5, Zenon
      DEF Setup, CountUsers, CreateUser, FindUser, WrongCredentials, RightCredentials,
          CreateSession, Request, DeleteExpired, GetSession, CheckSession, Answer, Logout,
          Webhook, Interrupt, Accept, memory, vars
    <2> QED
      BY <1>0, <1>1, <2>1
  <1>6. CASE Tick
    BY <1>0, <1>1, <1>6 DEF Tick, memory
  <1> QED
    BY <1>2, <1>3, <1>4, <1>5, <1>6, Zenon DEF Next

\* However the logins from an address interleave, in no window do more of them
\* reach the database than the limit allows.
THEOREM LoginsStayLimited == Spec => []LoginsLimited
  <1>1. LoginInv => LoginsLimited
    BY DEF LoginInv, LoginsLimited, Following
  <1> QED
    BY InitSessionInv, StepSessionInv, InitTypeInv, StepTypeInv, InitLoginInv, StepLoginInv, <1>1,
       PTL DEF Spec

-----------------------------------------------------------------------------
(* The limiter of the deploy webhook.                                      *)

Call == Times \X BOOLEAN

\* The calls of a log that were let through in (from, to].
Through(log, from, to) ==
  {i \in DOMAIN log : log[i][2] /\ log[i][1] > from /\ log[i][1] <= to}

Count(log, from, to) == Cardinality(Through(log, from, to))

\* What WebhooksLimited says of the log of one key.
LogLimited(log) ==
  \A i \in DOMAIN log :
    LET now == log[i][1]
    IN  /\ Cardinality(Through(log, now - HookWindow, now)) <= 2 * HookLimit
        /\ ~log[i][2] => Cardinality(Through(log, now - HookWindow, now)) >= HookLimit

\* The entry of a key and its log: the entry counts what was let through since
\* its window began; the window before it ended no later, and let through no
\* more than the limit either; a key has no entry only when it was not called
\* within a window's length.
WindowTrue(log, window, now) ==
  /\ \A i \in DOMAIN log : log[i][1] <= now
  /\ window = None => \A i \in DOMAIN log : log[i][1] < now - HookWindow
  /\ window # None =>
       /\ window.started <= window.seen /\ window.seen <= now
       /\ window.seen - window.started < HookWindow
       /\ \A i \in DOMAIN log : log[i][1] <= window.seen
       /\ Cardinality(Through(log, window.started - 1, now)) = window.count
       /\ Cardinality(Through(log, window.started - HookWindow, window.started - 1)) <= HookLimit

LEMMA LogFields ==
  ASSUME NEW log \in Seq(Call)
  PROVE  /\ Len(log) \in Nat /\ DOMAIN log = 1..Len(log)
         /\ \A i \in DOMAIN log : log[i][1] \in Nat /\ log[i][2] \in BOOLEAN
  <1>1. Len(log) \in Nat /\ DOMAIN log = 1..Len(log)
    BY LenProperties
  <1>2. \A i \in 1..Len(log) : log[i] \in Call
    BY ElementOfSeq
  <1> QED
    BY <1>1, <1>2, BoundAssumption DEF Call, Times

\* A log is finite, and so is what is let through of it.
LEMMA ThroughFinite ==
  ASSUME NEW log \in Seq(Call), NEW from, NEW to
  PROVE  /\ IsFiniteSet(Through(log, from, to)) /\ Cardinality(Through(log, from, to)) \in Nat
         /\ Through(log, from, to) \subseteq DOMAIN log
  <1>1. Through(log, from, to) \subseteq 1..Len(log) /\ Len(log) \in Nat
    BY LogFields DEF Through
  <1>2. IsFiniteSet(1..Len(log))
    BY <1>1, FS_Interval
  <1> QED
    BY <1>1, <1>2, FS_Subset, FS_CardinalityType, LogFields

\* One stretch within another, and one made up of two.
LEMMA ThroughWithin ==
  ASSUME NEW log \in Seq(Call), NEW a \in Int, NEW b \in Int, NEW c \in Int, NEW d \in Int,
         \A i \in DOMAIN log : log[i][1] > a /\ log[i][1] <= b => log[i][1] > c /\ log[i][1] <= d
  PROVE  Cardinality(Through(log, a, b)) <= Cardinality(Through(log, c, d))
  <1>1. Through(log, a, b) \subseteq Through(log, c, d)
    BY DEF Through
  <1> QED
    BY <1>1, ThroughFinite, FS_Subset

LEMMA ThroughTwo ==
  ASSUME NEW log \in Seq(Call), NEW a \in Int, NEW b \in Int, NEW c \in Int
  PROVE  Cardinality(Through(log, a, c))
           <= Cardinality(Through(log, a, b)) + Cardinality(Through(log, b, c))
  <1> DEFINE S == Through(log, a, b)
             T == Through(log, b, c)
             U == Through(log, a, c)
  <1>1. U \subseteq S \cup T
    BY LogFields DEF Through
  <1>2. /\ IsFiniteSet(S) /\ IsFiniteSet(T) /\ Cardinality(S) \in Nat /\ Cardinality(T) \in Nat
        /\ Cardinality(U) \in Nat
    BY ThroughFinite
  <1> HIDE DEF S, T, U
  <1>3. /\ IsFiniteSet(S \cup T)
        /\ Cardinality(S \cup T) = Cardinality(S) + Cardinality(T) - Cardinality(S \cap T)
    BY <1>2, FS_Union
  <1>4. Cardinality(S \cap T) \in Nat
    <2>1. S \cap T \subseteq S
      OBVIOUS
    <2> QED
      BY <1>2, <2>1, FS_Subset, FS_CardinalityType
  <1>5. Cardinality(U) <= Cardinality(S \cup T)
    BY <1>1, <1>3, FS_Subset
  <1>6. Cardinality(U) <= Cardinality(S) + Cardinality(T)
    BY <1>2, <1>3, <1>4, <1>5
  <1> QED
    BY <1>6 DEF S, T, U

\* What one more call adds to a stretch.
LEMMA ThroughAppend ==
  ASSUME NEW log \in Seq(Call), NEW x \in Call, NEW a \in Int, NEW b \in Int
  PROVE  LET long == Append(log, x)
         IN  /\ long \in Seq(Call) /\ DOMAIN long = 1..(Len(log) + 1)
             /\ \A i \in DOMAIN log : long[i] = log[i]
             /\ long[Len(log) + 1] = x
             /\ Cardinality(Through(long, a, b)) =
                  IF x[2] /\ x[1] > a /\ x[1] <= b
                  THEN Cardinality(Through(log, a, b)) + 1
                  ELSE Cardinality(Through(log, a, b))
  <1> DEFINE long == Append(log, x)
             n == Len(log) + 1
  <1>1. /\ long \in Seq(Call) /\ Len(long) = n /\ n \in Nat
        /\ \A i \in 1..Len(log) : long[i] = log[i]
        /\ long[n] = x
    BY AppendProperties, LenProperties
  <1>2. DOMAIN long = 1..n /\ DOMAIN log = 1..Len(log) /\ Len(log) \in Nat
    BY <1>1, LenProperties
  <1> HIDE DEF long
  <1>3. Through(log, a, b) \subseteq 1..Len(log) /\ n \notin Through(log, a, b)
    BY <1>2, ThroughFinite
  <1>4. CASE x[2] /\ x[1] > a /\ x[1] <= b
    <2>1. Through(long, a, b) = Through(log, a, b) \cup {n}
      BY <1>1, <1>2, <1>4 DEF Through
    <2>2. Cardinality(Through(long, a, b)) = Cardinality(Through(log, a, b)) + 1
      BY <1>3, <2>1, ThroughFinite, OneMore
    <2> QED
      BY <1>1, <1>2, <1>4, <2>2 DEF long
  <1>5. CASE ~(x[2] /\ x[1] > a /\ x[1] <= b)
    <2>1. Through(long, a, b) = Through(log, a, b)
      BY <1>1, <1>2, <1>5 DEF Through
    <2> QED
      BY <1>1, <1>2, <1>5, <2>1 DEF long
  <1> QED
    BY <1>4, <1>5

LEMMA WindowFields ==
  ASSUME NEW window \in Window
  PROVE  /\ window.count \in 1..HookLimit /\ window.count \in Nat
         /\ window.started \in Nat /\ window.seen \in Nat /\ window # None
         /\ HookLimit \in Nat /\ HookWindow \in Nat /\ HookLimit >= 1 /\ HookWindow >= 1
  BY BoundAssumption, DurationAssumption, NoneAssumption DEF Window, Times

\* Time passes, and old windows are pruned: what is known of a key stays true.
LEMMA TimePasses ==
  ASSUME NEW log \in Seq(Call), NEW window \in Window \cup {None}, NEW now \in Nat,
         WindowTrue(log, window, now)
  PROVE  WindowTrue(log, window, now + 1)
  <1>1. \A i \in DOMAIN log : log[i][1] \in Nat /\ log[i][1] <= now /\ log[i][1] <= now + 1
    BY LogFields DEF WindowTrue
  <1>2. CASE window = None
    BY SMTT(30), <1>1, <1>2, DurationAssumption DEF WindowTrue
  <1>3. CASE window # None
    <2>1. /\ window \in Window
          /\ window.started \in Nat /\ window.seen \in Nat /\ window.seen <= now
      BY <1>3, WindowFields DEF WindowTrue
    <2>2. Through(log, window.started - 1, now + 1) = Through(log, window.started - 1, now)
      BY <1>1 DEF Through
    <2> QED
      BY <1>1, <1>3, <2>1, <2>2 DEF WindowTrue
  <1> QED
    BY <1>2, <1>3

LEMMA PruneKeeps ==
  ASSUME NEW log \in Seq(Call), NEW window \in Window \cup {None}, NEW now \in Nat,
         WindowTrue(log, window, now), window # None, now - window.seen > HookWindow
  PROVE  WindowTrue(log, None, now)
  <1>1. window.seen \in Nat /\ HookWindow \in Nat
    BY WindowFields
  <1> QED
    BY <1>1, LogFields DEF WindowTrue

\* The log of a key after one more call.
Appended(log, long, now, refused) == long = Append(log, <<now, ~refused>>)

Longer(log, long, now, refused) ==
  /\ long \in Seq(Call) /\ log \in Seq(Call)
  /\ DOMAIN log \subseteq DOMAIN long
  /\ \A i \in DOMAIN log : long[i] = log[i]
  /\ \A i \in DOMAIN long : i \notin DOMAIN log => long[i][1] = now /\ (long[i][2] <=> ~refused)

LEMMA CallFields ==
  ASSUME NEW now \in Times, NEW refused \in BOOLEAN
  PROVE  /\ <<now, ~refused>> \in Call /\ <<now, ~refused>>[1] = now
         /\ <<now, ~refused>>[2] <=> ~refused
  <1>1. CASE refused = TRUE
    <2>1. <<now, ~refused>> = <<now, FALSE>>
      BY <1>1
    <2> QED
      BY <1>1, <2>1 DEF Call
  <1>2. CASE refused = FALSE
    <2>1. <<now, ~refused>> = <<now, TRUE>>
      BY <1>2
    <2> QED
      BY <1>2, <2>1 DEF Call
  <1> QED
    BY <1>1, <1>2

LEMMA AppendIsLonger ==
  ASSUME NEW log \in Seq(Call), NEW now \in Times, NEW refused \in BOOLEAN,
         NEW long, Appended(log, long, now, refused)
  PROVE  Longer(log, long, now, refused)
  <1>1. PICK x \in Call : x = <<now, ~refused>> /\ x[1] = now /\ (x[2] <=> ~refused)
    BY CallFields
  <1>2. long = Append(log, x)
    BY <1>1 DEF Appended
  <1>3. /\ long \in Seq(Call) /\ DOMAIN long = 1..(Len(log) + 1)
        /\ \A i \in DOMAIN log : long[i] = log[i]
        /\ long[Len(log) + 1] = x
    BY <1>2, ThroughAppend, 0 \in Int
  <1>4. DOMAIN log = 1..Len(log) /\ Len(log) \in Nat
    BY LogFields
  <1>5. \A i \in DOMAIN long : i \notin DOMAIN log => i = Len(log) + 1
    BY <1>3, <1>4
  <1> QED
    BY <1>1, <1>3, <1>4, <1>5 DEF Longer

\* What the call adds to the count of a stretch.
LEMMA AppendCounts ==
  ASSUME NEW log \in Seq(Call), NEW now \in Times, NEW refused \in BOOLEAN,
         NEW long, Appended(log, long, now, refused), NEW a \in Int, NEW b \in Int
  PROVE  /\ Count(log, a, b) \in Nat /\ Count(long, a, b) \in Nat
         /\ Count(log, a, b) <= Count(long, a, b)
         /\ ~refused /\ a < now /\ now <= b => Count(long, a, b) = Count(log, a, b) + 1
         /\ refused \/ now <= a \/ b < now => Count(long, a, b) = Count(log, a, b)
  <1>1. PICK x \in Call : x = <<now, ~refused>> /\ x[1] = now /\ (x[2] <=> ~refused)
    BY CallFields
  <1>2. /\ long \in Seq(Call)
        /\ Cardinality(Through(long, a, b)) =
             IF x[2] /\ x[1] > a /\ x[1] <= b
             THEN Cardinality(Through(log, a, b)) + 1
             ELSE Cardinality(Through(log, a, b))
    BY <1>1, ThroughAppend DEF Appended
  <1>3. Cardinality(Through(log, a, b)) \in Nat
    BY ThroughFinite
  <1>4. now \in Int
    BY BoundAssumption DEF Times
  <1> QED
    BY <1>1, <1>2, <1>3, <1>4 DEF Count

\* The entry the call leaves, and what it counts: a call that falls into an open
\* window.
LEMMA CallInWindow ==
  ASSUME NEW log \in Seq(Call), NEW window \in Window \cup {None}, NEW now \in Times,
         NEW refused \in BOOLEAN, refused <=> Open(window, now) /\ Full(window),
         WindowTrue(log, window, now), Open(window, now),
         NEW long, Appended(log, long, now, refused),
         NEW new, new = Called(window, now, refused)
  PROVE  /\ new \in Window /\ new.seen = now /\ new.started <= now
         /\ now - new.started < HookWindow
         /\ Count(long, new.started - 1, now) = new.count
         /\ Count(long, new.started - HookWindow, new.started - 1) <= HookLimit
         /\ refused => new.count >= HookLimit
  <1>1. /\ new \in Window /\ new.seen = now /\ window # None /\ new.started = window.started
        /\ new.count = IF refused THEN window.count ELSE window.count + 1
    BY CalledWindow
  <1>2. /\ window \in Window /\ now \in Nat /\ now - window.started < HookWindow
        /\ window.started \in Nat /\ window.count \in Nat /\ window.started <= now
        /\ window.seen \in Nat /\ HookWindow \in Nat /\ HookLimit \in Nat
        /\ Count(log, window.started - 1, now) = window.count
        /\ Count(log, window.started - HookWindow, window.started - 1) <= HookLimit
    <2>1. window \in Window /\ now \in Nat
      BY <1>1, BoundAssumption DEF Times
    <2> QED
      BY <2>1, WindowFields DEF WindowTrue, Count, Open
  <1>3. PICK s \in Int : s = window.started - 1
    BY <1>2
  <1>4. PICK p \in Int : p = window.started - HookWindow
    BY <1>2
  <1>5. Count(long, s, now) = IF refused THEN Count(log, s, now) ELSE Count(log, s, now) + 1
    <2>1. now \in Int /\ s < now /\ now <= now
      BY <1>2, <1>3
    <2> QED
      BY <2>1, AppendCounts
  <1>6. Count(long, p, s) = Count(log, p, s)
    <2>1. s < now
      BY <1>2, <1>3
    <2> QED
      BY <2>1, AppendCounts
  <1>7. refused => window.count >= HookLimit
    BY DEF Full
  <1> QED
    BY <1>1, <1>2, <1>3, <1>4, <1>5, <1>6, <1>7

\* A call that begins a window of its own.
LEMMA CallBeginsWindow ==
  ASSUME NEW log \in Seq(Call), NEW window \in Window \cup {None}, NEW now \in Times,
         NEW refused \in BOOLEAN, refused <=> Open(window, now) /\ Full(window),
         WindowTrue(log, window, now), ~Open(window, now),
         NEW long, Appended(log, long, now, refused),
         NEW new, new = Called(window, now, refused)
  PROVE  /\ new \in Window /\ new.seen = now /\ new.started <= now
         /\ now - new.started < HookWindow
         /\ Count(long, new.started - 1, now) = new.count
         /\ Count(long, new.started - HookWindow, new.started - 1) <= HookLimit
         /\ refused => new.count >= HookLimit
  <1>1. ~refused /\ new \in Window /\ new.seen = now /\ new.started = now /\ new.count = 1
    BY CalledWindow
  <1>2. /\ now \in Nat /\ HookWindow \in Nat /\ HookLimit \in Nat
        /\ HookWindow >= 1 /\ HookLimit >= 1
    BY BoundAssumption, DurationAssumption DEF Times
  <1>3. \A i \in DOMAIN log : log[i][1] \in Nat /\ log[i][1] < now
    <2>1. CASE window = None
      BY <1>2, <2>1, LogFields DEF WindowTrue
    <2>2. CASE window # None
      <3>1. /\ window \in Window /\ window.started \in Nat /\ window.seen \in Nat
            /\ window.seen - window.started < HookWindow
            /\ \A i \in DOMAIN log : log[i][1] <= window.seen
        BY <2>2, WindowFields DEF WindowTrue
      <3>2. now - window.started >= HookWindow
        BY <1>2, <2>2, <3>1 DEF Open
      <3> QED
        BY <1>2, <3>1, <3>2, LogFields
    <2> QED
      BY <2>1, <2>2
  <1>4. PICK s \in Int : s = now - 1
    BY <1>2
  <1>5. PICK p \in Int : p = now - HookWindow
    BY <1>2
  <1>6. Count(log, s, now) = 0
    <2>1. Through(log, s, now) = {}
      BY <1>2, <1>3, <1>4 DEF Through
    <2> QED
      BY <2>1, FS_EmptySet DEF Count
  <1>7. Count(long, s, now) = 1
    <2>1. now \in Int /\ s < now /\ now <= now
      BY <1>2, <1>4
    <2> QED
      BY <1>1, <1>6, <2>1, AppendCounts
  <1>8. Count(log, p, s) <= HookLimit
    <2>1. CASE window = None
      <3>1. Through(log, p, s) = {}
        BY <1>2, <1>3, <1>5, <2>1 DEF Through, WindowTrue
      <3> QED
        BY <1>2, <3>1, FS_EmptySet DEF Count
    <2>2. CASE window # None
      <3>1. /\ window \in Window /\ window.started \in Nat /\ window.count \in 1..HookLimit
            /\ Count(log, window.started - 1, now) = window.count
        BY <2>2, WindowFields DEF WindowTrue, Count
      <3>2. PICK f \in Int : f = window.started - 1
        BY <3>1
      <3>3. f < p
        BY <1>2, <1>5, <2>2, <3>1, <3>2 DEF Open
      <3>4. \A i \in DOMAIN log : log[i][1] > p /\ log[i][1] <= s
              => log[i][1] > f /\ log[i][1] <= now
        BY <1>2, <1>3, <1>4, <3>3
      <3>5. Count(log, p, s) <= Count(log, f, now)
        BY <1>2, <3>4, ThroughWithin DEF Count
      <3>6. Count(log, p, s) \in Nat
        BY ThroughFinite DEF Count
      <3> QED
        BY <1>2, <3>1, <3>2, <3>5, <3>6
    <2> QED
      BY <2>1, <2>2
  <1>9. Count(long, p, s) = Count(log, p, s)
    <2>1. s < now
      BY <1>2, <1>4
    <2> QED
      BY <2>1, AppendCounts
  <1> QED
    BY <1>1, <1>2, <1>4, <1>5, <1>7, <1>8, <1>9

\* The stretch that ends with the call: at most the window it is in and the one
\* before it, and at least the window it is in.
LEMMA StretchOfCall ==
  ASSUME NEW long \in Seq(Call), NEW now \in Times, NEW new \in Window,
         \A i \in DOMAIN long : long[i][1] <= now,
         new.started <= now, now - new.started < HookWindow,
         Count(long, new.started - 1, now) = new.count,
         Count(long, new.started - HookWindow, new.started - 1) <= HookLimit
  PROVE  /\ Count(long, now - HookWindow, now) <= 2 * HookLimit
         /\ new.count >= HookLimit => Count(long, now - HookWindow, now) >= HookLimit
  <1>1. /\ now \in Nat /\ new.started \in Nat /\ new.count \in Nat /\ new.count <= HookLimit
        /\ HookLimit \in Nat /\ HookWindow \in Nat
    BY WindowFields, BoundAssumption DEF Times
  <1>2. PICK a \in Int, b \in Int, c \in Int :
          a = now - HookWindow /\ b = new.started - 1 /\ c = new.started - HookWindow
    BY <1>1
  <1>3. c <= a /\ a <= b /\ now \in Int
    BY <1>1, <1>2
  <1>4. \A i \in DOMAIN long : long[i][1] \in Int
    BY LogFields
  <1>5. Count(long, a, now) <= Count(long, c, now)
    <2>1. \A i \in DOMAIN long : long[i][1] > a /\ long[i][1] <= now
            => long[i][1] > c /\ long[i][1] <= now
      BY <1>3, <1>4
    <2> QED
      BY <1>3, <2>1, ThroughWithin DEF Count
  <1>6. Count(long, b, now) <= Count(long, a, now)
    <2>1. \A i \in DOMAIN long : long[i][1] > b /\ long[i][1] <= now
            => long[i][1] > a /\ long[i][1] <= now
      BY <1>3, <1>4
    <2> QED
      BY <1>3, <2>1, ThroughWithin DEF Count
  <1>7. Count(long, c, now) <= Count(long, c, b) + Count(long, b, now)
    BY <1>3, ThroughTwo DEF Count
  <1>8. /\ Count(long, a, now) \in Nat /\ Count(long, c, now) \in Nat
        /\ Count(long, c, b) \in Nat /\ Count(long, b, now) \in Nat
    BY ThroughFinite DEF Count
  <1>9. Count(long, b, now) = new.count /\ Count(long, c, b) <= HookLimit
    BY <1>2
  <1>10. Count(long, a, now) <= 2 * HookLimit
    BY <1>1, <1>5, <1>7, <1>8, <1>9
  <1>11. new.count >= HookLimit => Count(long, a, now) >= HookLimit
    BY <1>1, <1>6, <1>8, <1>9
  <1> QED
    BY <1>2, <1>10, <1>11

\* A call is counted in the window it falls into, or begins one of its own.
LEMMA CallKeeps ==
  ASSUME NEW log \in Seq(Call), NEW window \in Window \cup {None}, NEW now \in Times,
         NEW refused \in BOOLEAN, refused <=> Open(window, now) /\ Full(window),
         WindowTrue(log, window, now), LogLimited(log),
         NEW long, Appended(log, long, now, refused),
         NEW new, new = Called(window, now, refused)
  PROVE  WindowTrue(long, new, now) /\ LogLimited(long)
  <1>1. /\ new \in Window /\ new.seen = now /\ new.started <= now
        /\ now - new.started < HookWindow
        /\ Count(long, new.started - 1, now) = new.count
        /\ Count(long, new.started - HookWindow, new.started - 1) <= HookLimit
        /\ refused => new.count >= HookLimit
    <2>1. CASE Open(window, now)
      BY <2>1, CallInWindow
    <2>2. CASE ~Open(window, now)
      BY <2>2, CallBeginsWindow
    <2> QED
      BY <2>1, <2>2
  <1>2. Longer(log, long, now, refused)
    BY AppendIsLonger
  <1>3. now \in Nat /\ HookLimit \in Nat /\ HookWindow \in Nat /\ new # None
    BY <1>1, WindowFields, BoundAssumption DEF Times
  <1>4. \A i \in DOMAIN long : long[i][1] <= now
    BY <1>2, <1>3 DEF Longer, WindowTrue
  <1>5. WindowTrue(long, new, now)
    BY <1>1, <1>3, <1>4 DEF WindowTrue, Count
  <1>6. /\ Count(long, now - HookWindow, now) <= 2 * HookLimit
        /\ refused => Count(long, now - HookWindow, now) >= HookLimit
    <2>1. long \in Seq(Call)
      BY <1>2 DEF Longer
    <2> QED
      BY <1>1, <1>4, <2>1, StretchOfCall
  <1>7. ASSUME NEW i \in DOMAIN long
        PROVE  /\ Count(long, long[i][1] - HookWindow, long[i][1]) <= 2 * HookLimit
               /\ ~long[i][2] => Count(long, long[i][1] - HookWindow, long[i][1]) >= HookLimit
    <2>1. CASE i \notin DOMAIN log
      <3>1. long[i][1] = now /\ (long[i][2] <=> ~refused)
        BY <1>2, <2>1 DEF Longer
      <3> QED
        BY <1>6, <3>1
    <2>2. CASE i \in DOMAIN log
      <3>1. long[i] = log[i] /\ log[i][1] \in Nat /\ log[i][2] \in BOOLEAN /\ log[i][1] <= now
        BY <1>2, <2>2, LogFields DEF Longer, WindowTrue
      <3>2. PICK t \in Int : t = log[i][1]
        BY <3>1
      <3>3. PICK a \in Int : a = t - HookWindow
        BY <1>3, <3>2
      <3>4. /\ Count(log, a, t) <= 2 * HookLimit
            /\ ~log[i][2] => Count(log, a, t) >= HookLimit
        BY <2>2, <3>2, <3>3 DEF LogLimited, Count
      <3>5. /\ Count(log, a, t) \in Nat /\ Count(long, a, t) \in Nat
            /\ Count(log, a, t) <= Count(long, a, t)
            /\ t < now => Count(long, a, t) = Count(log, a, t)
        BY AppendCounts
      <3>6. Count(long, a, t) <= 2 * HookLimit
        <4>1. CASE t < now
          BY <3>4, <3>5, <4>1
        <4>2. CASE t = now
          BY <1>6, <3>3, <4>2
        <4> QED
          BY <1>3, <3>1, <3>2, <4>1, <4>2
      <3>7. ~log[i][2] => Count(long, a, t) >= HookLimit
        BY <1>3, <3>4, <3>5
      <3> QED
        BY <3>1, <3>2, <3>3, <3>6, <3>7
    <2> QED
      BY <2>1, <2>2
  <1>8. LogLimited(long)
    BY <1>7 DEF LogLimited, Count
  <1> QED
    BY <1>5, <1>8

\* Every key's entry is true of its log, and the log keeps to the limit.
HookInv ==
  \A k \in Keys : WindowTrue(calls[k], windows[k], clock) /\ LogLimited(calls[k])

\* A key nobody has called yet.
LEMMA NeverCalled ==
  ASSUME NEW now \in Nat
  PROVE  WindowTrue(<<>>, None, now) /\ LogLimited(<<>>)
  BY EmptySeq DEF WindowTrue, LogLimited

LEMMA InitHookInv == Init => HookInv
  BY NeverCalled DEF Init, HookInv, NoCalls, NoWindows

LEMMA StepHookInv == TypeInv /\ HookInv /\ [Next]_vars => HookInv'
  <1> SUFFICES ASSUME TypeInv, HookInv, [Next]_vars PROVE HookInv'
    OBVIOUS
  <1>0. /\ windows \in [Keys -> Window \cup {None}]
        /\ calls \in [Keys -> Seq(Call)]
        /\ clock \in Times /\ clock \in Nat
    BY BoundAssumption DEF TypeInv, TypeOK, Call, Times
  <1>1. CASE \E w \in Workers : Webhook(w)
    <2> PICK k \in Keys, refused \in BOOLEAN : CallOf(k, refused)
      BY <1>1, WebhookCalls
    <2> DEFINE kept == Pruned(clock)
    <2>1. \A j \in Keys : kept[j] \in Window \cup {None} /\ WindowTrue(calls[j], kept[j], clock)
      <3> TAKE j \in Keys
      <3>1. WindowTrue(calls[j], windows[j], clock)
        BY DEF HookInv
      <3>2. CASE windows[j] # None /\ clock - windows[j].seen > HookWindow
        <4>1. kept[j] = None
          BY <3>2 DEF Pruned
        <4>2. WindowTrue(calls[j], None, clock)
          BY <1>0, <3>1, <3>2, PruneKeeps
        <4> QED
          BY <4>1, <4>2
      <3>3. CASE ~(windows[j] # None /\ clock - windows[j].seen > HookWindow)
        <4>1. kept[j] = windows[j]
          BY <3>3 DEF Pruned
        <4> QED
          BY <1>0, <3>1, <4>1
      <3> QED
        BY <3>2, <3>3
    <2>2. PICK now : now = clock
      OBVIOUS
    <2>3. /\ refused <=> Open(kept[k], now) /\ Full(kept[k])
          /\ windows' = [kept EXCEPT ![k] = Called(kept[k], now, refused)]
          /\ calls' = [calls EXCEPT ![k] = Append(calls[k], <<now, ~refused>>)]
          /\ clock' = now
      BY <2>2 DEF CallOf
    <2>4. kept \in [Keys -> Window \cup {None}]
      BY <2>1 DEF Pruned
    <2> HIDE DEF kept
    <2>5. PICK long : long = Append(calls[k], <<now, ~refused>>)
      OBVIOUS
    <2>6. PICK new : new = Called(kept[k], now, refused)
      OBVIOUS
    <2>7. WindowTrue(long, new, now) /\ LogLimited(long)
      <3>1. Appended(calls[k], long, now, refused)
        BY <2>5 DEF Appended
      <3>2. WindowTrue(calls[k], kept[k], now) /\ LogLimited(calls[k])
        BY <2>1, <2>2 DEF HookInv
      <3>3. calls[k] \in Seq(Call) /\ kept[k] \in Window \cup {None} /\ now \in Times
        BY <1>0, <2>1, <2>2
      <3> QED
        BY <2>3, <2>6, <3>1, <3>2, <3>3, CallKeeps
    <2>8. windows'[k] = new /\ calls'[k] = long
      BY <1>0, <2>3, <2>4, <2>5, <2>6
    <2>9. \A j \in Keys \ {k} : windows'[j] = kept[j] /\ calls'[j] = calls[j]
      BY <1>0, <2>3, <2>4
    <2>10. ASSUME NEW j \in Keys
           PROVE  WindowTrue(calls'[j], windows'[j], now) /\ LogLimited(calls'[j])
      <3>1. CASE j = k
        BY <2>7, <2>8, <3>1
      <3>2. CASE j # k
        BY <2>1, <2>2, <2>9, <3>2 DEF HookInv
      <3> QED
        BY <3>1, <3>2
    <2> QED
      BY <2>3, <2>10 DEF HookInv
  <1>2. CASE Tick
    <2>1. clock' = clock + 1 /\ windows' = windows /\ calls' = calls
      BY <1>2 DEF Tick, memory
    <2>2. PICK now : now = clock
      OBVIOUS
    <2>3. \A k \in Keys : WindowTrue(calls[k], windows[k], now + 1) /\ LogLimited(calls[k])
      BY <1>0, <2>2, TimePasses DEF HookInv
    <2> QED
      BY <2>1, <2>2, <2>3 DEF HookInv
  <1>3. CASE Restart
    BY <1>0, <1>3, NeverCalled DEF Restart, NoWindows, NoCalls, HookInv
  <1>4. CASE \/ \E w \in Workers :
                  \/ Setup(w) \/ CountUsers(w) \/ CreateUser(w) \/ Login(w) \/ FindUser(w)
                  \/ WrongCredentials(w) \/ RightCredentials(w) \/ CreateSession(w)
                  \/ ClearIPAttempts(w)
                  \/ Request(w) \/ DeleteExpired(w) \/ GetSession(w) \/ CheckSession(w)
                  \/ Answer(w) \/ Logout(w) \/ Interrupt(w)
             \/ UNCHANGED vars
    <2>1. UNCHANGED <<windows, calls, clock>>
      BY <1>4, Zenon
      DEF Setup, CountUsers, CreateUser, Login, FindUser, WrongCredentials, RightCredentials,
          CreateSession, ClearIPAttempts, Request, DeleteExpired, GetSession, CheckSession,
          Answer, Logout, Interrupt, Accept, memory, vars
    <2> QED
      BY <2>1 DEF HookInv
  <1> QED
    BY <1>1, <1>2, <1>3, <1>4, Zenon DEF Next

\* However the calls of the deploy webhook fall in time, a stretch of a window's
\* length lets at most two windows' worth through, and a call is refused only
\* where a whole window's worth was let through just before.
THEOREM WebhooksStayLimited == Spec => []WebhooksLimited
  <1>1. HookInv => WebhooksLimited
    BY DEF HookInv, LogLimited, Through, WebhooksLimited
  <1> QED
    BY InitSessionInv, StepSessionInv, InitTypeInv, StepTypeInv, InitHookInv, StepHookInv, <1>1,
       PTL DEF Spec
=============================================================================
