--------------------- MODULE DeployPipelineOutcomeProofs ---------------------
(***************************************************************************)
(* Theorems about DeployPipeline: how many deploys a request may start,    *)
(* what a deploy comes to that no other has met, and what a rollback comes *)
(* to whose request has been alone.                                        *)
(***************************************************************************)
EXTENDS DeployPipelineProofs, FiniteSetTheorems

-----------------------------------------------------------------------------
(* The budget of a request.                                                *)

\* The deploys a worker's request may still start: its own and the rollback
\* of it, of which a rollback has none.
BeforeStart == {"rbRead", "rbWrite", "load", "start"}
Weight(t) ==
  IF t.pc \in BeforeStart THEN (IF t.auto THEN 1 ELSE 2)
  ELSE IF t.pc \in InDeploy /\ ~t.auto THEN 1 ELSE 0

\* One token for each of them, so that they can be counted.
Tokens == {s \in Workers \X {1, 2} : s[2] <= Weight(tasks[s[1]])}

Granted == 2 * (requests + (IF project = Absent THEN 0 ELSE 1))

Budget == IsFiniteSet(Tokens) /\ Cardinality(Tokens) + Len(deploys) <= Granted

LEMMA WeightRange ==
  ASSUME NEW t
  PROVE  Weight(t) \in {0, 1, 2}
  BY DEF Weight

\* What the tokens of a step are, from the one task that changes.
LEMMA TokensOf ==
  ASSUME NEW w \in Workers, OnlyMoves(w)
  PROVE  /\ \A v \in Workers \ {w}, k \in {1, 2} : <<v, k>> \in Tokens' <=> <<v, k>> \in Tokens
         /\ \A k \in {1, 2} : <<w, k>> \in Tokens <=> k <= Weight(tasks[w])
         /\ \A k \in {1, 2} : <<w, k>> \in Tokens' <=> k <= Weight(tasks'[w])
  BY DEF Tokens, OnlyMoves

LEMMA TwoMore ==
  ASSUME NEW S, IsFiniteSet(S), NEW a, NEW b, NEW T \in SUBSET (S \cup {a} \cup {b})
  PROVE  /\ IsFiniteSet(T) /\ Cardinality(T) \in Nat /\ Cardinality(S) \in Nat
         /\ Cardinality(T) <= Cardinality(S) + 2
  <1> DEFINE P == S \cup {a}
             Q == P \cup {b}
  <1>1. Cardinality(S) \in Nat
    BY FS_CardinalityType
  <1>2. IsFiniteSet(P) /\ (Cardinality(P) = Cardinality(S) \/ Cardinality(P) = Cardinality(S) + 1)
    BY FS_AddElement
  <1>3. T \in SUBSET Q
    OBVIOUS
  <1> HIDE DEF P
  <1>4. IsFiniteSet(Q) /\ (Cardinality(Q) = Cardinality(P) \/ Cardinality(Q) = Cardinality(P) + 1)
    BY <1>2, FS_AddElement
  <1> HIDE DEF Q
  <1>5. IsFiniteSet(T) /\ Cardinality(T) <= Cardinality(Q)
    BY <1>3, <1>4, FS_Subset
  <1>6. Cardinality(T) \in Nat
    BY <1>5, FS_CardinalityType
  <1> QED
    BY <1>1, <1>2, <1>4, <1>5, <1>6

\* A request is granted two deploys when it is accepted.
LEMMA GrantBudget ==
  ASSUME TypeOK, Budget, NEW w \in Workers, OnlyMoves(w), UNCHANGED deploys,
         Granted' = Granted + 2, Granted \in Nat
  PROVE  Budget'
  <1>1. Tokens' \in SUBSET (Tokens \cup {<<w, 1>>} \cup {<<w, 2>>})
    <2>1. \A v \in Workers, k \in {1, 2} :
            <<v, k>> \in Tokens' => v = w \/ <<v, k>> \in Tokens
      BY TokensOf
    <2> SUFFICES ASSUME NEW s \in Tokens' PROVE s \in Tokens \cup {<<w, 1>>} \cup {<<w, 2>>}
      OBVIOUS
    <2>2. PICK v \in Workers, k \in {1, 2} : s = <<v, k>>
      BY DEF Tokens
    <2> QED
      BY <2>1, <2>2
  <1>2. Len(deploys) \in Nat
    BY RowFields
  <1>3. IsFiniteSet(Tokens)
    BY DEF Budget
  <1> DEFINE T == Tokens'
  <1>4. T \in SUBSET (Tokens \cup {<<w, 1>>} \cup {<<w, 2>>})
    BY <1>1
  <1>5. T = Tokens'
    OBVIOUS
  <1> HIDE DEF T
  <1>6. /\ IsFiniteSet(T) /\ Cardinality(T) \in Nat /\ Cardinality(Tokens) \in Nat
        /\ Cardinality(T) <= Cardinality(Tokens) + 2
    BY <1>3, <1>4, TwoMore
  <1>7. Cardinality(T) + Len(deploys) <= Granted + 2
    BY <1>2, <1>6 DEF Budget
  <1> QED
    BY <1>5, <1>6, <1>7 DEF Budget

\* A step that starts no deploy leaves a request what it had, or less.
LEMMA KeepBudget ==
  ASSUME TypeOK, Budget, NEW w \in Workers, OnlyMoves(w), Len(deploys') = Len(deploys),
         Weight(tasks'[w]) <= Weight(tasks[w]), Granted' >= Granted,
         Granted \in Nat, Granted' \in Nat
  PROVE  Budget'
  <1>1. Tokens' \subseteq Tokens
    <2>1. \A k \in {1, 2} : k <= Weight(tasks'[w]) => k <= Weight(tasks[w])
      BY WeightRange
    <2> QED
      BY ZenonT(30), <2>1, TokensOf DEF Tokens
  <1>2. IsFiniteSet(Tokens') /\ Cardinality(Tokens') <= Cardinality(Tokens)
    BY <1>1, FS_Subset DEF Budget
  <1>3. Cardinality(Tokens) \in Nat /\ Cardinality(Tokens') \in Nat
    BY <1>2, FS_CardinalityType DEF Budget
  <1>4. Len(deploys) \in Nat
    BY RowFields
  <1> QED
    BY <1>2, <1>3, <1>4 DEF Budget

\* A deploy that is started is paid for.
LEMMA SpendBudget ==
  ASSUME TypeOK, Budget, NEW w \in Workers, OnlyMoves(w), Len(deploys') = Len(deploys) + 1,
         Weight(tasks[w]) \in {1, 2}, Weight(tasks'[w]) = Weight(tasks[w]) - 1,
         Granted' = Granted, Granted \in Nat
  PROVE  Budget'
  <1> DEFINE s == <<w, Weight(tasks[w])>>
  <1>1. s \in Tokens /\ Tokens' \subseteq Tokens \ {s}
    <2>1. s \in Tokens
      BY DEF Tokens
    <2>2. \A k \in {1, 2} : k <= Weight(tasks'[w]) => k <= Weight(tasks[w]) /\ k # Weight(tasks[w])
      OBVIOUS
    <2> QED
      BY ZenonT(30), <2>1, <2>2, TokensOf DEF Tokens
  <1> HIDE DEF s
  <1>2. /\ IsFiniteSet(Tokens \ {s})
        /\ Cardinality(Tokens \ {s}) = Cardinality(Tokens) - 1
    BY <1>1, FS_RemoveElement DEF Budget
  <1>3. IsFiniteSet(Tokens') /\ Cardinality(Tokens') <= Cardinality(Tokens \ {s})
    BY <1>1, <1>2, FS_Subset
  <1>4. Cardinality(Tokens) \in Nat /\ Cardinality(Tokens') \in Nat
    BY <1>3, FS_CardinalityType DEF Budget
  <1>5. Len(deploys) \in Nat
    BY RowFields
  <1> QED
    BY <1>2, <1>3, <1>4, <1>5 DEF Budget

LEMMA Replaced ==
  ASSUME TypeOK, TypeOK', NEW w \in Workers, NEW t, tasks' = [tasks EXCEPT ![w] = t]
  PROVE  OnlyMoves(w) /\ tasks'[w] = t
  BY DEF TypeOK, OnlyMoves

LEMMA GrantedType ==
  ASSUME TypeOK
  PROVE  Granted \in Nat
  BY DEF TypeOK, Granted

\* The handlers: each is a request, or the creation of the project.
LEMMA HandlerBudget ==
  ASSUME IInv, IInv', Budget, NEW w \in Workers,
         Create(w) \/ Redeploy(w) \/ Update(w) \/ Rollback(w) \/ Delete(w)
  PROVE  Budget'
  <1>1. TypeOK /\ TypeOK'
    BY DEF IInv
  <1>2. UNCHANGED deploys
    BY DEF Create, Redeploy, Update, Rollback, Delete
  <1>3. OnlyMoves(w)
    BY <1>1 DEF Create, Redeploy, Update, Rollback, Delete, Goto, TypeOK, OnlyMoves
  <1>4. Granted' = Granted + 2
    <2>1. CASE Create(w)
      <3>1. project = Absent /\ requests' = requests
        BY <2>1 DEF Create
      <3>2. project' # Absent
        BY <2>1, AbsentAssumption DEF Create, Record, Refs
      <3> QED
        BY <1>1, <3>1, <3>2 DEF Granted, TypeOK
    <2>2. CASE Redeploy(w) \/ Update(w) \/ Rollback(w) \/ Delete(w)
      <3>1. project # Absent /\ requests' = requests + 1
        BY <2>2 DEF Redeploy, Update, Rollback, Delete, Exists, Accept
      <3>2. project' # Absent
        <4>1. CASE Update(w)
          <5>1. project.image \in Refs
            BY <1>1, <4>1, RecordFields DEF Update
          <5>2. project' \in Record
            BY <4>1, <5>1, FormRefsAssumption DEF Update, Record, Refs
          <5> QED
            BY <5>2, AbsentAssumption
        <4>2. CASE Redeploy(w) \/ Rollback(w) \/ Delete(w)
          BY <3>1, <4>2, AbsentAssumption DEF Redeploy, Rollback, Delete
        <4> QED
          BY <2>2, <4>1, <4>2
      <3> QED
        BY <1>1, <3>1, <3>2 DEF Granted, TypeOK
    <2> QED
      BY <2>1, <2>2
  <1> QED
    BY <1>1, <1>2, <1>3, <1>4, GrantBudget, GrantedType

\* A deploy starts, if the project is still there.
LEMMA StartBudget ==
  ASSUME IInv, IInv', Budget, NEW w \in Workers, StartDeploy(w), Exists
  PROVE  Budget'
  <1>1. TypeOK /\ TypeOK'
    BY DEF IInv
  <1> DEFINE t == tasks[w]
             u == [t EXCEPT !.row = Len(deploys) + 1, !.pin = None, !.digest = None,
                            !.pc = IF t.auto THEN "pull" ELSE "list"]
  <1>2. tasks' = [tasks EXCEPT ![w] = u]
    BY DEF StartDeploy
  <1>3. t.pc = "start" /\ t \in Task
    BY <1>1 DEF StartDeploy, At, TypeOK
  <1>4. u.auto = t.auto /\ u.pc = IF t.auto THEN "pull" ELSE "list"
    BY <1>3 DEF Task
  <1> HIDE DEF u
  <1>5. OnlyMoves(w) /\ tasks'[w] = u
    BY <1>1, <1>2, Replaced
  <1>6. Weight(tasks[w]) \in {1, 2} /\ Weight(tasks'[w]) = Weight(tasks[w]) - 1
    BY <1>3, <1>4, <1>5 DEF Weight, BeforeStart, InDeploy, BeforeCreate, Confirmed
  <1>7. Len(deploys') = Len(deploys) + 1
    <2>1. deploys' = Append(deploys, [status |-> "running", ref |-> t.ref, digest |-> None])
      BY DEF StartDeploy
    <2> QED
      BY <1>1, <2>1 DEF TypeOK
  <1>8. Granted' = Granted
    BY DEF StartDeploy, Granted
  <1> QED
    BY <1>1, <1>5, <1>6, <1>7, <1>8, SpendBudget, GrantedType

\* Outside a deploy a worker holds no row and no image, and idle it holds nothing.
IdleOK(w) ==
  /\ At(w, "idle") => tasks[w] = IdleTask
  /\ tasks[w].pc \notin InDeploy => tasks[w].row = 0 /\ tasks[w].digest = None

\* What no step of a request does, the start of a deploy aside: gain a deploy (the
\* rollback takes over what is left of the request that failed), or hold a row
\* that it did not hold before.
LEMMA StepKeeps ==
  ASSUME IInv, IInv', NEW w \in Workers,
         Apply(w) \/ Cancel(w), ~(StartDeploy(w) /\ Exists)
  PROVE  /\ OnlyMoves(w) /\ Weight(tasks'[w]) <= Weight(tasks[w])
         /\ IdleOK(w) => IdleOK(w)'
         /\ tasks'[w].pc \in InDeploy
              => tasks[w].pc \in InDeploy /\ tasks'[w].row = tasks[w].row
         /\ Len(deploys') = Len(deploys)
  <1>1. TypeOK /\ TypeOK' /\ tasks[w] \in Task
    BY DEF IInv, TypeOK
  <1> DEFINE Kept == /\ OnlyMoves(w) /\ Weight(tasks'[w]) <= Weight(tasks[w])
                     /\ IdleOK(w) => IdleOK(w)'
                     /\ tasks'[w].pc \in InDeploy
                          => tasks[w].pc \in InDeploy /\ tasks'[w].row = tasks[w].row
  <1>2. Return(w) => Kept
    <2>1. Weight(IdleTask) = 0
      BY DEF Weight, IdleTask, BeforeStart, InDeploy, BeforeCreate, Confirmed
    <2>2. Weight(tasks[w]) >= 0
      BY WeightRange
    <2>3. IdleTask.row = 0 /\ IdleTask.digest = None /\ IdleTask.pc = "idle"
      BY DEF IdleTask
    <2>4. ASSUME Return(w) PROVE OnlyMoves(w) /\ tasks'[w] = IdleTask
      BY <1>1, <2>4, Replaced DEF Return
    <2> QED
      BY <2>1, <2>2, <2>3, <2>4 DEF IdleOK, At, InDeploy, BeforeCreate, Confirmed
  <1>3. ASSUME NEW label \in Labels, Goto(w, label),
               \/ label \in BeforeStart /\ tasks[w].pc \in BeforeStart
               \/ label \in InDeploy /\ tasks[w].pc \in InDeploy
               \/ label = "delRemove" /\ tasks[w].pc = "delStop"
        PROVE  Kept
    <2>1. /\ OnlyMoves(w) /\ tasks'[w].pc = label /\ tasks'[w].auto = tasks[w].auto
          /\ tasks'[w].row = tasks[w].row /\ tasks'[w].digest = tasks[w].digest
      BY <1>1, <1>3, GotoMoves DEF MovesTo
    <2>2. Weight(tasks[w]) \in {0, 1, 2}
      BY WeightRange
    <2>3. Weight(tasks'[w]) <= Weight(tasks[w])
      BY <1>3, <2>1, <2>2 DEF Weight, BeforeStart, InDeploy, BeforeCreate, Confirmed
    <2>4. label \in InDeploy <=> tasks[w].pc \in InDeploy
      BY <1>3 DEF BeforeStart, InDeploy, BeforeCreate, Confirmed
    <2>5. label # "idle"
      BY <1>3 DEF BeforeStart, InDeploy, BeforeCreate, Confirmed
    <2> QED
      BY <2>1, <2>3, <2>4, <2>5 DEF IdleOK, At
  <1>4. ASSUME NEW t, tasks' = [tasks EXCEPT ![w] = t], t.auto = tasks[w].auto,
               t.row = tasks[w].row,
               \/ /\ t.pc \in BeforeStart /\ tasks[w].pc \in BeforeStart
                  /\ t.digest = tasks[w].digest
               \/ t.pc \in InDeploy /\ tasks[w].pc \in InDeploy
        PROVE  Kept
    <2>1. OnlyMoves(w) /\ tasks'[w] = t
      BY <1>1, <1>4, Replaced
    <2>2. Weight(tasks'[w]) <= Weight(tasks[w])
      BY <1>4, <2>1 DEF Weight, BeforeStart, InDeploy, BeforeCreate, Confirmed
    <2>3. t.pc \in InDeploy <=> tasks[w].pc \in InDeploy
      BY <1>4 DEF BeforeStart, InDeploy, BeforeCreate, Confirmed
    <2>4. t.pc # "idle" /\ (t.pc \notin InDeploy => t.digest = tasks[w].digest)
      BY <1>4 DEF BeforeStart, InDeploy, BeforeCreate, Confirmed
    <2> QED
      BY <1>4, <2>1, <2>2, <2>3, <2>4 DEF IdleOK, At
  <1> HIDE DEF Kept
  <1>5. ASSUME ReadRecord(w) \/ WritePin(w) \/ Load(w) PROVE Kept
    <2>1. tasks[w].pc \in BeforeStart
      BY <1>5 DEF ReadRecord, WritePin, Load, At, BeforeStart
    <2>2. CASE Return(w)
      BY <1>2, <2>2
    <2>3. CASE tasks' = [tasks EXCEPT ![w].pc = "rbWrite", ![w].conf = project.conf]
      <3> DEFINE t == [tasks[w] EXCEPT !.pc = "rbWrite", !.conf = project.conf]
      <3>1. /\ t.auto = tasks[w].auto /\ t.pc = "rbWrite" /\ t.row = tasks[w].row
            /\ t.digest = tasks[w].digest
        BY <1>1 DEF Task
      <3>2. tasks' = [tasks EXCEPT ![w] = t]
        BY <2>3
      <3> HIDE DEF t
      <3> QED
        BY <1>4, <2>1, <3>1, <3>2 DEF BeforeStart
    <2>4. CASE Goto(w, "load")
      BY <1>3, <2>1, <2>4 DEF Labels, BeforeStart
    <2>5. CASE tasks' = [tasks EXCEPT ![w] = Snapshot(@)]
      <3>1. /\ Snapshot(tasks[w]).auto = tasks[w].auto /\ Snapshot(tasks[w]).pc = "start"
            /\ Snapshot(tasks[w]).row = tasks[w].row
            /\ Snapshot(tasks[w]).digest = tasks[w].digest
        BY <1>1 DEF Snapshot, Task
      <3>2. tasks' = [tasks EXCEPT ![w] = Snapshot(tasks[w])]
        BY <2>5
      <3> QED
        BY <1>4, <2>1, <3>1, <3>2 DEF BeforeStart
    <2> QED
      BY <1>5, <2>2, <2>3, <2>4, <2>5 DEF ReadRecord, WritePin, Load
  <1>6. ASSUME ListDeploys(w) \/ Confirm(w) PROVE Kept
    <2>1. tasks[w].pc \in InDeploy
      BY <1>6 DEF ListDeploys, Confirm, At, InDeploy, BeforeCreate
    <2>2. ASSUME NEW pin, tasks' = [tasks EXCEPT ![w].pin = pin, ![w].pc = "pull"] PROVE Kept
      <3> DEFINE t == [tasks[w] EXCEPT !.pin = pin, !.pc = "pull"]
      <3>1. t.auto = tasks[w].auto /\ t.pc = "pull" /\ t.row = tasks[w].row
        BY <1>1 DEF Task
      <3>2. tasks' = [tasks EXCEPT ![w] = t]
        BY <2>2
      <3> HIDE DEF t
      <3> QED
        BY <1>4, <2>1, <3>1, <3>2 DEF InDeploy, BeforeCreate
    <2>3. ASSUME NEW digest, NEW label \in Confirmed,
                 tasks' = [tasks EXCEPT ![w].digest = digest, ![w].pc = label]
          PROVE  Kept
      <3> DEFINE t == [tasks[w] EXCEPT !.digest = digest, !.pc = label]
      <3>1. t.auto = tasks[w].auto /\ t.pc = label /\ t.row = tasks[w].row
        BY <1>1 DEF Task
      <3>2. tasks' = [tasks EXCEPT ![w] = t]
        BY <2>3
      <3> HIDE DEF t
      <3> QED
        BY <1>4, <2>1, <3>1, <3>2 DEF InDeploy
    <2>4. Goto(w, "failed") => Kept
      BY <1>3, <2>1 DEF Labels, InDeploy
    <2>5. AfterContainer(tasks[w]) \in Confirmed
      BY DEF AfterContainer, Confirmed
    <2> QED
      BY <1>6, <2>2, <2>3, <2>4, <2>5 DEF ListDeploys, Confirm
  <1>7. ASSUME \/ Pull(w) \/ PullFails(w) \/ InspectOld(w) \/ CreateContainer(w)
               \/ BootContainer(w) \/ HealthPasses(w) \/ HealthFails(w) \/ Publish(w)
        PROVE  Kept
    <2>1. tasks[w].pc \in InDeploy
      BY <1>7
      DEF Pull, PullFails, InspectOld, CreateContainer, BootContainer, HealthPasses, HealthFails,
          Publish, At, InDeploy, BeforeCreate, Confirmed
    <2>2. \E label \in InDeploy : Goto(w, label)
      BY <1>7
      DEF Pull, PullFails, InspectOld, CreateContainer, BootContainer, HealthPasses, HealthFails,
          Publish, InDeploy, BeforeCreate, Confirmed
    <2> QED
      BY <1>3, <2>1, <2>2 DEF InDeploy, BeforeCreate, Confirmed, Labels
  <1>8. ASSUME StopOld(w) \/ RemoveOld(w) \/ DockerFails(w) PROVE Kept
    <2>1. CASE Return(w)
      BY <1>2, <2>1
    <2>2. CASE tasks[w].pc = "delStop" /\ Goto(w, "delRemove")
      BY <1>3, <2>2 DEF Labels
    <2>3. CASE tasks[w].pc \in InDeploy /\ \E label \in InDeploy : Goto(w, label)
      BY <1>3, <2>3 DEF InDeploy, BeforeCreate, Confirmed, Labels
    <2> QED
      BY <1>8, <2>1, <2>2, <2>3
      DEF StopOld, RemoveOld, DockerFails, At, InDeploy, BeforeCreate
  <1>9. ASSUME FinishUnhealthy(w) PROVE Kept
    <2>1. CASE ~tasks[w].auto /\ tasks' = [tasks EXCEPT ![w] = RollbackTask(tasks[w].pin)]
      <3>1. Weight(tasks[w]) = 1
        BY <1>9, <2>1
        DEF FinishUnhealthy, At, Weight, BeforeStart, InDeploy, BeforeCreate, Confirmed
      <3>2. Weight(RollbackTask(tasks[w].pin)) = 1
        BY DEF RollbackTask, IdleTask, Weight, BeforeStart
      <3>3. OnlyMoves(w) /\ tasks'[w] = RollbackTask(tasks[w].pin)
        BY <1>1, <2>1, Replaced
      <3>4. /\ tasks'[w].pc = "rbRead" /\ tasks'[w].row = 0 /\ tasks'[w].digest = None
        BY <3>3 DEF RollbackTask, IdleTask
      <3>5. IdleOK(w)' /\ tasks'[w].pc \notin InDeploy
        BY <3>4 DEF IdleOK, At, InDeploy, BeforeCreate, Confirmed
      <3>6. Weight(tasks'[w]) <= Weight(tasks[w])
        BY <3>1, <3>2, <3>3
      <3> QED
        BY <3>3, <3>5, <3>6 DEF Kept
    <2> QED
      BY <1>2, <1>9, <2>1 DEF FinishUnhealthy
  <1>10. Kept
    BY <1>2, <1>5, <1>6, <1>7, <1>8, <1>9 DEF Apply, Cancel, Finish, StartDeploy
  <1>11. Len(deploys') = Len(deploys)
    <2>1. CASE UNCHANGED deploys
      BY <2>1
    <2>2. CASE \E status : FinishRow(w, status)
      BY <1>1, <2>2 DEF FinishRow, TypeOK
    <2> QED
      BY <2>1, <2>2
      DEF Apply, Cancel, ReadRecord, WritePin, Load, StartDeploy, ListDeploys, Pull, PullFails,
          InspectOld, StopOld, RemoveOld, CreateContainer, BootContainer, Confirm, DockerFails,
          HealthPasses, HealthFails, Publish, Finish, FinishUnhealthy
  <1> QED
    BY <1>10, <1>11 DEF Kept

\* No other step of a request starts a deploy.
LEMMA OtherBudget ==
  ASSUME IInv, IInv', Budget, NEW w \in Workers,
         Apply(w) \/ Cancel(w), ~(StartDeploy(w) /\ Exists)
  PROVE  Budget'
  <1>1. TypeOK /\ TypeOK' /\ tasks[w] \in Task
    BY DEF IInv, TypeOK
  <1>10. OnlyMoves(w) /\ Weight(tasks'[w]) <= Weight(tasks[w])
    BY StepKeeps
  <1>11. Len(deploys') = Len(deploys)
    BY StepKeeps
  <1>12. UNCHANGED requests /\ (project' = Absent => project = Absent)
    <2>1. CASE WritePin(w)
      <3>1. Named(tasks[w].pin)
        BY <2>1 DEF WritePin, At, IInv, TaskOK, PinOK
      <3>2. deploys # <<>> /\ UNCHANGED <<deploys, requests>>
        BY <2>1, <3>1 DEF Named, WritePin
      <3>3. project' # Absent
        BY <3>2 DEF IInv
      <3> QED
        BY <3>2, <3>3
    <2>2. CASE UNCHANGED <<requests, project>>
      BY <2>2
    <2> QED
      BY <2>1, <2>2
      DEF Apply, Cancel, ReadRecord, Load, StartDeploy, ListDeploys, Pull, PullFails,
          InspectOld, StopOld, RemoveOld, CreateContainer, BootContainer, Confirm, DockerFails,
          HealthPasses, HealthFails, Publish, Finish, FinishUnhealthy
  <1>13. Granted' >= Granted
    BY <1>1, <1>12 DEF Granted, TypeOK
  <1>14. Granted \in Nat /\ Granted' \in Nat
    <2>1. requests \in Nat /\ requests' \in Nat
      BY <1>1 DEF TypeOK
    <2>2. Granted \in Nat
      BY <2>1 DEF Granted
    <2>3. Granted' = 2 * (requests' + (IF project' = Absent THEN 0 ELSE 1))
      BY DEF Granted
    <2>4. PICK n \in Nat : n = requests'
      BY <2>1
    <2>5. Granted' = 2 * n \/ Granted' = 2 * (n + 1)
      BY <2>3, <2>4
    <2>6. Granted' \in Nat
      BY <2>5
    <2> QED
      BY <2>2, <2>6
  <1> QED
    BY <1>1, <1>10, <1>11, <1>13, <1>14, KeepBudget

LEMMA RestartBudget ==
  ASSUME IInv, Budget, Restart
  PROVE  Budget'
  <1>1. Tokens' = {}
    <2>1. \A v \in Workers : Weight(tasks'[v]) = 0
      BY DEF Restart, Weight, IdleTask, BeforeStart, InDeploy, BeforeCreate, Confirmed
    <2> QED
      BY <2>1 DEF Tokens
  <1>2. Cardinality(Tokens) \in Nat /\ Len(deploys) \in Nat /\ Granted \in Nat
    BY FS_CardinalityType, RowFields, GrantedType DEF Budget, IInv
  <1>3. Len(deploys) <= Granted
    BY <1>2 DEF Budget
  <1>4. Len(deploys') = Len(deploys) /\ Granted' = Granted
    BY DEF Restart, Granted
  <1>5. IsFiniteSet({}) /\ Cardinality({}) = 0
    BY FS_EmptySet
  <1> QED
    BY <1>1, <1>2, <1>3, <1>4, <1>5 DEF Budget

LEMMA StepBudget == IInv /\ Budget /\ [Next]_vars => Budget'
  <1> SUFFICES ASSUME IInv, Budget, [Next]_vars PROVE Budget'
    OBVIOUS
  <1>1. IInv'
    BY StepPreserves
  <1>2. CASE Push \/ UNCHANGED vars
    <2>1. UNCHANGED <<tasks, deploys, requests, project>>
      BY <1>2 DEF Push, vars
    <2> QED
      BY <2>1 DEF Budget, Tokens, Granted
  <1>3. CASE Restart
    BY <1>3, RestartBudget
  <1>4. ASSUME NEW w \in Workers,
               Create(w) \/ Redeploy(w) \/ Update(w) \/ Rollback(w) \/ Delete(w)
        PROVE  Budget'
    BY <1>1, <1>4, HandlerBudget
  <1>5. ASSUME NEW w \in Workers, Apply(w) \/ Cancel(w) PROVE Budget'
    BY <1>1, <1>5, StartBudget, OtherBudget
  <1> QED
    BY <1>2, <1>3, <1>4, <1>5 DEF Next

LEMMA InitBudget == Init => Budget
  <1> SUFFICES ASSUME Init PROVE Budget
    OBVIOUS
  <1>1. Tokens = {}
    BY DEF Init, Tokens, Weight, IdleTask, BeforeStart, InDeploy, BeforeCreate, Confirmed
  <1>2. Len(deploys) = 0 /\ Granted = 0
    BY DEF Init, Granted
  <1> QED
    BY <1>1, <1>2, FS_EmptySet DEF Budget

\* However many requests run at once, however they fail and are cut off: the
\* deploys in the history are at most two for each request and two for the
\* creation; a rollback is never rolled back in its turn.
THEOREM RollbacksBounded == Spec => []OneRollbackPerRequest
  <1>1. IInv /\ Budget => OneRollbackPerRequest
    <2> SUFFICES ASSUME IInv, Budget PROVE OneRollbackPerRequest
      OBVIOUS
    <2>1. TypeOK
      BY DEF IInv
    <2>2. Cardinality(Tokens) \in Nat /\ Len(deploys) \in Nat /\ requests \in Nat
      BY <2>1, FS_CardinalityType, RowFields DEF Budget, TypeOK
    <2>3. Granted <= 2 * (requests + 1)
      BY <2>2 DEF Granted
    <2> QED
      BY <2>2, <2>3, <2>1, GrantedType DEF Budget, OneRollbackPerRequest
  <1> QED
    BY <1>1, InitHolds, StepPreserves, InitBudget, StepBudget, PTL DEF Spec

-----------------------------------------------------------------------------
(* Which deploys are alone.                                                *)

\* No other deploy was under way when the newest one started.
NewestAlone == Last > 0 /\ trace[Last].alone

\* While the newest deploy was alone, no other row is held by a worker; and a
\* request that has been alone is the only one, and so are its deploys.
AloneInv ==
  /\ \A w \in Workers : IdleOK(w)
  /\ NewestAlone => \A w \in Workers : tasks[w].pc \in InDeploy => tasks[w].row = Last
  /\ \A w \in Workers \ joined :
       /\ ~At(w, "idle") => \A v \in Workers \ {w} : At(v, "idle")
       /\ tasks[w].pc \in InDeploy => tasks[w].row = Last /\ NewestAlone

\* A request enters worker w.
Enters(w) ==
  /\ OnlyMoves(w) /\ Enter(w)
  /\ UNCHANGED <<deploys, container, trace>>
  /\ Exists \/ deploys = <<>>
  /\ tasks'[w].pc \notin InDeploy /\ ~tasks'[w].auto
  /\ IdleOK(w)'

\* The request of worker w goes on, or ends, and starts no deploy.
GoesOn(w) ==
  /\ OnlyMoves(w) /\ ~At(w, "idle") /\ UNCHANGED joined
  /\ IdleOK(w)'
  /\ tasks'[w].pc \in InDeploy => tasks[w].pc \in InDeploy /\ tasks'[w].row = tasks[w].row
  /\ Len(deploys') = Len(deploys)
  /\ \A i \in DOMAIN deploys : trace'[i].alone = trace[i].alone
  /\ Exists' => Exists
  /\ tasks[w].pc \in InDeploy \/ UNCHANGED container \/ ~Exists'

\* The handlers start from an idle worker, and ask for no rollback of their own.
LEMMA RequestEnters ==
  ASSUME IInv, NEW w \in Workers, IdleOK(w),
         Create(w) \/ Redeploy(w) \/ Update(w) \/ Rollback(w) \/ Delete(w)
  PROVE  Enters(w)
  <1>1. TypeOK /\ tasks[w] \in Task
    BY DEF IInv, TypeOK
  <1>2. Enter(w) /\ tasks[w] = IdleTask /\ UNCHANGED <<deploys, container, trace>>
    BY DEF Create, Redeploy, Update, Rollback, Delete, Accept, Enter, IdleOK
  <1>3. Exists \/ deploys = <<>>
    BY DEF IInv, Create, Redeploy, Update, Rollback, Delete
  <1>4. tasks[w].auto = FALSE /\ tasks[w].digest = None /\ tasks[w].row = 0
    BY <1>2 DEF IdleTask
  <1> DEFINE Fresh(t) == /\ t.pc \in {"idle", "load", "start", "rbRead", "delStop"}
                         /\ t.auto = FALSE /\ t.digest = None /\ t.row = 0
                         /\ t.pc = "idle" => t = IdleTask
  <1>5. OnlyMoves(w) /\ Fresh(tasks'[w])
    <2>1. CASE UNCHANGED tasks
      BY <1>1, <1>2, <2>1 DEF IdleTask, OnlyMoves, TypeOK
    <2>2. ASSUME NEW label \in {"load", "delStop"}, Goto(w, label)
          PROVE  OnlyMoves(w) /\ Fresh(tasks'[w])
      <3>1. MovesTo(w, label)
        BY <1>1, <2>2, GotoMoves DEF Labels
      <3> QED
        BY <1>2, <3>1 DEF MovesTo, IdleTask
    <2>3. CASE tasks' = [tasks EXCEPT ![w] = Snapshot(@)] /\ Exists
      <3>1. project.image \in Refs /\ project.conf \in Confs
        BY <1>1, <2>3, RecordFields
      <3>2. /\ Snapshot(tasks[w]) \in Task /\ Snapshot(tasks[w]).pc = "start"
            /\ Snapshot(tasks[w]).auto = tasks[w].auto
            /\ Snapshot(tasks[w]).digest = tasks[w].digest
            /\ Snapshot(tasks[w]).row = tasks[w].row
        BY <1>1, <3>1 DEF Snapshot, Task, Labels
      <3>3. OnlyMoves(w) /\ tasks'[w] = Snapshot(tasks[w])
        BY <1>1, <2>3, <3>2 DEF OnlyMoves, TypeOK
      <3>4. Fresh(tasks'[w])
        BY <1>4, <3>2, <3>3
      <3> QED
        BY <3>3, <3>4
    <2>4. ASSUME NEW pin \in Refs, tasks' = [tasks EXCEPT ![w].pc = "rbRead", ![w].pin = pin]
          PROVE  OnlyMoves(w) /\ Fresh(tasks'[w])
      <3> DEFINE t == [tasks[w] EXCEPT !.pc = "rbRead", !.pin = pin]
      <3>1. /\ t \in Task /\ t.pc = "rbRead" /\ t.auto = tasks[w].auto
            /\ t.digest = tasks[w].digest /\ t.row = tasks[w].row
        BY <1>1 DEF Task, Labels
      <3>2. tasks' = [tasks EXCEPT ![w] = t]
        BY <2>4
      <3> HIDE DEF t
      <3>3. OnlyMoves(w) /\ tasks'[w] = t
        BY <1>1, <3>1, <3>2 DEF OnlyMoves, TypeOK
      <3>4. Fresh(tasks'[w])
        BY <1>4, <3>1, <3>3
      <3> QED
        BY <3>3, <3>4
    <2>5. CASE Rollback(w)
      <3>1. PICK i \in DOMAIN deploys :
              LET pin == IF deploys[i].digest # None THEN deploys[i].digest ELSE deploys[i].ref
              IN  tasks' = [tasks EXCEPT ![w].pc = "rbRead", ![w].pin = pin]
        BY <2>5 DEF Rollback
      <3>2. deploys[i].ref \in Refs /\ deploys[i].digest \in Digests \cup {None}
        BY <1>1, RowFields
      <3> QED
        BY <2>4, <3>1, <3>2 DEF Refs
    <2> HIDE DEF Fresh
    <2> QED
      BY <2>1, <2>2, <2>3, <2>5 DEF Create, Redeploy, Update, Delete
  <1>6. tasks'[w].pc \notin InDeploy /\ IdleOK(w)'
    BY <1>5 DEF IdleOK, At, InDeploy, BeforeCreate, Confirmed
  <1> QED
    BY <1>2, <1>3, <1>5, <1>6 DEF Enters

LEMMA RequestGoesOn ==
  ASSUME IInv, IInv', NEW w \in Workers, IdleOK(w),
         Apply(w) \/ Cancel(w), ~(StartDeploy(w) /\ Exists)
  PROVE  GoesOn(w)
  <1>1. /\ OnlyMoves(w) /\ IdleOK(w)' /\ Len(deploys') = Len(deploys)
        /\ tasks'[w].pc \in InDeploy
             => tasks[w].pc \in InDeploy /\ tasks'[w].row = tasks[w].row
    BY StepKeeps
  <1>2. TypeOK /\ TaskOK(w)
    BY DEF IInv
  <1>3. ~At(w, "idle")
    BY DEF Apply, Cancel, ReadRecord, WritePin, Load, StartDeploy, ListDeploys, Pull, PullFails,
           InspectOld, StopOld, RemoveOld, CreateContainer, BootContainer, Confirm, DockerFails,
           HealthPasses, HealthFails, Publish, Finish, FinishUnhealthy, At
  <1>4. UNCHANGED joined
    BY DEF Apply, Cancel, ReadRecord, WritePin, Load, StartDeploy, ListDeploys, Pull, PullFails,
           InspectOld, StopOld, RemoveOld, CreateContainer, BootContainer, Confirm, DockerFails,
           HealthPasses, HealthFails, Publish, Finish, FinishUnhealthy
  <1>5. ASSUME NEW i \in DOMAIN deploys PROVE trace'[i].alone = trace[i].alone
    <2>1. trace[i] \in Trace /\ i \in DOMAIN trace
      BY <1>2, RowFields
    <2>2. CASE HealthPasses(w)
      <3>1. trace' = [trace EXCEPT ![tasks[w].row].passed = TRUE]
        BY <2>2 DEF HealthPasses
      <3> QED
        BY <2>1, <3>1 DEF Trace
    <2>3. CASE CreateContainer(w) /\ container = None
      <3>1. trace' = [trace EXCEPT ![tasks[w].row].image = Resolve(tasks[w].ref)]
        BY <2>3 DEF CreateContainer
      <3> QED
        BY <2>1, <3>1 DEF Trace
    <2>4. CASE UNCHANGED trace
      BY <2>4
    <2> QED
      BY <2>2, <2>3, <2>4
      DEF Apply, Cancel, ReadRecord, WritePin, Load, StartDeploy, ListDeploys, Pull, PullFails,
          InspectOld, StopOld, RemoveOld, CreateContainer, BootContainer, Confirm, DockerFails,
          HealthFails, Publish, Finish, FinishUnhealthy
  <1>6. Exists' => Exists
    <2>1. CASE WritePin(w)
      BY <2>1 DEF WritePin, Exists
    <2>2. CASE UNCHANGED project
      BY <2>2 DEF Exists
    <2> QED
      BY <2>1, <2>2
      DEF Apply, Cancel, ReadRecord, Load, StartDeploy, ListDeploys, Pull, PullFails,
          InspectOld, StopOld, RemoveOld, CreateContainer, BootContainer, Confirm, DockerFails,
          HealthPasses, HealthFails, Publish, Finish, FinishUnhealthy
  <1>7. tasks[w].pc \in InDeploy \/ UNCHANGED container \/ ~Exists'
    <2>1. CASE StopOld(w) \/ RemoveOld(w) \/ CreateContainer(w) \/ BootContainer(w)
      <3>1. tasks[w].pc \in InDeploy \cup {"delStop", "delRemove"} /\ UNCHANGED project
        BY <2>1
        DEF StopOld, RemoveOld, CreateContainer, BootContainer, At, InDeploy, BeforeCreate
      <3> QED
        BY <1>2, <3>1 DEF TaskOK, DeleteOK, Exists
    <2>2. CASE UNCHANGED container
      BY <2>2
    <2> QED
      BY <2>1, <2>2
      DEF Apply, Cancel, ReadRecord, WritePin, Load, StartDeploy, ListDeploys, Pull, PullFails,
          InspectOld, Confirm, DockerFails, HealthPasses, HealthFails, Publish, Finish,
          FinishUnhealthy
  <1> QED
    BY <1>1, <1>3, <1>4, <1>5, <1>6, <1>7 DEF GoesOn

LEMMA EntersAlone ==
  ASSUME IInv, AloneInv, NEW w \in Workers, Enters(w)
  PROVE  AloneInv'
  <1>1. \A v \in Workers \ {w} : tasks'[v] = tasks[v]
    BY DEF Enters, OnlyMoves
  <1>2. \A v \in Workers : IdleOK(v)'
    BY <1>1 DEF Enters, AloneInv, IdleOK, At
  <1>3. NewestAlone' <=> NewestAlone
    BY DEF Enters, NewestAlone, Last
  <1>4. NewestAlone' => \A v \in Workers : tasks'[v].pc \in InDeploy => tasks'[v].row = Last'
    BY <1>1, <1>3 DEF Enters, AloneInv, Last
  <1>5. ASSUME NEW v \in Workers \ joined', ~At(v, "idle")'
        PROVE  v = w /\ \A u \in Workers \ {w} : At(u, "idle")
    <2>1. CASE \A u \in Workers : At(u, "idle")
      BY <1>1, <1>5, <2>1 DEF At
    <2>2. CASE \E u \in Workers : ~At(u, "idle")
      <3>1. joined' = joined \cup {u \in Workers : ~At(u, "idle")} \cup {w}
        BY <2>2 DEF Enters, Enter
      <3>2. v # w /\ At(v, "idle")
        BY <1>5, <3>1
      <3> QED
        BY <1>1, <1>5, <3>2 DEF At
    <2> QED
      BY <2>1, <2>2
  <1>6. "idle" \notin InDeploy
    BY DEF InDeploy, BeforeCreate, Confirmed
  <1>7. \A v \in Workers \ joined' :
          /\ ~At(v, "idle")' => \A u \in Workers \ {v} : At(u, "idle")'
          /\ tasks'[v].pc \in InDeploy => tasks'[v].row = Last' /\ NewestAlone'
    BY <1>1, <1>5, <1>6 DEF Enters, At
  <1> QED
    BY <1>2, <1>4, <1>7 DEF AloneInv

LEMMA GoesOnAlone ==
  ASSUME IInv, AloneInv, NEW w \in Workers, GoesOn(w)
  PROVE  AloneInv' /\ (NewestAlone' <=> NewestAlone)
  <1>1. \A v \in Workers \ {w} : tasks'[v] = tasks[v]
    BY DEF GoesOn, OnlyMoves
  <1>2. \A v \in Workers : IdleOK(v)'
    BY <1>1 DEF GoesOn, AloneInv, IdleOK, At
  <1>3. /\ Last' = Last
        /\ NewestAlone' <=> NewestAlone
    <2>1. TypeOK
      BY DEF IInv
    <2>2. Last > 0 => Last \in DOMAIN deploys
      BY <2>1, RowFields DEF Last
    <2> QED
      BY <2>2 DEF GoesOn, NewestAlone, Last
  <1>4. NewestAlone' => \A v \in Workers : tasks'[v].pc \in InDeploy => tasks'[v].row = Last'
    BY <1>1, <1>3 DEF GoesOn, AloneInv
  <1>5. ASSUME NEW v \in Workers \ joined'
        PROVE  /\ ~At(v, "idle")' => \A u \in Workers \ {v} : At(u, "idle")'
               /\ tasks'[v].pc \in InDeploy => tasks'[v].row = Last' /\ NewestAlone'
    BY <1>1, <1>3, <1>5 DEF GoesOn, AloneInv, At
  <1> QED
    BY <1>2, <1>3, <1>4, <1>5 DEF AloneInv

LEMMA StartAlone ==
  ASSUME IInv, AloneInv, NEW w \in Workers, StartDeploy(w), Exists
  PROVE  /\ AloneInv' /\ OnlyMoves(w) /\ Last' = Last + 1
         /\ deploys'[Last'].status = "running"
         /\ \A i \in DOMAIN deploys : deploys'[i] = deploys[i]
         /\ UNCHANGED <<project, container, joined>>
  <1> DEFINE n == Len(deploys) + 1
             row == [status |-> "running", ref |-> tasks[w].ref, digest |-> None]
             tr == [image |-> None, passed |-> FALSE, auto |-> tasks[w].auto,
                    alone |-> \A v \in Workers : tasks[v].row = 0]
             t == [tasks[w] EXCEPT !.row = n, !.pin = None, !.digest = None,
                                   !.pc = IF tasks[w].auto THEN "pull" ELSE "list"]
  <1>1. /\ TypeOK /\ TaskOK(w) /\ tasks[w] \in Task /\ tasks[w].pc = "start"
        /\ UNCHANGED <<project, container, joined>>
    BY DEF IInv, TypeOK, StartDeploy, At
  <1>2. /\ deploys' = Append(deploys, row) /\ trace' = Append(trace, tr)
        /\ tasks' = [tasks EXCEPT ![w] = t]
    BY DEF StartDeploy
  <1>3. tasks[w].ref \in Refs /\ tasks[w].auto \in BOOLEAN
    BY <1>1, TaskFields DEF TaskOK, SnapshotOK
  <1>4. row \in Row /\ tr \in Trace /\ n \in Nat /\ Len(deploys) \in Nat
    BY <1>1, <1>3, RowFields DEF Row, Trace
  <1>5. t \in Task /\ t.pc \in {"pull", "list"} /\ t.row = n
    BY <1>1, <1>4 DEF Task, Labels
  <1>6. row.status = "running" /\ (tr.alone <=> \A v \in Workers : tasks[v].row = 0)
    OBVIOUS
  <1> HIDE DEF t, tr, row
  <1>7. /\ Len(deploys') = n /\ deploys'[n] = row
        /\ \A i \in 1..Len(deploys) : deploys'[i] = deploys[i]
        /\ trace'[n] = tr
    BY <1>1, <1>2, <1>4, AppendProperties DEF TypeOK
  <1>8. OnlyMoves(w) /\ tasks'[w] = t
    BY <1>1, <1>2, <1>5 DEF TypeOK, OnlyMoves
  <1>9. Last' = n /\ (NewestAlone' <=> \A v \in Workers : tasks[v].row = 0)
    BY <1>4, <1>6, <1>7 DEF Last, NewestAlone
  <1>10. \A v \in Workers : IdleOK(v)'
    BY <1>5, <1>8 DEF AloneInv, IdleOK, At, OnlyMoves, InDeploy, BeforeCreate
  <1>11. \A v \in Workers : tasks[v].pc \in InDeploy => tasks[v].row # 0
    <2>1. DOMAIN deploys = 1..Len(deploys)
      BY <1>1, RowFields
    <2> QED
      BY <1>4, <2>1 DEF IInv, TaskOK, RowOK
  <1>12. NewestAlone' => \A v \in Workers : tasks'[v].pc \in InDeploy => tasks'[v].row = Last'
    BY <1>5, <1>8, <1>9, <1>11 DEF OnlyMoves
  <1>13. ASSUME NEW v \in Workers \ joined'
         PROVE  /\ ~At(v, "idle")' => \A u \in Workers \ {v} : At(u, "idle")'
                /\ tasks'[v].pc \in InDeploy => tasks'[v].row = Last' /\ NewestAlone'
    <2>1. CASE v = w
      <3>1. \A u \in Workers \ {w} : At(u, "idle")
        BY <1>1, <2>1 DEF AloneInv, At
      <3>2. \A u \in Workers : tasks[u].row = 0
        BY <1>1, <3>1 DEF AloneInv, IdleOK, At, InDeploy, BeforeCreate, Confirmed
      <3> QED
        BY <1>5, <1>8, <1>9, <2>1, <3>1, <3>2 DEF OnlyMoves, At
    <2>2. CASE v # w
      <3>1. At(v, "idle") /\ tasks'[v] = tasks[v]
        BY <1>1, <1>8, <2>2 DEF AloneInv, At, OnlyMoves
      <3> QED
        BY <3>1 DEF At, InDeploy, BeforeCreate, Confirmed
    <2> QED
      BY <2>1, <2>2
  <1>14. AloneInv'
    BY <1>10, <1>12, <1>13 DEF AloneInv
  <1>15. DOMAIN deploys = 1..Len(deploys)
    BY <1>1, RowFields
  <1> QED
    BY <1>1, <1>6, <1>7, <1>8, <1>9, <1>14, <1>15 DEF Last

-----------------------------------------------------------------------------
(* What comes of a deploy that is alone.                                   *)

\* Worker w deploys the newest row of a project that exists, and no other
\* deploy was under way when it started.
Lone(w) == Exists /\ NewestAlone /\ tasks[w].pc \in InDeploy

\* The container that such a deploy has created is still its own, and of the
\* image it was asked for.
HoldsOK(w) ==
  LET t == tasks[w]
  IN  Lone(w) =>
        /\ t.pc \in Confirmed \cup {"boot", "confirm"} =>
             /\ container # None /\ container.row = t.row
             /\ t.ref # Tag => container.image = t.ref
        /\ t.pc \in Confirmed \cup {"confirm"} => container.running
        /\ t.digest # None =>
             /\ container # None /\ container.image = t.digest
             /\ t.ref # Tag => t.digest = t.ref

\* The newest live row among the first n has this image.
NewestLive(n, image) ==
  \E i \in 1..n :
    /\ i \in DOMAIN deploys /\ deploys[i].status = "live" /\ deploys[i].digest = image
    /\ \A j \in 1..n : j \in DOMAIN deploys /\ deploys[j].status = "live" => j <= i

\* From the list it reads to the end of its rollback, a request that has been
\* alone is after the newest image that was live before it.
AutoOK(w) ==
  LET t == tasks[w]
  IN  /\ ~t.auto /\ t.pc \in InDeploy \ {"list"} /\ t.pin # None
         => NewestLive(Len(deploys) - 1, t.pin)
      /\ t.auto =>
           /\ t.pc \in {"rbRead", "rbWrite"} => NewestLive(Len(deploys) - 1, t.pin)
           /\ t.pc = "load" /\ Exists => NewestLive(Len(deploys) - 1, project.image)
           /\ t.pc = "start" => NewestLive(Len(deploys) - 1, t.ref)
           /\ t.pc \in InDeploy => NewestLive(Len(deploys) - 2, t.ref)
           /\ t.pc \in InDeploy \cup {"start"} /\ Exists => project.image = t.ref

OwnInv(w) == HoldsOK(w) /\ (w \notin joined => AutoOK(w))

OutcomeInv == AloneInv /\ LiveMeansServing /\ \A w \in Workers : OwnInv(w)

\* An idle worker has nothing to keep, and the handlers leave it nothing either.
LEMMA IdleOwn ==
  ASSUME NEW w \in Workers, tasks'[w].pc \notin InDeploy, ~tasks'[w].auto
  PROVE  OwnInv(w)'
  BY DEF OwnInv, HoldsOK, Lone, AutoOK

LEMMA BackToIdle ==
  ASSUME NEW w \in Workers, tasks'[w] = IdleTask
  PROVE  OwnInv(w)'
  <1>1. tasks'[w].pc \notin InDeploy /\ ~tasks'[w].auto
    BY DEF IdleTask, InDeploy, BeforeCreate, Confirmed
  <1> QED
    BY <1>1, IdleOwn

LEMMA ReturnOwn ==
  ASSUME TypeOK, NEW w \in Workers, Return(w)
  PROVE  OwnInv(w)'
  <1>1. tasks'[w] = IdleTask
    BY DEF Return, TypeOK
  <1> QED
    BY <1>1, BackToIdle

\* While a request is at work, the workers that have been alone are idle.
LEMMA OthersIdle ==
  ASSUME AloneInv, NEW w \in Workers, NEW v \in Workers \ {w}, ~At(w, "idle"), v \notin joined,
         tasks'[v] = tasks[v]
  PROVE  AutoOK(v)'
  <1>1. tasks'[v] = IdleTask
    BY DEF AloneInv, IdleOK
  <1>2. tasks'[v].pc \notin InDeploy /\ ~tasks'[v].auto
    BY <1>1 DEF IdleTask, InDeploy, BeforeCreate, Confirmed
  <1> QED
    BY <1>2 DEF AutoOK

\* A request that enters joins those that are at work, and leaves a lone deploy
\* what it holds.
LEMMA EntersOthers ==
  ASSUME IInv, OutcomeInv, NEW w \in Workers, Enters(w)
  PROVE  \A v \in Workers : OwnInv(v)'
  <1> SUFFICES ASSUME NEW v \in Workers PROVE OwnInv(v)'
    OBVIOUS
  <1>1. CASE v = w
    BY <1>1, IdleOwn DEF Enters
  <1>2. CASE v # w
    <2>1. tasks'[v] = tasks[v] /\ OwnInv(v)
      BY <1>2 DEF Enters, OnlyMoves, OutcomeInv
    <2>2. HoldsOK(v)'
      BY <2>1 DEF Enters, OwnInv, HoldsOK, Lone, NewestAlone, Last
    <2>3. v \notin joined' => AutoOK(v)'
      <3> SUFFICES ASSUME v \notin joined' PROVE AutoOK(v)'
        OBVIOUS
      <3>1. CASE At(v, "idle")
        <4>1. tasks'[v] = IdleTask
          BY <2>1, <3>1 DEF OutcomeInv, AloneInv, IdleOK
        <4>2. tasks'[v].pc \notin InDeploy /\ ~tasks'[v].auto
          BY <4>1 DEF IdleTask, InDeploy, BeforeCreate, Confirmed
        <4> QED
          BY <4>2 DEF AutoOK
      <3>2. CASE ~At(v, "idle")
        BY <3>2 DEF Enters, Enter
      <3> QED
        BY <3>1, <3>2
    <2> QED
      BY <2>2, <2>3 DEF OwnInv
  <1> QED
    BY <1>1, <1>2

\* A step of a request that goes on takes nothing from a lone deploy: it is no
\* other deploy's, as there is none, and a project that is deleted is gone.
LEMMA GoesOnOthers ==
  ASSUME IInv, OutcomeInv, NEW w \in Workers, GoesOn(w)
  PROVE  \A v \in Workers \ {w} : OwnInv(v)'
  <1> SUFFICES ASSUME NEW v \in Workers \ {w} PROVE OwnInv(v)'
    OBVIOUS
  <1>1. tasks'[v] = tasks[v] /\ OwnInv(v) /\ AloneInv
    BY DEF GoesOn, OnlyMoves, OutcomeInv
  <1>2. NewestAlone' <=> NewestAlone
    BY <1>1, GoesOnAlone
  <1>3. HoldsOK(v)'
    <2>1. ASSUME Lone(v)' PROVE Lone(v) /\ UNCHANGED container
      <3>1. Lone(v) /\ Exists'
        BY <1>1, <1>2, <2>1 DEF Lone, GoesOn
      <3>2. tasks[w].pc \notin InDeploy
        BY <1>1, <3>1 DEF Lone, AloneInv, IInv, RowsOwned
      <3> QED
        BY <3>1, <3>2 DEF GoesOn
    <2> QED
      BY <1>1, <2>1 DEF OwnInv, HoldsOK
  <1>4. v \notin joined' => AutoOK(v)'
    BY OthersIdle, <1>1 DEF GoesOn
  <1> QED
    BY <1>3, <1>4 DEF OwnInv

LEMMA StartOthers ==
  ASSUME IInv, OutcomeInv, NEW w \in Workers, StartDeploy(w), Exists
  PROVE  \A v \in Workers \ {w} : OwnInv(v)'
  <1> SUFFICES ASSUME NEW v \in Workers \ {w} PROVE OwnInv(v)'
    OBVIOUS
  <1>1. AloneInv /\ TypeOK /\ ~At(w, "idle")
    BY DEF OutcomeInv, IInv, StartDeploy, At
  <1>2. AloneInv' /\ OnlyMoves(w) /\ Last' = Last + 1 /\ UNCHANGED joined
    BY <1>1, StartAlone
  <1>3. tasks'[v] = tasks[v]
    BY <1>2 DEF OnlyMoves
  <1>4. ~Lone(v)'
    <2> SUFFICES ASSUME Lone(v)' PROVE FALSE
      OBVIOUS
    <2>1. tasks[v].row = Last + 1 /\ tasks[v].pc \in InDeploy
      BY <1>2, <1>3 DEF Lone, AloneInv
    <2>2. tasks[v].row \in 1..Last /\ Last \in Nat
      BY <1>1, <2>1, RowFields DEF IInv, TaskOK, RowOK, Last
    <2> QED
      BY <2>1, <2>2
  <1>5. v \notin joined' => AutoOK(v)'
    BY OthersIdle, <1>1, <1>2, <1>3
  <1> QED
    BY <1>4, <1>5 DEF OwnInv, HoldsOK

\* While the newest row says live, no deploy is under way that could touch its
\* container; a new deploy makes its own row the newest.
LEMMA QuietServes ==
  ASSUME IInv, OutcomeInv, NEW w \in Workers,
         \/ Enters(w)
         \/ GoesOn(w) /\ UNCHANGED deploys
         \/ StartDeploy(w) /\ Exists
  PROVE  LiveMeansServing'
  <1>1. CASE Enters(w)
    BY <1>1 DEF Enters, OutcomeInv, LiveMeansServing, Last
  <1>2. CASE StartDeploy(w) /\ Exists
    <2>1. deploys'[Last'].status = "running"
      BY <1>2, StartAlone DEF OutcomeInv
    <2> QED
      BY <2>1 DEF LiveMeansServing
  <1>3. CASE GoesOn(w) /\ UNCHANGED deploys
    <2> SUFFICES ASSUME (Exists /\ Last > 0 /\ deploys[Last].status = "live"
                           /\ trace[Last].alone)'
                 PROVE  UNCHANGED container /\ Exists /\ NewestAlone
      BY <1>3 DEF OutcomeInv, LiveMeansServing, Last, NewestAlone
    <2>1. NewestAlone /\ Exists /\ Exists' /\ deploys[Last].status = "live"
      BY <1>3, GoesOnAlone DEF OutcomeInv, GoesOn, NewestAlone, Last
    <2>2. tasks[w].pc \notin InDeploy
      BY <2>1 DEF OutcomeInv, AloneInv, IInv, TaskOK, RowOK
    <2> QED
      BY <1>3, <2>1, <2>2 DEF GoesOn
  <1> QED
    BY <1>1, <1>2, <1>3

\* A row that is settled live and was alone has its own container, running.
LEMMA SettledServes ==
  ASSUME IInv, IInv', OutcomeInv, NEW w \in Workers, GoesOn(w), Finish(w) \/ FinishUnhealthy(w)
  PROVE  LiveMeansServing'
  <1>1. /\ TypeOK /\ AloneInv /\ HoldsOK(w) /\ UNCHANGED <<project, container, trace>>
        /\ tasks[w].pc \in InDeploy
    BY DEF IInv, OutcomeInv, OwnInv, Finish, FinishUnhealthy, At, InDeploy, Confirmed
  <1> SUFFICES ASSUME (Exists /\ Last > 0 /\ deploys[Last].status = "live"
                         /\ trace[Last].alone)'
               PROVE  (/\ container # None /\ container.running /\ container.row = Last
                       /\ container.image = deploys[Last].digest)'
    BY DEF LiveMeansServing
  <1>2. /\ Exists /\ NewestAlone /\ Last' = Last
    BY <1>1, GoesOnAlone DEF GoesOn, Exists, NewestAlone, Last
  <1>3. tasks[w].row = Last
    BY <1>1, <1>2 DEF AloneInv
  <1>4. PICK status \in {"live", "failed"} :
          /\ FinishRow(w, status)
          /\ status = "live" => tasks[w].pc \in Confirmed
    BY DEF Finish, FinishUnhealthy, At, Confirmed
  <1>5. /\ deploys'[Last].status = status /\ deploys'[Last].digest = tasks[w].digest
        /\ tasks[w].row \in DOMAIN deploys
    BY <1>1, <1>2, <1>3, <1>4, FinishRowEffect
  <1>6. status = "live" /\ tasks[w].pc \in Confirmed
    BY <1>2, <1>4, <1>5
  <1>7. /\ container # None /\ container.row = Last /\ container.running
    BY <1>1, <1>2, <1>3, <1>6 DEF HoldsOK, Lone
  <1>8. tasks[w].digest # None
    BY <1>1, <1>6 DEF IInv, TaskOK, RowOK
  <1>9. container.image = tasks[w].digest
    BY <1>1, <1>2, <1>8 DEF HoldsOK, Lone
  <1> QED
    BY <1>1, <1>2, <1>5, <1>7, <1>9

LEMMA GoesOnServes ==
  ASSUME IInv, IInv', OutcomeInv, NEW w \in Workers, GoesOn(w), Apply(w) \/ Cancel(w),
         ~(StartDeploy(w) /\ Exists)
  PROVE  LiveMeansServing'
  <1>1. CASE Finish(w) \/ FinishUnhealthy(w)
    BY <1>1, SettledServes
  <1>2. CASE UNCHANGED deploys
    BY <1>2, QuietServes
  <1> QED
    BY <1>1, <1>2
    DEF Apply, Cancel, ReadRecord, WritePin, Load, StartDeploy, ListDeploys, Pull, PullFails,
        InspectOld, StopOld, RemoveOld, CreateContainer, BootContainer, Confirm, DockerFails,
        HealthPasses, HealthFails, Publish

-----------------------------------------------------------------------------
(* The request's own steps.                                                *)

\* The rollback writes the pin it was given into the record, and loads it.
LEMMA RecordOwn ==
  ASSUME IInv, NEW w \in Workers, OwnInv(w), ReadRecord(w) \/ WritePin(w) \/ Load(w)
  PROVE  OwnInv(w)'
  <1>1. TypeOK /\ tasks[w] \in Task
    BY DEF IInv, TypeOK
  <1>2. UNCHANGED <<deploys, joined>>
    BY DEF ReadRecord, WritePin, Load
  <1>3. CASE ~Exists
    BY <1>1, <1>3, ReturnOwn DEF ReadRecord, WritePin, Load
  <1>4. ASSUME tasks'[w].pc \in {"rbWrite", "load", "start"}
        PROVE  HoldsOK(w)'
    BY <1>4 DEF HoldsOK, Lone, InDeploy, BeforeCreate, Confirmed
  <1>5. CASE Exists /\ ReadRecord(w)
    <2>1. /\ tasks'[w].pc = "rbWrite" /\ tasks'[w].auto = tasks[w].auto
          /\ tasks'[w].pin = tasks[w].pin /\ tasks[w].pc = "rbRead"
      BY <1>1, <1>5 DEF ReadRecord, At, TypeOK, Task
    <2>2. AutoOK(w) => AutoOK(w)'
      BY <1>2, <2>1 DEF AutoOK, NewestLive, InDeploy, BeforeCreate, Confirmed
    <2> QED
      BY <1>2, <1>4, <2>1, <2>2 DEF OwnInv
  <1>6. CASE Exists /\ WritePin(w)
    <2>1. /\ tasks'[w].pc = "load" /\ tasks'[w].auto = tasks[w].auto
          /\ tasks[w].pc = "rbWrite"
      BY <1>1, <1>6 DEF WritePin, Goto, At, TypeOK, Task
    <2>2. project'.image = tasks[w].pin
      BY <1>6 DEF WritePin
    <2>3. AutoOK(w) => AutoOK(w)'
      BY <1>2, <2>1, <2>2 DEF AutoOK, NewestLive, InDeploy, BeforeCreate, Confirmed
    <2> QED
      BY <1>2, <1>4, <2>1, <2>3 DEF OwnInv
  <1>7. CASE Exists /\ Load(w)
    <2>1. /\ tasks'[w].pc = "start" /\ tasks'[w].auto = tasks[w].auto
          /\ tasks[w].pc = "load"
          /\ tasks'[w].ref = project.image /\ project' = project
      <3>1. tasks' = [tasks EXCEPT ![w] = Snapshot(tasks[w])]
        BY <1>7 DEF Load
      <3>2. tasks'[w] = Snapshot(tasks[w])
        BY <1>1, <3>1 DEF TypeOK
      <3> QED
        BY <1>1, <1>7, <3>2 DEF Load, Snapshot, At, Task
    <2>2. AutoOK(w) => AutoOK(w)'
      BY <1>2, <1>7, <2>1 DEF AutoOK, NewestLive, InDeploy, BeforeCreate, Confirmed
    <2> QED
      BY <1>2, <1>4, <2>1, <2>2 DEF OwnInv
  <1> QED
    BY <1>3, <1>5, <1>6, <1>7

\* The new row is the newest; what was live before it still is.
LEMMA StartOwn ==
  ASSUME IInv, NEW w \in Workers, OwnInv(w), StartDeploy(w)
  PROVE  OwnInv(w)'
  <1>1. TypeOK /\ tasks[w] \in Task
    BY DEF IInv, TypeOK
  <1>2. CASE ~Exists
    BY <1>1, <1>2, ReturnOwn DEF StartDeploy
  <1>3. CASE Exists
    <2>1. /\ tasks[w].pc = "start" /\ project' = project /\ UNCHANGED joined
          /\ deploys' = Append(deploys, [status |-> "running", ref |-> tasks[w].ref,
                                         digest |-> None])
      BY <1>3 DEF StartDeploy, At
    <2>2. /\ tasks'[w].pc = IF tasks[w].auto THEN "pull" ELSE "list"
          /\ tasks'[w].auto = tasks[w].auto /\ tasks'[w].ref = tasks[w].ref
          /\ tasks'[w].pin = None /\ tasks'[w].digest = None
      BY ZenonT(30), <1>1, <1>3 DEF StartDeploy, TypeOK, Task
    <2>3. PICK m \in Nat : m = Len(deploys)
      BY <1>1, RowFields
    <2>4. /\ Len(deploys') = m + 1 /\ DOMAIN deploys = 1..m /\ DOMAIN deploys' = 1..(m + 1)
          /\ \A i \in 1..m : deploys'[i] = deploys[i]
      BY <1>1, <2>1, <2>3, RowFields DEF TypeOK
    <2>5. HoldsOK(w)'
      BY <2>2 DEF HoldsOK, Confirmed
    <2>6. ASSUME w \notin joined' PROVE AutoOK(w)'
      <3>1. tasks[w].auto => NewestLive(m - 1, tasks[w].ref) /\ project.image = tasks[w].ref
        BY <1>3, <2>1, <2>3, <2>6 DEF OwnInv, AutoOK
      <3>2. tasks[w].auto =>
              \E i \in 1..(m - 1) :
                /\ deploys'[i].status = "live" /\ deploys'[i].digest = tasks[w].ref
                /\ \A j \in 1..(m - 1) : deploys'[j].status = "live" => j <= i
        BY <2>4, <3>1 DEF NewestLive
      <3>3. tasks'[w].auto => NewestLive(Len(deploys) - 2, tasks[w].ref)'
        <4>1. (m + 1) - 2 = m - 1 /\ 1..(m - 1) \subseteq DOMAIN deploys'
          BY <2>4
        <4> QED
          BY <2>2, <2>4, <3>2, <4>1 DEF NewestLive
      <3>4. tasks'[w].pin = None /\ tasks'[w].pc \notin {"rbRead", "rbWrite", "load", "start"}
        BY <2>2
      <3> QED
        BY <2>1, <2>2, <3>1, <3>3, <3>4 DEF AutoOK
    <2> QED
      BY <2>5, <2>6 DEF OwnInv
  <1> QED
    BY <1>2, <1>3

\* However few rows it looks back through: the pin it finds, if any, is that
\* of the newest row that is live.
LEMMA PinIsNewest ==
  ASSUME IInv, NEW row, row = Len(deploys), PreviousHealthyPin(row) # None
  PROVE  NewestLive(Len(deploys) - 1, PreviousHealthyPin(row))
  <1>1. TypeOK /\ HistoryPinsOwnImage
    BY DEF IInv
  <1>2. PICK n \in Nat : n = Len(deploys) /\ DOMAIN deploys = 1..n
    BY <1>1, RowFields
  <1> DEFINE B == LiveBefore(row)
  <1>3. B # {}
    BY DEF PreviousHealthyPin
  <1>4. B \subseteq 1..n
    BY <1>2 DEF LiveBefore
  <1>5. \E i \in B : \A j \in B : j <= i
    <2> HIDE DEF B
    <2> QED
      BY <1>2, <1>3, <1>4, GreatestExists
  <1>6. PICK i \in B : PreviousHealthyPin(row) = deploys[i].digest /\ \A j \in B : j <= i
    BY <1>3, <1>5 DEF PreviousHealthyPin
  <1>7. /\ i \in 1..(n - 1) /\ i > n - ListLimit
        /\ i \in DOMAIN deploys /\ deploys[i].status = "live"
    BY <1>2, <1>6 DEF LiveBefore
  <1>8. \A j \in 1..(n - 1) : deploys[j].status = "live" => j <= i
    <2> SUFFICES ASSUME NEW j \in 1..(n - 1), deploys[j].status = "live", j > i PROVE FALSE
      BY <1>7
    <2>1. j \in DOMAIN deploys /\ deploys[j].digest # None
      BY <1>1, <1>2 DEF HistoryPinsOwnImage
    <2>2. j \in B
      BY <1>2, <1>7, <2>1, ListLimitAssumption DEF LiveBefore
    <2> QED
      BY <1>6, <1>7, <2>2
  <1> QED
    BY <1>2, <1>6, <1>7, <1>8 DEF NewestLive

\* A step inside a deploy: the history and the record are as they were.
LEMMA InsideOwn ==
  ASSUME IInv, AloneInv, NEW w \in Workers, OwnInv(w), GoesOn(w),
         tasks[w].pc \in InDeploy, tasks'[w].pc \in InDeploy,
         UNCHANGED <<project, deploys>>,
         tasks'[w].auto = tasks[w].auto, tasks'[w].ref = tasks[w].ref,
         \/ tasks[w].pc # "list" /\ tasks'[w].pin = tasks[w].pin
         \/ tasks'[w].pin = PreviousHealthyPin(tasks[w].row),
         HoldsOK(w)'
  PROVE  OwnInv(w)'
  <1> SUFFICES ASSUME w \notin joined' PROVE AutoOK(w)'
    BY DEF OwnInv
  <1>1. AutoOK(w) /\ tasks[w].row = Len(deploys)
    BY DEF GoesOn, OwnInv, AloneInv, Last
  <1>2. tasks'[w].pc \notin {"rbRead", "rbWrite", "load", "start"}
    BY DEF InDeploy, BeforeCreate, Confirmed
  <1>3. ASSUME ~tasks'[w].auto, tasks'[w].pin # None
        PROVE  NewestLive(Len(deploys) - 1, tasks[w].pin)'
    <2>1. PICK pin : pin = tasks'[w].pin
      OBVIOUS
    <2>2. NewestLive(Len(deploys) - 1, pin)
      BY <1>1, <1>3, <2>1, PinIsNewest DEF AutoOK
    <2> QED
      BY <2>1, <2>2 DEF NewestLive
  <1>4. tasks'[w].auto => NewestLive(Len(deploys) - 2, tasks[w].ref)'
    BY <1>1 DEF AutoOK, NewestLive
  <1>5. tasks'[w].auto /\ Exists' => project'.image = tasks'[w].ref
    BY <1>1 DEF AutoOK, Exists
  <1> QED
    BY <1>2, <1>3, <1>4, <1>5 DEF AutoOK

\* A lone deploy that goes on was lone before.
LEMMA StaysLone ==
  ASSUME IInv, AloneInv, NEW w \in Workers, GoesOn(w), Lone(w)'
  PROVE  Lone(w)
  BY GoesOnAlone DEF Lone, GoesOn

LEMMA ListOwn ==
  ASSUME IInv, AloneInv, NEW w \in Workers, OwnInv(w), GoesOn(w), ListDeploys(w)
  PROVE  OwnInv(w)'
  <1>1. TypeOK /\ TaskOK(w) /\ tasks[w] \in Task
    BY DEF IInv, TypeOK
  <1> DEFINE pin == PreviousHealthyPin(tasks[w].row)
             t == [tasks[w] EXCEPT !.pin = pin, !.pc = "pull"]
  <1>2. tasks[w].pc = "list" /\ tasks' = [tasks EXCEPT ![w] = t]
    BY DEF ListDeploys, At
  <1>3. t.pin = pin /\ t.pc = "pull" /\ t.auto = tasks[w].auto
        /\ t.ref = tasks[w].ref /\ t.digest = tasks[w].digest
    BY <1>1 DEF Task
  <1>4. tasks'[w] = t
    BY <1>1, <1>2 DEF TypeOK
  <1> HIDE DEF t
  <1>5. UNCHANGED <<project, deploys>> /\ tasks[w].digest = None
    BY <1>1, <1>2 DEF ListDeploys, TaskOK, RowOK, InDeploy, BeforeCreate
  <1>6. HoldsOK(w)'
    BY <1>3, <1>4, <1>5 DEF HoldsOK, Confirmed
  <1> QED
    BY <1>2, <1>3, <1>4, <1>5, <1>6, InsideOwn DEF InDeploy, BeforeCreate

\* A deploy goes on to another of its labels, with all that it has read.
LEMMA MovesOwn ==
  ASSUME IInv, AloneInv, NEW w \in Workers, OwnInv(w), GoesOn(w), NEW label \in InDeploy,
         tasks[w].pc \in InDeploy, tasks[w].pc # "list", Goto(w, label),
         UNCHANGED <<project, deploys>>,
         Lone(w) /\ label \in Confirmed \cup {"boot", "confirm"} =>
           /\ container' # None /\ container'.row = tasks[w].row
           /\ tasks[w].ref # Tag => container'.image = tasks[w].ref,
         Lone(w) /\ label \in Confirmed \cup {"confirm"} => container'.running,
         tasks[w].digest # None => container' = container
  PROVE  OwnInv(w)'
  <1>1. TypeOK /\ label \in Labels
    BY DEF IInv, InDeploy, BeforeCreate, Confirmed, Labels
  <1>2. MovesTo(w, label)
    BY <1>1, GotoMoves
  <1>3. HoldsOK(w)'
    <2>1. Lone(w)' => Lone(w) /\ HoldsOK(w)
      BY StaysLone DEF OwnInv
    <2>2. Lone(w)' /\ tasks'[w].digest # None =>
            /\ container' # None /\ container'.image = tasks'[w].digest
            /\ tasks'[w].ref # Tag => tasks'[w].digest = tasks'[w].ref
      BY <1>2, <2>1 DEF MovesTo, HoldsOK
    <2> QED
      BY <1>2, <2>1, <2>2 DEF MovesTo, HoldsOK
  <1> QED
    BY <1>2, <1>3, InsideOwn DEF MovesTo

\* The steps that only go on, or give the deploy up.
LEMMA QuietOwn ==
  ASSUME IInv, AloneInv, NEW w \in Workers, OwnInv(w), GoesOn(w),
         \/ Pull(w) \/ PullFails(w) \/ InspectOld(w) \/ HealthPasses(w) \/ HealthFails(w)
         \/ Publish(w)
  PROVE  OwnInv(w)'
  <1>1. UNCHANGED <<project, deploys, container>>
    BY DEF Pull, PullFails, InspectOld, HealthPasses, HealthFails, Publish
  <1>2. ASSUME NEW label \in InDeploy \ (Confirmed \cup {"boot", "confirm"}), Goto(w, label),
               tasks[w].pc \in {"pull", "inspect", "publish"}
        PROVE  OwnInv(w)'
    BY <1>1, <1>2, MovesOwn DEF InDeploy, BeforeCreate, Confirmed
  <1>3. ASSUME NEW label \in Confirmed, Goto(w, label), tasks[w].pc \in Confirmed
        PROVE  OwnInv(w)'
    <2>1. label \in InDeploy /\ tasks[w].pc \in InDeploy /\ tasks[w].pc # "list"
      BY <1>3 DEF InDeploy, Confirmed
    <2>2. Lone(w) => /\ container # None /\ container.row = tasks[w].row /\ container.running
                     /\ tasks[w].ref # Tag => container.image = tasks[w].ref
      BY <1>3 DEF OwnInv, HoldsOK
    <2> QED
      BY <1>1, <1>3, <2>1, <2>2, MovesOwn
  <1>4. CASE Pull(w) \/ PullFails(w) \/ InspectOld(w)
    BY <1>2, <1>4 DEF Pull, PullFails, InspectOld, At, InDeploy, BeforeCreate, Confirmed
  <1>5. CASE HealthPasses(w) \/ HealthFails(w) \/ Publish(w)
    BY <1>2, <1>3, <1>5 DEF HealthPasses, HealthFails, Publish, At, InDeploy, BeforeCreate, Confirmed
  <1> QED
    BY <1>4, <1>5

\* Until its container is created, a deploy promises nothing of the old one.
LEMMA OldContainerOwn ==
  ASSUME IInv, AloneInv, NEW w \in Workers, OwnInv(w), GoesOn(w), StopOld(w) \/ RemoveOld(w)
  PROVE  OwnInv(w)'
  <1>1. TypeOK /\ TaskOK(w) /\ UNCHANGED <<project, deploys>>
    BY DEF IInv, StopOld, RemoveOld
  <1>2. ASSUME NEW label \in {"remove", "create"}, Goto(w, label),
               tasks[w].pc \in {"stop", "remove"}
        PROVE  OwnInv(w)'
    <2>1. tasks[w].digest = None
      BY <1>1, <1>2 DEF TaskOK, RowOK, InDeploy, BeforeCreate
    <2> QED
      BY <1>1, <1>2, <2>1, MovesOwn DEF InDeploy, BeforeCreate, Confirmed
  <1>3. CASE At(w, "delRemove") /\ Return(w)
    BY <1>1, <1>3, ReturnOwn
  <1>4. CASE At(w, "delStop") /\ Goto(w, "delRemove")
    <2>1. tasks'[w].pc = "delRemove" /\ tasks'[w].auto = tasks[w].auto
      BY <1>1, <1>4, GotoMoves DEF MovesTo, Labels
    <2>2. HoldsOK(w)' /\ AutoOK(w)'
      BY <2>1 DEF HoldsOK, Lone, AutoOK, InDeploy, BeforeCreate, Confirmed
    <2> QED
      BY <2>2 DEF OwnInv
  <1> QED
    BY <1>2, <1>3, <1>4 DEF StopOld, RemoveOld, At

\* The container that is created is of the deploy's own row, and of the image
\* that the reference names, which is the reference itself when it is a pin.
LEMMA CreateContainerOwn ==
  ASSUME IInv, AloneInv, NEW w \in Workers, OwnInv(w), GoesOn(w), CreateContainer(w)
  PROVE  OwnInv(w)'
  <1>1. /\ TypeOK /\ TaskOK(w) /\ UNCHANGED <<project, deploys>>
        /\ tasks[w].pc = "create" /\ tasks[w].pc \in InDeploy /\ tasks[w].pc # "list"
    BY DEF IInv, CreateContainer, At, InDeploy, BeforeCreate
  <1>2. tasks[w].digest = None
    BY <1>1 DEF TaskOK, RowOK, BeforeCreate
  <1>3. CASE container = None
    <2>1. container' = NewContainer(tasks[w]) /\ Goto(w, "boot")
      BY <1>3 DEF CreateContainer
    <2>2. /\ container'.row = tasks[w].row
          /\ tasks[w].ref # Tag => container'.image = tasks[w].ref
      BY <2>1 DEF NewContainer, Resolve
    <2>3. container' # None
      <3>1. Resolve(tasks[w].ref) \in Digests /\ tasks[w].conf \in Confs /\ tasks[w].row \in Nat
        BY <1>1, TaskFields
        DEF TaskOK, SnapshotOK, Resolve, TypeOK, Refs, InDeploy, BeforeCreate
      <3>2. NewContainer(tasks[w]) \in Container
        BY <3>1 DEF NewContainer, Container
      <3> QED
        BY <2>1, <3>2, ContainerAssumption
    <2> QED
      BY <1>1, <1>2, <2>1, <2>2, <2>3, MovesOwn DEF InDeploy, Confirmed
  <1>4. CASE container # None
    <2>1. UNCHANGED container /\ Goto(w, "failed")
      BY <1>4 DEF CreateContainer
    <2> QED
      BY <1>1, <2>1, MovesOwn DEF InDeploy, Confirmed
  <1> QED
    BY <1>3, <1>4

LEMMA BootContainerOwn ==
  ASSUME IInv, AloneInv, NEW w \in Workers, OwnInv(w), GoesOn(w), BootContainer(w)
  PROVE  OwnInv(w)'
  <1>1. /\ TypeOK /\ UNCHANGED <<project, deploys>>
        /\ tasks[w].pc = "boot" /\ tasks[w].pc \in InDeploy /\ tasks[w].pc # "list"
    BY DEF IInv, BootContainer, At, InDeploy
  <1>2. CASE ~OwnsContainer(w)
    <2>1. UNCHANGED container /\ Goto(w, "failed")
      BY <1>2 DEF BootContainer
    <2> QED
      BY <1>1, <2>1, MovesOwn DEF InDeploy, Confirmed
  <1>3. CASE OwnsContainer(w)
    <2>1. container' = [container EXCEPT !.running = TRUE] /\ Goto(w, "confirm")
      BY <1>3 DEF BootContainer
    <2>2. container # None /\ container.row = tasks[w].row /\ container \in Container
      BY <1>1, <1>3 DEF OwnsContainer, TypeOK
    <2>3. /\ container'.row = container.row /\ container'.image = container.image
          /\ container'.running = TRUE /\ container' \in Container
      BY <2>1, <2>2 DEF Container
    <2>4. container' # None
      BY <2>3, ContainerAssumption
    <2>5. MovesTo(w, "confirm")
      BY <1>1, <2>1, GotoMoves DEF Labels
    <2>6. Lone(w)' => (tasks[w].ref # Tag => container.image = tasks[w].ref)
      BY <1>1, StaysLone DEF OwnInv, HoldsOK
    <2>7. Lone(w)' => /\ tasks[w].digest # None => container.image = tasks[w].digest
                      /\ tasks[w].digest # None /\ tasks[w].ref # Tag
                           => tasks[w].digest = tasks[w].ref
      BY StaysLone DEF OwnInv, HoldsOK
    <2>8. HoldsOK(w)'
      BY <2>2, <2>3, <2>4, <2>5, <2>6, <2>7 DEF MovesTo, HoldsOK
    <2> QED
      BY <1>1, <2>5, <2>8, InsideOwn DEF MovesTo, InDeploy
  <1> QED
    BY <1>2, <1>3

LEMMA ConfirmOwn ==
  ASSUME IInv, AloneInv, NEW w \in Workers, OwnInv(w), GoesOn(w), Confirm(w)
  PROVE  OwnInv(w)'
  <1>1. /\ TypeOK /\ tasks[w] \in Task /\ UNCHANGED <<project, deploys, container>>
        /\ tasks[w].pc = "confirm" /\ tasks[w].pc \in InDeploy /\ tasks[w].pc # "list"
    BY DEF IInv, TypeOK, Confirm, At, InDeploy
  <1>2. CASE ~OwnsContainer(w)
    <2>1. Goto(w, "failed")
      BY <1>2 DEF Confirm
    <2> QED
      BY <1>1, <2>1, MovesOwn DEF InDeploy, Confirmed
  <1>3. CASE OwnsContainer(w)
    <2> DEFINE t == [tasks[w] EXCEPT !.digest = container.image,
                                     !.pc = AfterContainer(tasks[w])]
    <2>1. tasks' = [tasks EXCEPT ![w] = t]
      BY <1>3 DEF Confirm
    <2>2. /\ t.pc \in {"health", "publish"} /\ t.digest = container.image
          /\ t.ref = tasks[w].ref /\ t.row = tasks[w].row /\ t.auto = tasks[w].auto
          /\ t.pin = tasks[w].pin
      BY <1>1 DEF Task, AfterContainer
    <2>3. tasks'[w] = t
      BY <1>1, <2>1 DEF TypeOK
    <2> HIDE DEF t
    <2>4. container # None /\ container.row = tasks[w].row
      BY <1>3 DEF OwnsContainer
    <2>5. Lone(w)' => /\ tasks[w].ref # Tag => container.image = tasks[w].ref
                      /\ container.running
      BY <1>1, StaysLone DEF OwnInv, HoldsOK
    <2>6. HoldsOK(w)'
      BY <1>1, <2>2, <2>3, <2>4, <2>5 DEF HoldsOK
    <2> QED
      BY <1>1, <2>2, <2>3, <2>6, InsideOwn DEF InDeploy, Confirmed
  <1> QED
    BY <1>2, <1>3

LEMMA DockerFailsOwn ==
  ASSUME IInv, AloneInv, NEW w \in Workers, OwnInv(w), GoesOn(w), DockerFails(w)
  PROVE  OwnInv(w)'
  <1>1. TypeOK /\ UNCHANGED <<project, deploys, container>>
    BY DEF IInv, DockerFails
  <1>2. CASE Return(w)
    BY <1>1, <1>2, ReturnOwn
  <1>3. CASE /\ tasks[w].pc \in {"inspect", "stop", "remove", "create", "boot", "confirm"}
             /\ Goto(w, "failed")
    BY <1>1, <1>3, MovesOwn DEF InDeploy, BeforeCreate, Confirmed
  <1> QED
    BY <1>2, <1>3 DEF DockerFails

\* Settling the newest row as failed leaves the newest live row of the others
\* as it was.
LEMMA FailKeepsNewest ==
  ASSUME IInv, NEW w \in Workers, tasks[w].row = Len(deploys), tasks[w].pc \in InDeploy, Exists,
         FinishRow(w, "failed"), NEW image, NewestLive(Len(deploys) - 1, image)
  PROVE  NewestLive(Len(deploys) - 1, image)'
  <1>1. TypeOK /\ DOMAIN deploys = 1..Len(deploys) /\ Len(deploys) \in Nat
    BY RowFields DEF IInv
  <1>2. PICK n \in Nat : n = Len(deploys) /\ DOMAIN deploys = 1..n
    BY <1>1
  <1>3. /\ Len(deploys') = n /\ DOMAIN deploys' = 1..n
        /\ \A i \in 1..n : i # n => deploys'[i] = deploys[i]
    BY <1>1, <1>2, FinishRowEffect
  <1>4. PICK i \in 1..(n - 1) :
          /\ deploys[i].status = "live" /\ deploys[i].digest = image
          /\ \A j \in 1..(n - 1) : deploys[j].status = "live" => j <= i
    BY <1>2 DEF NewestLive
  <1>5. \A j \in 1..(n - 1) : deploys'[j] = deploys[j] /\ j \in DOMAIN deploys'
    BY <1>2, <1>3
  <1> QED
    BY <1>3, <1>4, <1>5 DEF NewestLive

\* The rollback that a failed health check starts pins what the deploy found.
LEMMA FinishUnhealthyOwn ==
  ASSUME IInv, AloneInv, NEW w \in Workers, OwnInv(w), GoesOn(w), FinishUnhealthy(w)
  PROVE  OwnInv(w)'
  <1>1. /\ TypeOK /\ UNCHANGED joined
        /\ tasks[w].pc = "unhealthy" /\ tasks[w].pc \in InDeploy /\ FinishRow(w, "failed")
    BY DEF IInv, FinishUnhealthy, At, InDeploy, Confirmed
  <1>2. CASE Return(w)
    BY <1>1, <1>2, ReturnOwn
  <1>3. CASE /\ tasks[w].pin # None /\ ~tasks[w].auto /\ Exists
             /\ tasks' = [tasks EXCEPT ![w] = RollbackTask(tasks[w].pin)]
    <2>1. PICK pin : pin = tasks[w].pin
      OBVIOUS
    <2>2. tasks'[w] = RollbackTask(pin)
      BY <1>1, <1>3, <2>1 DEF TypeOK
    <2>3. tasks'[w].pc = "rbRead" /\ tasks'[w].pin = pin /\ tasks'[w].auto
      BY <2>2 DEF RollbackTask, IdleTask
    <2>4. HoldsOK(w)'
      BY <2>3 DEF HoldsOK, Lone, InDeploy, BeforeCreate, Confirmed
    <2>5. ASSUME w \notin joined' PROVE AutoOK(w)'
      <3>1. NewestLive(Len(deploys) - 1, pin) /\ tasks[w].row = Len(deploys)
        BY <1>1, <1>3, <2>1, <2>5 DEF OwnInv, AutoOK, AloneInv, Last
      <3>2. NewestLive(Len(deploys) - 1, pin)'
        BY <1>1, <1>3, <3>1, FailKeepsNewest
      <3> QED
        BY <2>3, <3>2 DEF AutoOK, NewestLive, InDeploy, BeforeCreate, Confirmed
    <2> QED
      BY <2>4, <2>5 DEF OwnInv
  <1> QED
    BY <1>2, <1>3 DEF FinishUnhealthy

LEMMA GoesOnOwn ==
  ASSUME IInv, OutcomeInv, NEW w \in Workers, GoesOn(w), Apply(w) \/ Cancel(w)
  PROVE  OwnInv(w)'
  <1>1. AloneInv /\ OwnInv(w) /\ TypeOK
    BY DEF OutcomeInv, IInv
  <1>2. CASE Return(w)
    BY <1>1, <1>2, ReturnOwn
  <1>3. CASE Apply(w) /\ ~Return(w)
    BY <1>1, <1>3, RecordOwn, StartOwn, ListOwn, QuietOwn, OldContainerOwn, CreateContainerOwn,
       BootContainerOwn, ConfirmOwn, DockerFailsOwn, FinishUnhealthyOwn
    DEF Apply, Finish
  <1> QED
    BY <1>2, <1>3 DEF Cancel

-----------------------------------------------------------------------------
(* The invariant, and what it says of the outcome.                         *)

LEMMA StepOutcome == IInv /\ OutcomeInv /\ [Next]_vars => OutcomeInv'
  <1> SUFFICES ASSUME IInv, OutcomeInv, [Next]_vars PROVE OutcomeInv'
    OBVIOUS
  <1>1. IInv' /\ TypeOK /\ AloneInv
    BY StepPreserves DEF IInv, OutcomeInv
  <1>2. CASE UNCHANGED vars \/ Push
    <2>1. UNCHANGED <<project, deploys, container, tasks, joined, trace>>
      BY <1>2 DEF vars, Push
    <2>2. AloneInv' /\ LiveMeansServing'
      BY <1>1, <2>1 DEF OutcomeInv, AloneInv, IdleOK, At, NewestAlone, Last, LiveMeansServing, Exists
    <2>3. \A w \in Workers : OwnInv(w)'
      BY <2>1
      DEF OutcomeInv, OwnInv, HoldsOK, Lone, AutoOK, NewestLive, NewestAlone, Exists, Last
    <2> QED
      BY <2>2, <2>3 DEF OutcomeInv
  <1>3. CASE Restart
    <2>1. /\ \A w \in Workers : tasks'[w] = IdleTask
          /\ UNCHANGED <<project, deploys, container, joined, trace>>
      BY <1>3 DEF Restart
    <2>2. /\ IdleTask.pc = "idle" /\ IdleTask.row = 0 /\ IdleTask.digest = None
          /\ "idle" \notin InDeploy
      BY DEF IdleTask, InDeploy, BeforeCreate, Confirmed
    <2>3. AloneInv'
      BY <2>1, <2>2 DEF AloneInv, IdleOK, At
    <2>4. LiveMeansServing'
      BY <2>1 DEF OutcomeInv, LiveMeansServing, Exists, Last
    <2>5. \A w \in Workers : OwnInv(w)'
      BY <2>1, BackToIdle
    <2> QED
      BY <2>3, <2>4, <2>5 DEF OutcomeInv
  <1>4. ASSUME NEW w \in Workers,
               Create(w) \/ Redeploy(w) \/ Update(w) \/ Rollback(w) \/ Delete(w)
        PROVE  OutcomeInv'
    <2>1. Enters(w)
      BY <1>1, <1>4, RequestEnters DEF AloneInv
    <2> QED
      BY <1>1, <2>1, EntersAlone, EntersOthers, QuietServes DEF OutcomeInv
  <1>5. ASSUME NEW w \in Workers, StartDeploy(w), Exists PROVE OutcomeInv'
    <2>1. OwnInv(w)'
      BY <1>5, StartOwn DEF OutcomeInv
    <2> QED
      BY <1>1, <1>5, <2>1, StartAlone, StartOthers, QuietServes DEF OutcomeInv
  <1>6. ASSUME NEW w \in Workers, Apply(w) \/ Cancel(w), ~(StartDeploy(w) /\ Exists)
        PROVE  OutcomeInv'
    <2>1. GoesOn(w)
      BY <1>1, <1>6, RequestGoesOn DEF AloneInv
    <2>2. AloneInv' /\ LiveMeansServing'
      BY <1>1, <1>6, <2>1, GoesOnAlone, GoesOnServes
    <2>3. OwnInv(w)' /\ \A v \in Workers \ {w} : OwnInv(v)'
      BY <1>6, <2>1, GoesOnOwn, GoesOnOthers
    <2> QED
      BY <2>2, <2>3 DEF OutcomeInv
  <1> QED
    BY <1>2, <1>3, <1>4, <1>5, <1>6 DEF Next

LEMMA InitOutcome == Init => OutcomeInv
  <1> SUFFICES ASSUME Init PROVE OutcomeInv
    OBVIOUS
  <1>1. (\A w \in Workers : tasks[w] = IdleTask) /\ Last = 0
    BY DEF Init, Last
  <1>2. /\ IdleTask.pc = "idle" /\ IdleTask.row = 0 /\ IdleTask.digest = None
        /\ IdleTask.auto = FALSE /\ "idle" \notin InDeploy
    BY DEF IdleTask, InDeploy, BeforeCreate, Confirmed
  <1>3. AloneInv
    BY <1>1, <1>2 DEF AloneInv, IdleOK, At
  <1>4. LiveMeansServing
    BY <1>1 DEF LiveMeansServing
  <1>5. \A w \in Workers : OwnInv(w)
    BY <1>1, <1>2 DEF OwnInv, HoldsOK, Lone, AutoOK
  <1> QED
    BY <1>3, <1>4, <1>5 DEF OutcomeInv

\* Whatever requests overlap, whatever fails and whenever they are cut off: when
\* the newest row says live, and no other deploy was under way when it started,
\* its own container, with the image the row names, is running.
THEOREM LiveServes == Spec => []LiveMeansServing
  <1>1. OutcomeInv => LiveMeansServing
    BY DEF OutcomeInv
  <1> QED
    BY <1>1, InitHolds, StepPreserves, InitOutcome, StepOutcome, PTL DEF Spec

\* Whatever other requests have come before or come after: when a request has
\* been alone and its automatic rollback has its container, project and container
\* are back at the newest image that was live before the failed deploy.
THEOREM RollbackRestores == Spec => []RollbackRestoresPrevious
  <1>1. IInv /\ OutcomeInv => RollbackRestoresPrevious
    <2> SUFFICES ASSUME IInv, OutcomeInv, NEW w \in Workers \ joined,
                        tasks[w].auto, tasks[w].digest # None, Exists
                 PROVE  LET before == {i \in 1..(tasks[w].row - 2) : deploys[i].status = "live"}
                        IN  \E i \in before :
                              /\ \A j \in before : j <= i
                              /\ project.image = deploys[i].digest
                              /\ container # None
                              /\ container.image = deploys[i].digest
      BY DEF RollbackRestoresPrevious
    <2>1. /\ TypeOK /\ HistoryPinsOwnImage /\ HoldsOK(w) /\ AutoOK(w)
          /\ tasks[w].pc \in InDeploy /\ tasks[w].row = Len(deploys) /\ NewestAlone
      BY DEF IInv, OutcomeInv, OwnInv, AloneInv, IdleOK, Last
    <2>2. PICK n \in Nat : n = Len(deploys) /\ DOMAIN deploys = 1..n
      BY <2>1, RowFields
    <2>3. PICK i \in 1..(n - 2) :
            /\ i \in DOMAIN deploys
            /\ deploys[i].status = "live" /\ deploys[i].digest = tasks[w].ref
            /\ \A j \in 1..(n - 2) :
                 j \in DOMAIN deploys /\ deploys[j].status = "live" => j <= i
      BY <2>1, <2>2 DEF AutoOK, NewestLive
    <2>4. deploys[i].digest \in Digests
      BY <2>1, <2>3, RowFields DEF HistoryPinsOwnImage
    <2>5. tasks[w].ref # Tag
      BY <2>3, <2>4, DigestsAssumption
    <2>6. /\ container # None /\ container.image = deploys[i].digest
          /\ project.image = deploys[i].digest
      BY <2>1, <2>3, <2>5 DEF HoldsOK, Lone, AutoOK
    <2>7. \A j \in 1..(n - 2) : j \in DOMAIN deploys
      BY <2>2
    <2> QED
      BY <2>1, <2>2, <2>3, <2>6, <2>7
  <1> QED
    BY <1>1, InitHolds, StepPreserves, InitOutcome, StepOutcome, PTL DEF Spec
=============================================================================
