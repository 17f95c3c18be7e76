------------------------------ MODULE TaskProofs ------------------------------
(***************************************************************************)
(* Proof that every manager task in Coordinator keeps to TaskView, as the  *)
(* unit monitor does (UnitMonitorProofs), for any number of tasks, users   *)
(* and requests: it is in this that the two models agree on a task.        *)
(***************************************************************************)
EXTENDS CoordinatorProofs

\* One step of a task.
Kept(t) == [Task(t)!Next]_(Task(t)!taskVars)

\* A sender may be replaced or dropped at any time.
LEMMA SenderSteps ==
  ASSUME NEW t \in Tasks, UNCHANGED <<phase, scopeOf, inbox>>,
         ~Registered(t) => phase[t] = "unborn" \/ ~Registered(t)'
  PROVE  Kept(t)
  BY DEF Kept, Registered, Task!Next, Task!Close, Task!taskVars

\* A task starts, under a scope that another may lose.
LEMMA SpawnKept ==
  ASSUME IInv, NEW x \in Tasks, NEW s \in Scopes, SpawnManager(x, s), NEW t \in Tasks
  PROVE  Kept(t)
<1>1. /\ phase[x] = "unborn" /\ phase' = [phase EXCEPT ![x] = "loading"]
      /\ scopeOf' = [scopeOf EXCEPT ![x] = s]
      /\ senders' = [senders EXCEPT ![s] = x] /\ inbox' = inbox
  BY DEF SpawnManager
<1>2. /\ phase \in [Tasks -> Phases] /\ scopeOf \in [Tasks -> Scopes]
      /\ senders \in [Scopes -> Tasks \union {NoTask}]
  BY DEF IInv, TypeOK, ManagerTypeOK
<1>3. CASE t = x
  <2>1. phase'[t] = "loading" /\ Registered(t)'
    BY <1>1, <1>2, <1>3 DEF Registered
  <2>. QED  BY <1>1, <1>3, <2>1 DEF Kept, Task!taskVars
<1>4. CASE t # x
  <2>1. phase'[t] = phase[t] /\ scopeOf'[t] = scopeOf[t]
    BY <1>1, <1>2, <1>4
  <2>2. Registered(t)' => Registered(t)
    BY <1>1, <1>2, <1>4, <2>1 DEF Registered
  <2>. QED  BY <1>1, <2>1, <2>2 DEF Kept, Task!Next, Task!Close, Task!taskVars
<1>. QED  BY <1>3, <1>4

\* A request is sent to a task that is registered and has not ended.
LEMMA FanOutKept ==
  ASSUME IInv, NEW s \in Scopes, FanOut(s), NEW t \in Tasks
  PROVE  Kept(t)
<1> DEFINE x == senders[s]
<1>1. /\ phase \in [Tasks -> Phases] /\ inbox \in [Tasks -> Seq(Requests)]
      /\ cur \in Requests /\ x \in Tasks /\ scopeOf[x] = s
  BY DEF FanOut, IInv, TypeOK, ManagerTypeOK, TaskInv, ScrapeStage, SendersOwnScope
<1>2. UNCHANGED <<senders, phase, scopeOf>>
  BY DEF FanOut
<1>3. CASE t # x \/ phase[x] = "ended"
  <2>1. inbox'[t] = inbox[t]
    BY <1>1, <1>3 DEF FanOut
  <2>. QED  BY <1>2, <2>1 DEF Kept, Task!taskVars, Registered
<1>4. CASE t = x /\ phase[x] # "ended"
  <2>1. inbox'[t] = Append(inbox[t], cur)
    BY <1>1, <1>4 DEF FanOut
  <2>2. Len(inbox'[t]) = Len(inbox[t]) + 1
    BY <1>1, <2>1, AppendToSet
  <2>3. Registered(t)
    BY <1>1, <1>4 DEF Registered
  <2>. QED
    BY <1>2, <1>4, <2>2, <2>3 DEF Kept, Task!Next, Task!Request, Registered
<1>. QED  BY <1>3, <1>4

\* The steps that the tasks take.
LEMMA ManagerKept ==
  ASSUME IInv, ManagerNext, NEW t \in Tasks
  PROVE  Kept(t)
<1>1. PICK x \in Tasks :
        \/ Load(x) \/ DBusError(x) \/ Panic(x) \/ StreamsEnded(x)
        \/ TakeInbox(x) \/ Answer(x) \/ Hang(x)
  BY DEF ManagerNext
<1>2. /\ phase \in [Tasks -> Phases] /\ inbox \in [Tasks -> Seq(Requests)]
      /\ UNCHANGED <<senders, scopeOf>>
  BY <1>1 DEF IInv, TypeOK, ManagerTypeOK, Load, DBusError, Panic, StreamsEnded,
              TakeInbox, Answer, Hang, End
<1>3. CASE t # x \/ Hang(x)
  <2>1. phase'[t] = phase[t] /\ inbox'[t] = inbox[t]
    BY <1>1, <1>2, <1>3 DEF Load, DBusError, Panic, StreamsEnded, TakeInbox, Answer,
                            Hang, End
  <2>. QED  BY <1>2, <2>1 DEF Kept, Task!taskVars, Registered
<1>4. CASE t = x /\ Load(x)
  <2>1. phase[t] = "loading" /\ phase'[t] = "ready" /\ inbox' = inbox
    BY <1>2, <1>4 DEF Load
  <2>. QED  BY <1>2, <2>1 DEF Kept, Task!Next, Task!Load, Registered
<1>5. CASE t = x /\ (DBusError(x) \/ Panic(x) \/ StreamsEnded(x))
  <2>1. /\ phase[t] \in {"loading", "ready", "serving"} /\ phase'[t] = "ended"
        /\ inbox'[t] = <<>>
    BY <1>2, <1>5 DEF DBusError, Panic, StreamsEnded, End
  <2>2. Len(inbox'[t]) = 0
    BY <2>1
  <2>. QED  BY <1>2, <2>1, <2>2 DEF Kept, Task!Next, Task!End, Registered
<1>6. CASE t = x /\ TakeInbox(x)
  <2>1. /\ phase[t] = "ready" /\ phase'[t] = "serving" /\ inbox[t] # <<>>
        /\ inbox'[t] = Tail(inbox[t]) /\ inbox[t] \in Seq(Requests)
    BY <1>2, <1>6 DEF TakeInbox
  <2>2. Len(inbox[t]) \in Nat \ {0} /\ Len(inbox'[t]) = Len(inbox[t]) - 1
    BY <2>1
  <2>. QED  BY <1>2, <2>1, <2>2 DEF Kept, Task!Next, Task!Take, Registered
<1>7. CASE t = x /\ Answer(x)
  <2>1. phase[t] = "serving" /\ phase'[t] = "ready" /\ inbox' = inbox
    BY <1>2, <1>7 DEF Answer
  <2>. QED  BY <1>2, <2>1 DEF Kept, Task!Next, Task!Answer, Registered
<1>. QED  BY <1>1, <1>3, <1>4, <1>5, <1>6, <1>7

\* What the coordinator does besides sending and spawning.
LEMMA CoordinatorKept ==
  ASSUME IInv, CoordinatorNext, NEW t \in Tasks
  PROVE  Kept(t)
<1>1. CASE UNCHANGED <<senders, phase, scopeOf, inbox>>
  BY <1>1 DEF Kept, Task!taskVars, Registered
<1>2. CASE Fail \/ TakeUserRemoved
  <2>1. UNCHANGED <<phase, scopeOf, inbox>>
    BY <1>2 DEF Fail, TakeUserRemoved
  <2>2. /\ senders \in [Scopes -> Tasks \union {NoTask}]
        /\ scopeOf[t] \in Scopes /\ NoTask \notin Tasks
    BY IdentityAssumption DEF IInv, TypeOK, ManagerTypeOK
  <2>3. senders'[scopeOf[t]] \in {senders[scopeOf[t]], NoTask}
    BY <1>2, <2>2 DEF Fail, TakeUserRemoved
  <2>4. Registered(t)' => Registered(t)
    BY <2>1, <2>2, <2>3 DEF Registered
  <2>. QED  BY <2>1, <2>4, SenderSteps
<1>3. CASE \E x \in Tasks, s \in Scopes : SpawnManager(x, s)
  BY <1>3, SpawnKept
<1>4. CASE \E s \in Scopes : FanOut(s)
  BY <1>4, FanOutKept
<1>5. \/ UNCHANGED <<senders, phase, scopeOf, inbox>>
      \/ Fail \/ TakeUserRemoved \/ \E s \in Scopes : FanOut(s)
      \/ \E x \in Tasks, s \in Scopes : SpawnManager(x, s)
  <2>1. CASE Start \/ SpawnNew \/ \E u \in Uids : SpawnListed(u)
    <3>1. System \in Scopes /\ Uids \subseteq Scopes
      BY DEF Scopes
    <3>2. ASSUME NEW u \in found, SpawnUser(u)
          PROVE  \/ UNCHANGED managerVars
                 \/ \E x \in Tasks, s \in Scopes : SpawnManager(x, s)
      <4>1. found \subseteq Uids
        BY DEF IInv, TypeOK
      <4>. QED  BY <3>1, <3>2, <4>1 DEF SpawnUser
    <3>3. CASE Start
      BY <3>1, <3>3 DEF Start
    <3>4. CASE SpawnNew \/ \E u \in Uids : SpawnListed(u)
      <4>1. \E u \in found : SpawnUser(u)
        BY <3>4 DEF SpawnNew, SpawnListed, SpawnUser
      <4>. QED  BY <4>1, <3>2 DEF managerVars
    <3>. QED  BY <2>1, <3>3, <3>4
  <2>2. CASE StartupError \/ RestorePanics \/ \E u \in Uids : InspectListed(u)
    BY <2>2 DEF StartupError, RestorePanics, InspectListed, managerVars
  <2>3. CASE \/ ListUsers \/ AllInspected \/ AllSpawned \/ SubscribeNew
             \/ SubscribeRemoved \/ InspectNew \/ Respond \/ Exit
             \/ TakeRequest \/ TakeUserNew \/ Stall \/ ConnectFails
    BY <2>3 DEF ListUsers, AllInspected, AllSpawned, SubscribeNew, SubscribeRemoved,
                InspectNew, Respond, Exit, TakeRequest, TakeUserNew, Stall, ConnectFails,
                managerVars
  <2>4. CASE \E x \in Tasks : Collect(x)
    BY <2>4 DEF Collect
  <2>. QED  BY <2>1, <2>2, <2>3, <2>4 DEF CoordinatorNext, Advance, SelectArm
<1>. QED  BY <1>1, <1>2, <1>3, <1>4, <1>5

LEMMA StepKept ==
  ASSUME IInv, [Next]_vars, NEW t \in Tasks
  PROVE  Kept(t)
<1>1. CASE CoordinatorNext
  BY <1>1, CoordinatorKept
<1>2. CASE OfManager(ManagerNext)
  BY <1>2, ManagerKept DEF OfManager
<1>3. CASE UNCHANGED managerVars
  BY <1>3 DEF managerVars, Kept, Task!taskVars, Registered
<1>. QED
  BY <1>1, <1>2, <1>3 DEF Next, Quiescent, OfHandler, OfLogind, vars

LEMMA InitKept ==
  ASSUME Init, NEW t \in Tasks
  PROVE  Task(t)!Init
<1>1. phase[t] = "unborn" /\ inbox[t] = <<>>
  BY DEF Init, ManagerInit
<1>2. Len(inbox[t]) = 0
  BY <1>1
<1>. QED  BY <1>1, <1>2 DEF Task!Init

\* Each task takes its requests one by one once it has loaded, and answers one
\* by one; only its end loses some, and only while it is registered is it sent
\* any: what monitor_units is shown to do in UnitMonitorProofs
\* (service.rs:211-291, coordinator.rs:42-50, 61-76).
THEOREM TasksActAsTask == Spec => ActsAsTask
<1>1. Init => \A t \in Tasks : Task(t)!Init
  BY InitKept
<1>2. IInv /\ [Next]_vars => \A t \in Tasks : [Task(t)!Next]_(Task(t)!taskVars)
  BY StepKept DEF Kept
<1>. QED  BY <1>1, <1>2, Invariance, PTL DEF Spec, ActsAsTask

=============================================================================
