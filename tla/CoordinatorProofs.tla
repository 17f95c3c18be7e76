-------------------------- MODULE CoordinatorProofs --------------------------
(***************************************************************************)
(* Proofs about Coordinator.  One inductive invariant, IInv, carries the   *)
(* type invariant and OneOutstandingRequest.                               *)
(***************************************************************************)
EXTENDS Coordinator, TLAPS

-----------------------------------------------------------------------------
(* Sequences and the sets of their elements.                               *)

\* Append adds its element to the set of a queue's elements: what a send does
\* to the contents of a channel.
LEMMA AppendToSet ==
  ASSUME NEW S, NEW q \in Seq(S), NEW x \in S
  PROVE  /\ Append(q, x) \in Seq(S)
         /\ ToSet(Append(q, x)) = ToSet(q) \union {x}
         /\ Len(Append(q, x)) = Len(q) + 1
<1>1. /\ Append(q, x) \in Seq(S)
      /\ Len(Append(q, x)) = Len(q) + 1
      /\ Append(q, x)[Len(q) + 1] = x
      /\ \A i \in 1 .. Len(q) : Append(q, x)[i] = q[i]
  OBVIOUS
<1>2. DOMAIN q = 1 .. Len(q) /\ DOMAIN Append(q, x) = 1 .. (Len(q) + 1)
  BY <1>1
<1>3. Len(q) \in Nat
  OBVIOUS
<1>. QED  BY <1>1, <1>2, <1>3 DEF ToSet

\* Taking the first element leaves the others: what a recv does.
LEMMA TailToSet ==
  ASSUME NEW S, NEW q \in Seq(S), q # <<>>
  PROVE  /\ Head(q) \in S
         /\ Tail(q) \in Seq(S)
         /\ Len(Tail(q)) = Len(q) - 1
         /\ ToSet(q) = {Head(q)} \union ToSet(Tail(q))
<1>1. /\ Len(q) \in Nat /\ Len(q) > 0
      /\ Tail(q) \in Seq(S) /\ Len(Tail(q)) = Len(q) - 1
      /\ Head(q) = q[1] /\ q[1] \in S
      /\ \A i \in 1 .. Len(q) - 1 : Tail(q)[i] = q[i + 1]
  OBVIOUS
<1>2. DOMAIN q = 1 .. Len(q) /\ DOMAIN Tail(q) = 1 .. (Len(q) - 1)
  BY <1>1
<1>3. ToSet(q) \subseteq {Head(q)} \union ToSet(Tail(q))
  <2> SUFFICES ASSUME NEW i \in 1 .. Len(q), i # 1
               PROVE  q[i] \in ToSet(Tail(q))
    BY <1>1, <1>2 DEF ToSet
  <2>1. i - 1 \in 1 .. (Len(q) - 1) /\ Tail(q)[i - 1] = q[i]
    BY <1>1
  <2>. QED  BY <2>1, <1>2 DEF ToSet
<1>4. ToSet(Tail(q)) \subseteq ToSet(q)
  <2> SUFFICES ASSUME NEW i \in 1 .. (Len(q) - 1)
               PROVE  Tail(q)[i] \in ToSet(q)
    BY <1>2 DEF ToSet
  <2>1. i + 1 \in 1 .. Len(q) /\ Tail(q)[i] = q[i + 1]
    BY <1>1
  <2>. QED  BY <2>1, <1>2 DEF ToSet
<1>. QED  BY <1>1, <1>2, <1>3, <1>4 DEF ToSet

\* The empty queue.
LEMMA EmptyToSet == ToSet(<<>>) = {} /\ Len(<<>>) = 0
  BY DEF ToSet

\* A queue that holds one element at most has none after a recv.
LEMMA SingleToSet ==
  ASSUME NEW S, NEW q \in Seq(S), q # <<>>, Len(q) <= 1
  PROVE  Head(q) \in S /\ Tail(q) = <<>> /\ ToSet(q) = {Head(q)}
<1>1. Len(q) = 1 /\ q[1] \in S /\ Head(q) = q[1]
  <2>1. Len(q) \in Nat /\ Len(q) # 0
    OBVIOUS
  <2>2. Len(q) = 1
    BY <2>1
  <2>. QED  BY <2>2
<1>2. Tail(q) = <<>>
  <2>1. Tail(q) \in Seq(S) /\ Len(Tail(q)) = 0
    BY <1>1
  <2>. QED  BY <2>1
<1>3. DOMAIN q = {1}
  BY <1>1
<1>. QED  BY <1>1, <1>2, <1>3 DEF ToSet

-----------------------------------------------------------------------------
(* The inductive invariant.                                                *)

\* A task's life as seen from outside: request r is on its way through it.
Outstanding(t, r) == HoldsSender(t, r) \/ <<t, r>> \in answers

\* Only a task that is collecting stats has a request in hand.
ServingHolds ==
  \A t \in Tasks : phase[t] = "serving" <=> inHand[t] # NoRequest

\* A registered task was spawned for the scope it is registered under.
SendersOwnScope ==
  \A s \in Scopes : senders[s] # NoTask =>
    scopeOf[senders[s]] = s /\ phase[senders[s]] # "unborn"

\* The variables of handle_scrape_request are in use while it runs only.
ScrapeStage ==
  /\ pc = "scrape" => cur \in Requests /\ \A s \in pending : senders[s] # NoTask
  /\ pc # "scrape" => cur = NoRequest /\ pending = {} /\ awaiting = {} /\ got = {}

\* A task whose reply is awaited was asked already.
AwaitedWasAsked ==
  \A t \in awaiting : phase[t] # "unborn" /\ scopeOf[t] \notin pending

\* Whatever is on its way through a task is the scrape the coordinator is
\* waiting for: nothing is left over from an earlier one.
OutstandingIsAwaited ==
  \A t \in Tasks, r \in Requests : Outstanding(t, r) => t \in awaiting /\ r = cur

\* A task's request is in one place: its channel, its hand or its reply.
OnePlacePerTask ==
  \A t \in Tasks :
    /\ Len(inbox[t]) <= 1
    /\ inHand[t] # NoRequest => inbox[t] = <<>>
    /\ \A r \in Requests : <<t, r>> \in answers =>
         inbox[t] = <<>> /\ inHand[t] = NoRequest

TaskInv ==
  /\ ServingHolds /\ SendersOwnScope /\ ScrapeStage /\ AwaitedWasAsked
  /\ OutstandingIsAwaited /\ OnePlacePerTask

IInv == TypeOK /\ TaskInv

-----------------------------------------------------------------------------
(* The initial states, and the steps of logind and of the handlers.        *)

\* Nothing runs and nobody is registered when the exporter starts.
LEMMA InitIInv == Init => IInv
<1> SUFFICES ASSUME Init PROVE IInv
  OBVIOUS
<1> USE DEF Init, LogindInit, ManagerInit, HandlerInit
<1>1. LogindTypeOK
  <2>1. session \in [Uids -> SessionStates]
    <3>1. (IF SlowBus THEN SessionStates ELSE SessionStates \ {"opening"})
            \subseteq SessionStates
      OBVIOUS
    <3>. QED  BY <3>1
  <2>2. logins \in [Uids -> Nat]
    OBVIOUS
  <2>3. userNew \in Seq(Uids) /\ userRemoved \in Seq(Uids)
    OBVIOUS
  <2>4. missedNew \in SUBSET Uids /\ missedRemoved \in SUBSET Uids
    OBVIOUS
  <2>. QED  BY <2>1, <2>2, <2>3, <2>4 DEF LogindTypeOK
<1>2. ManagerTypeOK
  BY DEF ManagerTypeOK, Phases, Scopes
<1>3. HandlerTypeOK
  BY HandlerAssumption DEF HandlerTypeOK, HandlerStates
<1>4. TypeOK
  BY <1>1, <1>2, <1>3 DEF TypeOK, Stages
<1>5. ServingHolds /\ SendersOwnScope /\ ScrapeStage /\ AwaitedWasAsked
  BY <1>4 DEF ServingHolds, SendersOwnScope, ScrapeStage, AwaitedWasAsked
<1>6. OutstandingIsAwaited /\ OnePlacePerTask
  <2>1. \A t \in Tasks : inbox[t] = <<>> /\ Len(inbox[t]) = 0 /\ ToSet(inbox[t]) = {}
    BY DEF ToSet
  <2>2. \A t \in Tasks : inHand[t] = NoRequest
    OBVIOUS
  <2>. QED
    BY <2>1, <2>2, IdentityAssumption
    DEF OutstandingIsAwaited, OnePlacePerTask, Outstanding, HoldsSender
<1>. QED  BY <1>4, <1>5, <1>6 DEF IInv, TaskInv

\* logind keeps to its types.
LEMMA LogindType ==
  ASSUME LogindTypeOK, LogindNext
  PROVE  LogindTypeOK'
<1>1. PICK u \in Uids : Login(u) \/ BusUp(u) \/ Logout(u) \/ RemoveUser(u)
  BY DEF LogindNext
<1>2. Append(userNew, u) \in Seq(Uids) /\ Append(userRemoved, u) \in Seq(Uids)
  BY DEF LogindTypeOK
<1>3. CASE Login(u)
  <2>1. session' \in [Uids -> SessionStates]
    BY <1>3 DEF Login, LogindTypeOK, SessionStates
  <2>2. logins' \in [Uids -> Nat]
    BY <1>3 DEF Login, LogindTypeOK
  <2>3. userNew' \in Seq(Uids) /\ missedNew' \in SUBSET Uids
    BY <1>2, <1>3 DEF Login, LogindTypeOK
  <2>4. overlapped' \in SUBSET Uids
    BY <1>3 DEF Login, LogindTypeOK
  <2>. QED
    BY <1>3, <2>1, <2>2, <2>3, <2>4 DEF Login, LogindTypeOK, signalVars
<1>4. CASE BusUp(u)
  BY <1>4 DEF BusUp, LogindTypeOK, SessionStates, signalVars
<1>5. CASE Logout(u)
  BY <1>5 DEF Logout, LogindTypeOK, SessionStates, signalVars
<1>6. CASE RemoveUser(u)
  BY <1>2, <1>6 DEF RemoveUser, LogindTypeOK, SessionStates, signalVars
<1>. QED  BY <1>1, <1>3, <1>4, <1>5, <1>6

\* The handlers keep to their types; a send waits for room in the channel.
LEMMA HandlerType ==
  ASSUME HandlerTypeOK, HandlerNext
  PROVE  HandlerTypeOK'
<1>1. PICK r \in Requests : Arrive(r) \/ HandlerStep(r) \/ Disconnect(r)
  BY DEF HandlerNext
<1>2. CASE Send(r)
  <2>1. Append(requests, r) \in Seq(Requests) /\ Len(Append(requests, r)) = Len(requests) + 1
    BY DEF HandlerTypeOK
  <2>2. Len(requests) \in Nat /\ RequestCap \in Nat
    BY HandlerAssumption DEF HandlerTypeOK
  <2>. QED  BY <1>2, <2>1, <2>2 DEF Send, HandlerTypeOK, HandlerStates
<1>3. CASE Arrive(r) \/ ReceiveReply(r) \/ ChannelError(r) \/ Disconnect(r)
  BY <1>3 DEF Arrive, ReceiveReply, ChannelError, Disconnect, HandlerTypeOK,
              HandlerStates, Outcomes
<1>. QED  BY <1>1, <1>2, <1>3 DEF HandlerStep

\* The invariant of the tasks mentions no variable of logind or the handlers.
LEMMA TaskInvFrame ==
  ASSUME TaskInv, UNCHANGED <<managerVars, coordVars>>
  PROVE  TaskInv'
  BY DEF managerVars, coordVars, userVars, scrapeVars, TaskInv, ServingHolds, SendersOwnScope,
         ScrapeStage, AwaitedWasAsked, OutstandingIsAwaited, OnePlacePerTask,
         Outstanding, HoldsSender

\* A step of logind preserves the invariant.
LEMMA LogindStep ==
  ASSUME IInv, OfLogind(LogindNext)
  PROVE  IInv'
<1>1. LogindNext /\ UNCHANGED <<managerVars, handlerVars, coordVars>>
  BY DEF OfLogind
<1>2. LogindTypeOK'
  BY <1>1, LogindType DEF IInv, TypeOK
<1>3. TypeOK'
  BY <1>1, <1>2 DEF IInv, TypeOK, ManagerTypeOK, HandlerTypeOK, managerVars,
                    handlerVars, coordVars, userVars, scrapeVars
<1>. QED  BY <1>1, <1>3, TaskInvFrame DEF IInv

\* A step of a handler preserves the invariant.
LEMMA HandlerStepOK ==
  ASSUME IInv, OfHandler(HandlerNext)
  PROVE  IInv'
<1>1. HandlerNext /\ UNCHANGED <<logindVars, managerVars, coordVars>>
  BY DEF OfHandler
<1>2. HandlerTypeOK'
  BY <1>1, HandlerType DEF IInv, TypeOK
<1>3. TypeOK'
  BY <1>1, <1>2 DEF IInv, TypeOK, ManagerTypeOK, LogindTypeOK, managerVars,
                    logindVars, signalVars, coordVars, userVars, scrapeVars
<1>. QED  BY <1>1, <1>3, TaskInvFrame DEF IInv

-----------------------------------------------------------------------------
(* The steps of the manager tasks.                                         *)

\* What every step of a task leaves alone: the coordinator's view of it, and
\* that it was spawned.
TaskFrame ==
  /\ UNCHANGED <<senders, scopeOf, sessionOf, logindVars, handlerVars, coordVars>>
  /\ \A t \in Tasks : phase'[t] = "unborn" => phase[t] = "unborn"

\* So the parts of the invariant that speak of the registry are preserved.
LEMMA TaskFrameInv ==
  ASSUME IInv, TaskFrame
  PROVE  SendersOwnScope' /\ ScrapeStage' /\ AwaitedWasAsked'
<1>1. \A s \in Scopes : senders[s] # NoTask => senders[s] \in Tasks
  BY DEF IInv, TypeOK, ManagerTypeOK
<1>2. awaiting \subseteq Tasks
  BY DEF IInv, TypeOK
<1>. QED
  BY <1>1, <1>2 DEF TaskFrame, coordVars, userVars, scrapeVars, IInv, TaskInv,
     SendersOwnScope, ScrapeStage, AwaitedWasAsked

\* And so are the types, once the task's own variables have theirs.
LEMMA TaskFrameType ==
  ASSUME IInv, TaskFrame,
         phase' \in [Tasks -> Phases],
         inbox' \in [Tasks -> Seq(Requests)],
         inHand' \in [Tasks -> Requests \union {NoRequest}],
         answers' \in SUBSET (Tasks \X Requests),
         stuck' \in SUBSET Tasks
  PROVE  TypeOK'
  BY DEF TaskFrame, IInv, TypeOK, ManagerTypeOK, LogindTypeOK, HandlerTypeOK,
         logindVars, signalVars, handlerVars, coordVars, userVars, scrapeVars

\* The end of a task drops what it holds.
LEMMA EndStep ==
  ASSUME IInv, NEW t \in Tasks, End(t), phase[t] # "unborn",
         UNCHANGED <<logindVars, handlerVars, coordVars>>
  PROVE  IInv'
<1> USE DEF End
<1>1. TaskFrame
  BY DEF TaskFrame, IInv, TypeOK, ManagerTypeOK
<1>2. TypeOK'
  <2>1. phase' \in [Tasks -> Phases]
    BY DEF IInv, TypeOK, ManagerTypeOK, Phases
  <2>2. inbox' \in [Tasks -> Seq(Requests)]
    <3>1. <<>> \in Seq(Requests)
      OBVIOUS
    <3>. QED  BY <3>1 DEF IInv, TypeOK, ManagerTypeOK
  <2>3. inHand' \in [Tasks -> Requests \union {NoRequest}]
    BY DEF IInv, TypeOK, ManagerTypeOK
  <2>4. answers' \in SUBSET (Tasks \X Requests) /\ stuck' \in SUBSET Tasks
    BY DEF IInv, TypeOK, ManagerTypeOK
  <2>. QED  BY <1>1, <2>1, <2>2, <2>3, <2>4, TaskFrameType
<1>3. ServingHolds'
  BY DEF IInv, TypeOK, ManagerTypeOK, TaskInv, ServingHolds
<1>4. OutstandingIsAwaited'
  <2> SUFFICES ASSUME NEW x \in Tasks, NEW r \in Requests, Outstanding(x, r)'
               PROVE  Outstanding(x, r)
    BY DEF IInv, TaskInv, OutstandingIsAwaited, coordVars, userVars, scrapeVars
  <2>1. CASE x = t
    <3>1. inbox'[x] = <<>> /\ inHand'[x] = NoRequest
      BY <2>1 DEF IInv, TypeOK, ManagerTypeOK
    <3>2. ~HoldsSender(x, r)'
      BY <3>1, IdentityAssumption DEF HoldsSender, ToSet
    <3>. QED  BY <3>2 DEF Outstanding
  <2>2. CASE x # t
    BY <2>2 DEF IInv, TypeOK, ManagerTypeOK, Outstanding, HoldsSender
  <2>. QED  BY <2>1, <2>2
<1>5. OnePlacePerTask'
  <2> SUFFICES ASSUME NEW x \in Tasks
               PROVE  /\ Len(inbox'[x]) <= 1
                      /\ inHand'[x] # NoRequest => inbox'[x] = <<>>
                      /\ \A r \in Requests : <<x, r>> \in answers =>
                           inbox'[x] = <<>> /\ inHand'[x] = NoRequest
    BY DEF OnePlacePerTask
  <2>1. CASE x = t
    BY <2>1 DEF IInv, TypeOK, ManagerTypeOK
  <2>2. CASE x # t
    BY <2>2 DEF IInv, TypeOK, ManagerTypeOK, TaskInv, OnePlacePerTask
  <2>. QED  BY <2>1, <2>2
<1>. QED  BY <1>1, <1>2, <1>3, <1>4, <1>5, TaskFrameInv DEF IInv, TaskInv

\* Steps that move no request: the end of loading, and a hang.
LEMMA QuietTaskStep ==
  ASSUME IInv, NEW t \in Tasks, Load(t) \/ Hang(t),
         UNCHANGED <<logindVars, handlerVars, coordVars>>
  PROVE  IInv'
<1>1. UNCHANGED <<senders, scopeOf, sessionOf, inbox, inHand, answers>>
  BY DEF Load, Hang
<1>2. /\ phase' \in [Tasks -> Phases] /\ stuck' \in SUBSET Tasks
      /\ \A x \in Tasks : phase'[x] = "unborn" => phase[x] = "unborn"
      /\ \A x \in Tasks : phase'[x] = "serving" <=> phase[x] = "serving"
  BY DEF Load, Hang, IInv, TypeOK, ManagerTypeOK, Phases
<1>3. TaskFrame
  BY <1>1, <1>2 DEF TaskFrame
<1>4. TypeOK'
  BY <1>1, <1>2, <1>3, TaskFrameType DEF IInv, TypeOK, ManagerTypeOK
<1>5. ServingHolds' /\ OutstandingIsAwaited' /\ OnePlacePerTask'
  BY <1>1, <1>2 DEF IInv, TaskInv, ServingHolds, OutstandingIsAwaited, Outstanding,
     HoldsSender, OnePlacePerTask, coordVars, userVars, scrapeVars
<1>. QED  BY <1>3, <1>4, <1>5, TaskFrameInv DEF IInv, TaskInv

\* Taking a request from the channel: it is still on its way, in hand now.
LEMMA TakeInboxStep ==
  ASSUME IInv, NEW t \in Tasks, TakeInbox(t),
         UNCHANGED <<logindVars, handlerVars, coordVars>>
  PROVE  IInv'
<1> USE DEF TakeInbox
<1>1. inbox[t] \in Seq(Requests) /\ inbox[t] # <<>> /\ Len(inbox[t]) <= 1
  BY DEF IInv, TypeOK, ManagerTypeOK, TaskInv, OnePlacePerTask
<1>2. /\ Head(inbox[t]) \in Requests /\ Tail(inbox[t]) = <<>>
      /\ ToSet(inbox[t]) = {Head(inbox[t])}
  BY <1>1, SingleToSet
<1>3. /\ inbox' = [inbox EXCEPT ![t] = <<>>]
      /\ inHand' = [inHand EXCEPT ![t] = Head(inbox[t])]
      /\ Head(inbox[t]) # NoRequest
  BY <1>2, IdentityAssumption
<1>4. TaskFrame
  BY DEF TaskFrame, IInv, TypeOK, ManagerTypeOK
<1>5. TypeOK'
  <2>1. phase' \in [Tasks -> Phases]
    BY DEF IInv, TypeOK, ManagerTypeOK, Phases
  <2>2. inbox' \in [Tasks -> Seq(Requests)]
    <3>1. <<>> \in Seq(Requests)
      OBVIOUS
    <3>. QED  BY <3>1, <1>3 DEF IInv, TypeOK, ManagerTypeOK
  <2>3. inHand' \in [Tasks -> Requests \union {NoRequest}]
    BY <1>2 DEF IInv, TypeOK, ManagerTypeOK
  <2>. QED  BY <1>4, <2>1, <2>2, <2>3, TaskFrameType DEF IInv, TypeOK, ManagerTypeOK
<1>6. ServingHolds'
  BY <1>3 DEF IInv, TypeOK, ManagerTypeOK, TaskInv, ServingHolds
<1>7. OutstandingIsAwaited'
  <2> SUFFICES ASSUME NEW x \in Tasks, NEW r \in Requests, Outstanding(x, r)'
               PROVE  Outstanding(x, r)
    BY DEF IInv, TaskInv, OutstandingIsAwaited, coordVars, userVars, scrapeVars
  <2>1. CASE x = t
    <3>1. inbox'[x] = <<>> /\ inHand'[x] = Head(inbox[t])
      BY <1>3, <2>1 DEF IInv, TypeOK, ManagerTypeOK
    <3>2. ToSet(<<>>) = {}
      BY EmptyToSet
    <3>. QED  BY <1>2, <2>1, <3>1, <3>2 DEF Outstanding, HoldsSender
  <2>2. CASE x # t
    BY <2>2 DEF IInv, TypeOK, ManagerTypeOK, Outstanding, HoldsSender
  <2>. QED  BY <2>1, <2>2
<1>8. OnePlacePerTask'
  <2>1. \A r \in Requests : <<t, r>> \notin answers
    BY <1>1 DEF IInv, TaskInv, OnePlacePerTask
  <2> SUFFICES ASSUME NEW x \in Tasks
               PROVE  /\ Len(inbox'[x]) <= 1
                      /\ inHand'[x] # NoRequest => inbox'[x] = <<>>
                      /\ \A r \in Requests : <<x, r>> \in answers =>
                           inbox'[x] = <<>> /\ inHand'[x] = NoRequest
    BY DEF OnePlacePerTask
  <2>2. CASE x = t
    <3>1. inbox'[x] = <<>>
      BY <1>3, <2>2 DEF IInv, TypeOK, ManagerTypeOK
    <3>2. Len(inbox'[x]) = 0
      BY <3>1, EmptyToSet, Zenon
    <3>. QED  BY <2>1, <2>2, <3>1, <3>2
  <2>3. CASE x # t
    BY <2>3 DEF IInv, TypeOK, ManagerTypeOK, TaskInv, OnePlacePerTask
  <2>. QED  BY <2>2, <2>3
<1>. QED  BY <1>4, <1>5, <1>6, <1>7, <1>8, TaskFrameInv DEF IInv, TaskInv

\* Answering: the request leaves the hand and its reply is on its way.
LEMMA AnswerStep ==
  ASSUME IInv, NEW t \in Tasks, Answer(t),
         UNCHANGED <<logindVars, handlerVars, coordVars>>
  PROVE  IInv'
<1> USE DEF Answer
<1>1. inHand[t] \in Requests /\ inHand[t] # NoRequest /\ inbox[t] = <<>>
  BY DEF IInv, TypeOK, ManagerTypeOK, TaskInv, ServingHolds, OnePlacePerTask
<1>2. TaskFrame
  BY DEF TaskFrame, IInv, TypeOK, ManagerTypeOK
<1>3. TypeOK'
  <2>1. phase' \in [Tasks -> Phases]
    BY DEF IInv, TypeOK, ManagerTypeOK, Phases
  <2>2. inHand' \in [Tasks -> Requests \union {NoRequest}]
    BY DEF IInv, TypeOK, ManagerTypeOK
  <2>3. answers' \in SUBSET (Tasks \X Requests)
    BY <1>1 DEF IInv, TypeOK, ManagerTypeOK
  <2>. QED  BY <1>2, <2>1, <2>2, <2>3, TaskFrameType DEF IInv, TypeOK, ManagerTypeOK
<1>4. ServingHolds'
  BY DEF IInv, TypeOK, ManagerTypeOK, TaskInv, ServingHolds
<1>5. OutstandingIsAwaited'
  <2> SUFFICES ASSUME NEW x \in Tasks, NEW r \in Requests, Outstanding(x, r)'
               PROVE  Outstanding(x, r)
    BY DEF IInv, TaskInv, OutstandingIsAwaited, coordVars, userVars, scrapeVars
  <2>1. inHand'[x] = r => inHand[x] = r
    BY IdentityAssumption DEF IInv, TypeOK, ManagerTypeOK
  <2>2. <<x, r>> \in answers' => <<x, r>> \in answers \/ inHand[x] = r
    OBVIOUS
  <2>. QED  BY <2>1, <2>2 DEF Outstanding, HoldsSender
<1>6. OnePlacePerTask'
  <2> SUFFICES ASSUME NEW x \in Tasks
               PROVE  /\ Len(inbox[x]) <= 1
                      /\ inHand'[x] # NoRequest => inbox[x] = <<>>
                      /\ \A r \in Requests : <<x, r>> \in answers' =>
                           inbox[x] = <<>> /\ inHand'[x] = NoRequest
    BY DEF OnePlacePerTask
  <2>1. Len(inbox[x]) <= 1
    BY DEF IInv, TaskInv, OnePlacePerTask
  <2>2. CASE x = t
    BY <1>1, <2>1, <2>2 DEF IInv, TypeOK, ManagerTypeOK
  <2>3. CASE x # t
    <3>1. inHand'[x] = inHand[x]
      BY <2>3 DEF IInv, TypeOK, ManagerTypeOK
    <3>2. \A r \in Requests : <<x, r>> \in answers' => <<x, r>> \in answers
      BY <2>3
    <3>. QED  BY <2>1, <3>1, <3>2 DEF IInv, TaskInv, OnePlacePerTask
  <2>. QED  BY <2>2, <2>3
<1>. QED  BY <1>2, <1>3, <1>4, <1>5, <1>6, TaskFrameInv DEF IInv, TaskInv

\* A step of a manager task preserves the invariant.
LEMMA ManagerStep ==
  ASSUME IInv, OfManager(ManagerNext)
  PROVE  IInv'
<1>1. UNCHANGED <<logindVars, handlerVars, coordVars>>
  BY DEF OfManager
<1>2. PICK t \in Tasks :
        \/ Load(t) \/ DBusError(t) \/ Panic(t) \/ StreamsEnded(t)
        \/ TakeInbox(t) \/ Answer(t) \/ Hang(t)
  BY DEF OfManager, ManagerNext
<1>3. CASE DBusError(t) \/ Panic(t) \/ StreamsEnded(t)
  BY <1>1, <1>3, EndStep DEF DBusError, Panic, StreamsEnded
<1>4. CASE Load(t) \/ Hang(t)
  BY <1>1, <1>4, QuietTaskStep
<1>5. CASE TakeInbox(t)
  BY <1>1, <1>5, TakeInboxStep
<1>6. CASE Answer(t)
  BY <1>1, <1>6, AnswerStep
<1>. QED  BY <1>2, <1>3, <1>4, <1>5, <1>6

-----------------------------------------------------------------------------
(* The steps of the coordinator.                                           *)

\* Outside of handle_scrape_request nothing is on its way through a task.
LEMMA NothingOutstanding ==
  ASSUME IInv, pc # "scrape", NEW t \in Tasks, NEW r \in Requests
  PROVE  ~Outstanding(t, r)
  BY DEF IInv, TaskInv, OutstandingIsAwaited, ScrapeStage

\* Steps between two scrapes that do not touch the tasks or the registry.
LEMMA CoordFrame ==
  ASSUME IInv, pc # "scrape", pc' # "scrape",
         UNCHANGED <<managerVars, scrapeVars>>
  PROVE  TaskInv'
<1>1. ScrapeStage' /\ AwaitedWasAsked'
  BY DEF IInv, TaskInv, ScrapeStage, AwaitedWasAsked, managerVars, scrapeVars
<1>. QED
  BY <1>1 DEF IInv, TaskInv, managerVars, scrapeVars, ServingHolds, SendersOwnScope,
     OutstandingIsAwaited, OnePlacePerTask, Outstanding, HoldsSender

\* A spawn registers a task that nothing was ever sent to.
LEMMA SpawnStep ==
  ASSUME IInv, pc # "scrape", pc' # "scrape", UNCHANGED scrapeVars,
         NEW t \in Tasks, NEW s \in Scopes, SpawnManager(t, s)
  PROVE  ManagerTypeOK' /\ TaskInv'
<1> USE DEF SpawnManager
<1>1. ManagerTypeOK'
  <2>1. phase' \in [Tasks -> Phases] /\ scopeOf' \in [Tasks -> Scopes]
    BY DEF IInv, TypeOK, ManagerTypeOK, Phases
  <2>2. sessionOf' \in [Tasks -> Nat]
    <3>1. (IF s = System THEN 0 ELSE logins[s]) \in Nat
      BY DEF IInv, TypeOK, LogindTypeOK, Scopes
    <3>. QED  BY <3>1 DEF IInv, TypeOK, ManagerTypeOK
  <2>3. senders' \in [Scopes -> Tasks \union {NoTask}]
    BY DEF IInv, TypeOK, ManagerTypeOK
  <2>. QED  BY <2>1, <2>2, <2>3 DEF IInv, TypeOK, ManagerTypeOK
<1>2. ServingHolds'
  BY DEF IInv, TypeOK, ManagerTypeOK, TaskInv, ServingHolds
<1>3. SendersOwnScope'
  <2> SUFFICES ASSUME NEW x \in Scopes, senders'[x] # NoTask
               PROVE  scopeOf'[senders'[x]] = x /\ phase'[senders'[x]] # "unborn"
    BY DEF SendersOwnScope
  <2>1. CASE x = s
    BY <2>1 DEF IInv, TypeOK, ManagerTypeOK
  <2>2. CASE x # s
    <3>1. senders'[x] = senders[x] /\ senders[x] \in Tasks /\ senders[x] # t
      BY <2>2 DEF IInv, TypeOK, ManagerTypeOK, TaskInv, SendersOwnScope
    <3>. QED  BY <3>1 DEF IInv, TypeOK, ManagerTypeOK, TaskInv, SendersOwnScope
  <2>. QED  BY <2>1, <2>2
<1>4. ScrapeStage' /\ AwaitedWasAsked'
  BY DEF IInv, TaskInv, ScrapeStage, AwaitedWasAsked, scrapeVars
<1>5. OutstandingIsAwaited' /\ OnePlacePerTask'
  BY DEF IInv, TaskInv, scrapeVars, OutstandingIsAwaited, OnePlacePerTask,
     Outstanding, HoldsSender
<1>. QED  BY <1>1, <1>2, <1>3, <1>4, <1>5 DEF TaskInv

\* Dropping senders between two scrapes.
LEMMA DropSenders ==
  ASSUME IInv, pc # "scrape", pc' # "scrape",
         UNCHANGED <<scrapeVars, phase, scopeOf, sessionOf, inbox, inHand, answers, stuck>>,
         senders' \in [Scopes -> Tasks \union {NoTask}],
         \A s \in Scopes : senders'[s] # NoTask => senders'[s] = senders[s]
  PROVE  ManagerTypeOK' /\ TaskInv'
<1>1. ManagerTypeOK'
  BY DEF IInv, TypeOK, ManagerTypeOK
<1>2. SendersOwnScope'
  BY DEF IInv, TaskInv, SendersOwnScope
<1>3. ScrapeStage' /\ AwaitedWasAsked'
  BY DEF IInv, TaskInv, ScrapeStage, AwaitedWasAsked, scrapeVars
<1>4. ServingHolds' /\ OutstandingIsAwaited' /\ OnePlacePerTask'
  BY DEF IInv, TaskInv, scrapeVars, ServingHolds, OutstandingIsAwaited,
     OnePlacePerTask, Outstanding, HoldsSender
<1>. QED  BY <1>1, <1>2, <1>3, <1>4 DEF TaskInv

\* The types of what start-up and the connections use.
UsersOK ==
  listed \in SUBSET Uids /\ found \in SUBSET Uids /\ stalled \in SUBSET (Scopes \X Nat)

\* Between two scrapes, the types of all variables from those that may change.
LEMMA CoordType ==
  ASSUME IInv, LogindTypeOK', ManagerTypeOK', HandlerTypeOK', UNCHANGED scrapeVars,
         pc' \in Stages, UsersOK'
  PROVE  TypeOK'
  BY DEF IInv, TypeOK, UsersOK, scrapeVars

\* logind's, the tasks' and the handlers' types when they do not move.
LEMMA SameTypes ==
  ASSUME IInv
  PROVE  /\ UNCHANGED logindVars => LogindTypeOK'
         /\ UNCHANGED managerVars => ManagerTypeOK'
         /\ UNCHANGED handlerVars => HandlerTypeOK'
<1>1. UNCHANGED logindVars => LogindTypeOK'
  BY DEF IInv, TypeOK, LogindTypeOK, logindVars, signalVars
<1>2. UNCHANGED managerVars => ManagerTypeOK'
  BY DEF IInv, TypeOK, ManagerTypeOK, managerVars
<1>3. UNCHANGED handlerVars => HandlerTypeOK'
  BY DEF IInv, TypeOK, HandlerTypeOK, handlerVars
<1>. QED  BY <1>1, <1>2, <1>3

\* Steps that only move the coordinator on.
LEMMA QuietCoordStep ==
  ASSUME IInv,
         \/ ListUsers \/ AllInspected \/ AllSpawned \/ InspectNew \/ Exit
         \/ ConnectFails \/ \E u \in Uids : InspectListed(u) /\ session[u] # "absent"
  PROVE  IInv'
<1> USE DEF ListUsers, AllInspected, AllSpawned, InspectNew, Exit, InspectListed,
            ConnectFails, Connecting, GoTo
<1>1. UNCHANGED <<managerVars, handlerVars, scrapeVars>>
  OBVIOUS
<1>2. pc # "scrape" /\ pc' # "scrape" /\ pc' \in Stages
  BY DEF Stages
<1>3. UsersOK'
  BY DEF IInv, TypeOK, UsersOK, userVars
<1>4. LogindTypeOK'
  <2>1. CASE ListUsers
    BY <2>1 DEF IInv, TypeOK, LogindTypeOK, signalVars
  <2>2. CASE UNCHANGED logindVars
    BY <2>2, SameTypes
  <2>. QED  BY <2>1, <2>2
<1>5. TypeOK'
  BY <1>1, <1>2, <1>3, <1>4, CoordType, SameTypes
<1>. QED  BY <1>1, <1>2, <1>5, CoordFrame DEF IInv

\* A call that gets no reply.
LEMMA StallStep ==
  ASSUME IInv, Stall
  PROVE  IInv'
<1>1. PICK b \in Scopes :
        stalled' = {<<b, IF b = System THEN 0 ELSE logins[b]>>}
  BY CoordinatorAssumption DEF Stall
<1>2. (IF b = System THEN 0 ELSE logins[b]) \in Nat
  BY <1>1 DEF IInv, TypeOK, LogindTypeOK, Scopes
<1>3. pc # "scrape" /\ pc' = pc /\ pc \in Stages
  BY DEF Stall, StartupCall, Connecting, IInv, TypeOK
<1>4. UsersOK'
  BY <1>1, <1>2 DEF Stall, IInv, TypeOK, UsersOK
<1>5. TypeOK'
  BY <1>3, <1>4, CoordType, SameTypes DEF Stall
<1>. QED  BY <1>3, <1>5, CoordFrame DEF Stall, IInv

\* Giving up: every sender is dropped.
LEMMA FailStep ==
  ASSUME IInv, pc # "scrape", Fail
  PROVE  IInv'
<1>1. ManagerTypeOK' /\ TaskInv'
  BY DropSenders DEF Fail
<1>2. HandlerTypeOK'
  <2>1. requests' \in Seq(Requests) /\ Len(requests') <= RequestCap
    BY HandlerAssumption DEF Fail
  <2>. QED  BY <2>1 DEF Fail, IInv, TypeOK, HandlerTypeOK
<1>3. LogindTypeOK'
  BY SameTypes DEF Fail
<1>4. pc' \in Stages /\ UsersOK'
  BY DEF Fail, Stages, IInv, TypeOK, UsersOK
<1>5. TypeOK'
  BY <1>1, <1>2, <1>3, <1>4, CoordType DEF Fail
<1>. QED  BY <1>1, <1>5 DEF IInv

\* Connecting to a user, with or without success.
LEMMA SpawnUserStep ==
  ASSUME IInv, NEW u \in Uids, SpawnUser(u),
         pc \in {"spawnListed", "spawnNew"}, pc' \in {"spawnListed", "select"}
  PROVE  IInv'
<1> USE DEF SpawnUser
<1>1. pc' \in Stages /\ UsersOK'
  BY DEF Stages, IInv, TypeOK, UsersOK
<1>2. LogindTypeOK' /\ HandlerTypeOK'
  BY SameTypes
<1>3. CASE UNCHANGED managerVars
  <2>1. TypeOK'
    BY <1>1, <1>2, <1>3, SameTypes, CoordType
  <2>. QED  BY <1>3, <2>1, CoordFrame DEF IInv
<1>4. CASE \E t \in Tasks : SpawnManager(t, u)
  <2>1. ManagerTypeOK' /\ TaskInv'
    <3>1. u \in Scopes
      BY DEF Scopes
    <3>. QED  BY <1>4, <3>1, SpawnStep
  <2>2. TypeOK'
    BY <1>1, <1>2, <2>1, CoordType
  <2>. QED  BY <2>1, <2>2 DEF IInv
<1>. QED  BY <1>3, <1>4

\* Spawning the system manager's task.
LEMMA StartStep ==
  ASSUME IInv, Start
  PROVE  IInv'
<1>1. ManagerTypeOK' /\ TaskInv'
  <2>1. System \in Scopes
    BY DEF Scopes
  <2>2. PICK t \in Tasks : SpawnManager(t, System)
    BY DEF Start
  <2>3. pc # "scrape" /\ pc' # "scrape" /\ UNCHANGED scrapeVars
    BY DEF Start, GoTo
  <2>. QED  BY <2>1, <2>2, <2>3, SpawnStep
<1>2. pc' \in Stages /\ UsersOK'
  BY DEF Start, GoTo, Stages, IInv, TypeOK, UsersOK, userVars
<1>3. TypeOK'
  BY <1>1, <1>2, SameTypes, CoordType DEF Start
<1>. QED  BY <1>1, <1>3 DEF IInv

\* Opening a signal stream.
LEMMA SubscribeStep ==
  ASSUME IInv, SubscribeNew \/ SubscribeRemoved
  PROVE  IInv'
<1> USE DEF SubscribeNew, SubscribeRemoved, GoTo
<1>1. UNCHANGED <<managerVars, handlerVars, scrapeVars>>
  OBVIOUS
<1>2. pc # "scrape" /\ pc' # "scrape" /\ pc' \in Stages
  BY DEF Stages
<1>3. LogindTypeOK' /\ UsersOK'
  BY DEF IInv, TypeOK, LogindTypeOK, UsersOK, userVars
<1>4. TypeOK'
  BY <1>1, <1>2, <1>3, CoordType, SameTypes
<1>. QED  BY <1>1, <1>2, <1>4, CoordFrame DEF IInv

\* Taking a UserNew signal.
LEMMA TakeUserNewStep ==
  ASSUME IInv, TakeUserNew
  PROVE  IInv'
<1> USE DEF TakeUserNew, GoTo
<1>1. UNCHANGED <<managerVars, handlerVars, scrapeVars>>
  OBVIOUS
<1>2. pc # "scrape" /\ pc' # "scrape" /\ pc' \in Stages
  BY DEF Stages
<1>3. Head(userNew) \in Uids /\ Tail(userNew) \in Seq(Uids)
  BY TailToSet DEF IInv, TypeOK, LogindTypeOK
<1>4. LogindTypeOK' /\ UsersOK'
  BY <1>3 DEF IInv, TypeOK, LogindTypeOK, signalVars, UsersOK
<1>5. TypeOK'
  BY <1>1, <1>2, <1>4, CoordType, SameTypes
<1>. QED  BY <1>1, <1>2, <1>5, CoordFrame DEF IInv

\* Taking a UserRemoved signal.
LEMMA TakeUserRemovedStep ==
  ASSUME IInv, TakeUserRemoved
  PROVE  IInv'
<1> USE DEF TakeUserRemoved
<1>1. Head(userRemoved) \in Uids /\ Tail(userRemoved) \in Seq(Uids)
  BY TailToSet DEF IInv, TypeOK, LogindTypeOK
<1>2. UNCHANGED <<handlerVars, pc, listed, userVars, scrapeVars>>
  BY DEF coordVars
<1>3. ManagerTypeOK' /\ TaskInv'
  <2>1. senders' \in [Scopes -> Tasks \union {NoTask}]
    BY DEF IInv, TypeOK, ManagerTypeOK
  <2>2. \A s \in Scopes : senders'[s] # NoTask => senders'[s] = senders[s]
    BY DEF IInv, TypeOK, ManagerTypeOK
  <2>3. pc # "scrape" /\ pc' # "scrape"
    BY <1>2
  <2>. QED  BY <1>2, <2>1, <2>2, <2>3, DropSenders
<1>4. LogindTypeOK'
  BY <1>1 DEF IInv, TypeOK, LogindTypeOK, signalVars
<1>5. TypeOK'
  BY <1>2, <1>3, <1>4, SameTypes, CoordType DEF IInv, TypeOK, UsersOK, userVars
<1>. QED  BY <1>3, <1>5 DEF IInv

-----------------------------------------------------------------------------
(* The steps of handle_scrape_request.                                     *)

\* A scrape begins with nothing on its way through any task.
LEMMA TakeRequestStep ==
  ASSUME IInv, TakeRequest
  PROVE  IInv'
<1> USE DEF TakeRequest, GoTo
<1>1. /\ Head(requests) \in Requests /\ Tail(requests) \in Seq(Requests)
      /\ Len(Tail(requests)) <= RequestCap
  <2>1. /\ Head(requests) \in Requests /\ Tail(requests) \in Seq(Requests)
        /\ Len(Tail(requests)) = Len(requests) - 1
    BY TailToSet DEF IInv, TypeOK, HandlerTypeOK
  <2>2. Len(requests) \in Nat /\ Len(requests) <= RequestCap /\ RequestCap \in Nat
    BY HandlerAssumption DEF IInv, TypeOK, HandlerTypeOK
  <2>. QED  BY <2>1, <2>2
<1>2. HandlerTypeOK'
  BY <1>1 DEF IInv, TypeOK, HandlerTypeOK
<1>3. pc' \in Stages /\ cur' \in Requests /\ pending' \in SUBSET Scopes
  BY <1>1 DEF Stages
<1>4. TypeOK'
  BY <1>2, <1>3, SameTypes DEF IInv, TypeOK, userVars
<1>5. ServingHolds' /\ SendersOwnScope'
  BY DEF IInv, TaskInv, ServingHolds, SendersOwnScope, managerVars
<1>6. ScrapeStage'
  BY <1>3 DEF ScrapeStage, managerVars
<1>7. AwaitedWasAsked'
  BY DEF IInv, TaskInv, ScrapeStage, AwaitedWasAsked
<1>8. OutstandingIsAwaited' /\ OnePlacePerTask'
  <2>1. \A t \in Tasks, r \in Requests : ~Outstanding(t, r)'
    BY NothingOutstanding DEF Outstanding, HoldsSender, managerVars
  <2>2. OnePlacePerTask'
    BY DEF IInv, TaskInv, OnePlacePerTask, managerVars
  <2>. QED  BY <2>1, <2>2 DEF OutstandingIsAwaited
<1>. QED  BY <1>4, <1>5, <1>6, <1>7, <1>8 DEF IInv, TaskInv

\* A registered task that is still to be asked has nothing on its way.
LEMMA PendingIsIdle ==
  ASSUME IInv, pc = "scrape", NEW s \in pending
  PROVE  /\ senders[s] \in Tasks /\ scopeOf[senders[s]] = s
         /\ phase[senders[s]] # "unborn"
         /\ inbox[senders[s]] = <<>> /\ inHand[senders[s]] = NoRequest
         /\ \A r \in Requests : <<senders[s], r>> \notin answers
<1> DEFINE t == senders[s]
<1>1. s \in Scopes /\ t \in Tasks /\ scopeOf[t] = s /\ phase[t] # "unborn"
  BY DEF IInv, TypeOK, ManagerTypeOK, TaskInv, ScrapeStage, SendersOwnScope
<1>2. t \notin awaiting
  BY <1>1 DEF IInv, TaskInv, AwaitedWasAsked
<1>3. \A r \in Requests : ~Outstanding(t, r)
  BY <1>1, <1>2 DEF IInv, TaskInv, OutstandingIsAwaited
<1>4. inbox[t] = <<>>
  <2> SUFFICES ASSUME inbox[t] # <<>> PROVE FALSE
    OBVIOUS
  <2>1. Head(inbox[t]) \in Requests /\ Head(inbox[t]) \in ToSet(inbox[t])
    BY <1>1, TailToSet DEF IInv, TypeOK, ManagerTypeOK
  <2>. QED  BY <1>3, <2>1 DEF Outstanding, HoldsSender
<1>5. inHand[t] = NoRequest
  BY <1>1, <1>3 DEF Outstanding, HoldsSender, IInv, TypeOK, ManagerTypeOK
<1>. QED  BY <1>1, <1>3, <1>4, <1>5 DEF Outstanding

\* Asking one manager.
LEMMA FanOutStep ==
  ASSUME IInv, NEW s \in Scopes, FanOut(s)
  PROVE  IInv'
<1> DEFINE t == senders[s]
<1> USE DEF FanOut
<1>1. /\ t \in Tasks /\ scopeOf[t] = s /\ phase[t] # "unborn"
      /\ inbox[t] = <<>> /\ inHand[t] = NoRequest
      /\ \A r \in Requests : <<t, r>> \notin answers
  BY PendingIsIdle
<1>2. cur \in Requests /\ cur # NoRequest
  BY IdentityAssumption DEF IInv, TaskInv, ScrapeStage
<1>3. UNCHANGED <<senders, phase, scopeOf, inHand, answers, stuck, pc, cur, got>>
      /\ pending' = pending \ {s}
  OBVIOUS
<1>4. \/ UNCHANGED <<inbox, awaiting>>
      \/ inbox' = [inbox EXCEPT ![t] = <<cur>>] /\ awaiting' = awaiting \union {t}
  BY <1>1
<1>5. TypeOK'
  <2>1. inbox' \in [Tasks -> Seq(Requests)]
    <3>1. <<cur>> \in Seq(Requests)
      BY <1>2
    <3>. QED  BY <1>4, <3>1 DEF IInv, TypeOK, ManagerTypeOK
  <2>2. ManagerTypeOK'
    BY <2>1 DEF IInv, TypeOK, ManagerTypeOK
  <2>3. awaiting' \in SUBSET Tasks /\ pending' \in SUBSET Scopes
    BY <1>1, <1>3, <1>4 DEF IInv, TypeOK
  <2>. QED  BY <2>2, <2>3, SameTypes DEF IInv, TypeOK, userVars
<1>6. ServingHolds' /\ SendersOwnScope'
  BY <1>3 DEF IInv, TaskInv, ServingHolds, SendersOwnScope
<1>7. ScrapeStage'
  BY <1>2, <1>3 DEF IInv, TaskInv, ScrapeStage
<1>8. AwaitedWasAsked'
  BY <1>1, <1>3, <1>4 DEF IInv, TaskInv, AwaitedWasAsked
<1>9. OutstandingIsAwaited'
  <2> SUFFICES ASSUME NEW x \in Tasks, NEW r \in Requests, Outstanding(x, r)'
               PROVE  x \in awaiting' /\ r = cur
    BY <1>3 DEF OutstandingIsAwaited
  <2>1. CASE inbox' = inbox
    BY <1>3, <1>4, <2>1 DEF Outstanding, HoldsSender, IInv, TaskInv, OutstandingIsAwaited
  <2>2. CASE inbox' # inbox /\ x = t
    <3>1. inbox'[x] = <<cur>> /\ x \in awaiting'
      BY <1>4, <2>2 DEF IInv, TypeOK, ManagerTypeOK
    <3>2. ToSet(<<cur>>) = {cur}
      BY DEF ToSet
    <3>3. inHand'[x] # r /\ <<x, r>> \notin answers'
      BY <1>1, <1>3, <2>2, IdentityAssumption
    <3>. QED  BY <3>1, <3>2, <3>3 DEF Outstanding, HoldsSender
  <2>3. CASE inbox' # inbox /\ x # t
    <3>1. inbox'[x] = inbox[x]
      BY <1>4, <2>3 DEF IInv, TypeOK, ManagerTypeOK
    <3>. QED
      BY <1>3, <1>4, <3>1 DEF Outstanding, HoldsSender, IInv, TaskInv, OutstandingIsAwaited
  <2>. QED  BY <2>1, <2>2, <2>3
<1>10. OnePlacePerTask'
  <2> SUFFICES ASSUME NEW x \in Tasks
               PROVE  /\ Len(inbox'[x]) <= 1
                      /\ inHand[x] # NoRequest => inbox'[x] = <<>>
                      /\ \A r \in Requests : <<x, r>> \in answers =>
                           inbox'[x] = <<>> /\ inHand[x] = NoRequest
    BY <1>3 DEF OnePlacePerTask
  <2>1. CASE inbox'[x] = inbox[x]
    BY <2>1 DEF IInv, TaskInv, OnePlacePerTask
  <2>2. CASE inbox'[x] # inbox[x]
    <3>1. x = t /\ inbox'[x] = <<cur>>
      BY <1>4, <2>2 DEF IInv, TypeOK, ManagerTypeOK
    <3>2. Len(<<cur>>) = 1
      OBVIOUS
    <3>. QED  BY <1>1, <3>1, <3>2
  <2>. QED  BY <2>1, <2>2
<1>. QED  BY <1>5, <1>6, <1>7, <1>8, <1>9, <1>10 DEF IInv, TaskInv

\* Receiving one reply, or learning that there will be none.
LEMMA CollectStep ==
  ASSUME IInv, NEW t \in Tasks, Collect(t)
  PROVE  IInv'
<1> USE DEF Collect
<1>1. /\ UNCHANGED <<senders, phase, scopeOf, inbox, inHand, pc, cur, pending>>
      /\ awaiting' = awaiting \ {t} /\ answers' \subseteq answers
      /\ got' \subseteq got \union {t}
  OBVIOUS
<1>2. TypeOK'
  <2>1. ManagerTypeOK'
    BY <1>1 DEF IInv, TypeOK, ManagerTypeOK
  <2>2. awaiting' \in SUBSET Tasks /\ got' \in SUBSET Tasks
    BY <1>1 DEF IInv, TypeOK
  <2>. QED  BY <2>1, <2>2, SameTypes DEF IInv, TypeOK, userVars
<1>3. ServingHolds' /\ SendersOwnScope' /\ ScrapeStage' /\ AwaitedWasAsked'
  BY <1>1 DEF IInv, TaskInv, ServingHolds, SendersOwnScope, ScrapeStage, AwaitedWasAsked
<1>4. OutstandingIsAwaited'
  <2>1. \A r \in Requests : ~Outstanding(t, r)'
    <3> SUFFICES ASSUME NEW r \in Requests, Outstanding(t, r)'
                 PROVE  FALSE
      OBVIOUS
    <3>1. Outstanding(t, r)
      BY <1>1 DEF Outstanding, HoldsSender
    <3>2. r = cur
      BY <3>1 DEF IInv, TaskInv, OutstandingIsAwaited
    <3>3. CASE <<t, cur>> \in answers
      <4>1. <<t, cur>> \notin answers'
        BY <3>3
      <4>2. inbox[t] = <<>> /\ inHand[t] = NoRequest
        BY <3>2, <3>3 DEF IInv, TaskInv, OnePlacePerTask
      <4>3. ~HoldsSender(t, r)'
        BY <1>1, <4>2, EmptyToSet, IdentityAssumption DEF HoldsSender
      <4>. QED  BY <3>2, <4>1, <4>3 DEF Outstanding
    <3>4. CASE <<t, cur>> \notin answers
      BY <1>1, <3>1, <3>2, <3>4 DEF Outstanding
    <3>. QED  BY <3>3, <3>4
  <2>2. \A x \in Tasks, r \in Requests : Outstanding(x, r)' => Outstanding(x, r)
    BY <1>1 DEF Outstanding, HoldsSender
  <2>. QED  BY <1>1, <2>1, <2>2 DEF IInv, TaskInv, OutstandingIsAwaited
<1>5. OnePlacePerTask'
  BY <1>1 DEF IInv, TaskInv, OnePlacePerTask
<1>. QED  BY <1>2, <1>3, <1>4, <1>5 DEF IInv, TaskInv

\* Replying: every task has answered or ended.
LEMMA RespondStep ==
  ASSUME IInv, Respond
  PROVE  IInv'
<1> USE DEF Respond, GoTo
<1>1. cur \in Requests /\ \A t \in Tasks, r \in Requests : ~Outstanding(t, r)
  BY DEF IInv, TaskInv, ScrapeStage, OutstandingIsAwaited
<1>2. HandlerTypeOK'
  BY <1>1 DEF IInv, TypeOK, HandlerTypeOK
<1>3. TypeOK'
  BY <1>2, SameTypes DEF IInv, TypeOK, Stages, userVars
<1>4. ServingHolds' /\ SendersOwnScope' /\ ScrapeStage' /\ AwaitedWasAsked'
  BY DEF IInv, TaskInv, ServingHolds, SendersOwnScope, ScrapeStage, AwaitedWasAsked,
     managerVars
<1>5. OutstandingIsAwaited'
  BY <1>1 DEF OutstandingIsAwaited, Outstanding, HoldsSender, managerVars
<1>6. OnePlacePerTask'
  BY DEF IInv, TaskInv, OnePlacePerTask, managerVars
<1>. QED  BY <1>3, <1>4, <1>5, <1>6 DEF IInv, TaskInv

-----------------------------------------------------------------------------
(* The theorems of the scrape path.                                        *)

\* A step of the coordinator preserves the invariant.
LEMMA CoordinatorStep ==
  ASSUME IInv, CoordinatorNext
  PROVE  IInv'
<1>1. CASE Start
  BY <1>1, StartStep
<1>2. CASE ListUsers \/ AllInspected \/ AllSpawned \/ InspectNew \/ Exit \/ ConnectFails
  BY <1>2, QuietCoordStep
<1>3. CASE \E u \in Uids : InspectListed(u)
  <2>1. PICK u \in Uids : InspectListed(u)
    BY <1>3
  <2>2. CASE session[u] # "absent"
    BY <2>1, <2>2, QuietCoordStep
  <2>3. CASE session[u] = "absent"
    <3>1. pc # "scrape" /\ Fail
      BY <2>1, <2>3 DEF InspectListed
    <3>. QED  BY <3>1, FailStep
  <2>. QED  BY <2>2, <2>3
<1>4. CASE \E u \in Uids : SpawnListed(u)
  <2>1. PICK u \in Uids : SpawnListed(u)
    BY <1>4
  <2>. QED  BY <2>1, SpawnUserStep DEF SpawnListed
<1>5. CASE SpawnNew
  <2>1. PICK u \in found : SpawnUser(u)
    BY <1>5 DEF SpawnNew
  <2>2. u \in Uids
    BY <2>1 DEF IInv, TypeOK
  <2>. QED  BY <1>5, <2>1, <2>2, SpawnUserStep DEF SpawnNew, GoTo
<1>6. CASE SubscribeNew \/ SubscribeRemoved
  BY <1>6, SubscribeStep
<1>7. CASE \E s \in Scopes : FanOut(s)
  BY <1>7, FanOutStep
<1>8. CASE \E t \in Tasks : Collect(t)
  BY <1>8, CollectStep
<1>9. CASE Respond
  BY <1>9, RespondStep
<1>10. CASE SelectArm
  BY <1>10, TakeRequestStep, TakeUserNewStep, TakeUserRemovedStep DEF SelectArm
<1>11. CASE StartupError \/ RestorePanics
  BY <1>11, FailStep DEF StartupError, StartupCall, RestorePanics, Connecting
<1>12. CASE Stall
  BY <1>12, StallStep
<1>. QED
  BY <1>1, <1>2, <1>3, <1>4, <1>5, <1>6, <1>7, <1>8, <1>9, <1>10, <1>11, <1>12
  DEF CoordinatorNext, Advance

\* Every step preserves the invariant.
LEMMA NextIInv == IInv /\ [Next]_vars => IInv'
<1> SUFFICES ASSUME IInv, [Next]_vars PROVE IInv'
  OBVIOUS
<1>1. CASE CoordinatorNext
  BY <1>1, CoordinatorStep
<1>2. CASE OfManager(ManagerNext)
  BY <1>2, ManagerStep
<1>3. CASE OfHandler(HandlerNext)
  BY <1>3, HandlerStepOK
<1>4. CASE OfLogind(LogindNext)
  BY <1>4, LogindStep
<1>5. CASE UNCHANGED vars
  <2>1. UNCHANGED <<logindVars, managerVars, handlerVars, coordVars>>
    BY <1>5 DEF vars
  <2>2. TypeOK'
    BY <2>1, SameTypes, CoordType DEF IInv, TypeOK, coordVars, userVars, UsersOK
  <2>. QED  BY <2>1, <2>2, TaskInvFrame DEF IInv
<1>. QED  BY <1>1, <1>2, <1>3, <1>4, <1>5 DEF Next, Quiescent

\* The exporter always satisfies the inductive invariant.
THEOREM Invariance == Spec => []IInv
<1>1. Init => IInv
  BY InitIInv
<1>2. IInv /\ [Next]_vars => IInv'
  BY NextIInv
<1>. QED  BY <1>1, <1>2, PTL DEF Spec

\* Every variable keeps its type; in particular the request channel never holds
\* more than its capacity (cli.rs:125, router.rs:18).
THEOREM TypeCorrect == Spec => []TypeOK
<1>1. IInv => TypeOK
  BY DEF IInv
<1>. QED  BY <1>1, Invariance, PTL

\* At any time at most one scrape request is on its way through a manager task,
\* whatever tasks end, are replaced or unregistered meanwhile: the sequential
\* handle_scrape_request (coordinator.rs:61-76) never waits for room in a
\* manager's channel.
THEOREM OneOutstanding == Spec => []OneOutstandingRequest
<1>1. IInv => OneOutstandingRequest
  <2> SUFFICES ASSUME IInv, NEW t \in Tasks
               PROVE  Len(inbox[t]) + (IF inHand[t] = NoRequest THEN 0 ELSE 1) <= 1
    BY DEF OneOutstandingRequest
  <2>1. Len(inbox[t]) \in Nat /\ Len(inbox[t]) <= 1
    BY DEF IInv, TypeOK, ManagerTypeOK, TaskInv, OnePlacePerTask
  <2>2. CASE inHand[t] = NoRequest
    BY <2>1, <2>2
  <2>3. CASE inHand[t] # NoRequest
    <3>1. inbox[t] = <<>>
      BY <2>3 DEF IInv, TaskInv, OnePlacePerTask
    <3>2. Len(inbox[t]) = 0
      BY <3>1, EmptyToSet, Zenon
    <3>. QED  BY <2>3, <3>2
  <2>. QED  BY <2>2, <2>3
<1>. QED  BY <1>1, Invariance, PTL

=============================================================================
