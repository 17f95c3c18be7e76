---------------------------- MODULE ServiceProofs ----------------------------
(***************************************************************************)
(* Proofs about the scrape path of Coordinator: no request is lost or      *)
(* doubled, and the coordinator with its tasks and handlers implements     *)
(* ScrapeService.  They rest on the invariant of CoordinatorProofs.        *)
(***************************************************************************)
EXTENDS CoordinatorProofs

-----------------------------------------------------------------------------
(* Requests.                                                               *)

\* A request that was not sent yet is nowhere.
UnsentIsNowhere ==
  \A r \in Requests : status[r] \in {"idle", "sending"} =>
    r \notin ToSet(requests) /\ r # cur /\ r \notin replied

RequestInv == EachRequestInOnePlace /\ UnsentIsNowhere

\* Sending a request that is not in the channel keeps the channel injective.
LEMMA SendInjective ==
  ASSUME NEW S, NEW q \in Seq(S), NEW x \in S, IsInjective(q), x \notin ToSet(q)
  PROVE  IsInjective(Append(q, x))
<1>1. /\ Len(q) \in Nat
      /\ DOMAIN q = 1 .. Len(q) /\ DOMAIN Append(q, x) = 1 .. (Len(q) + 1)
      /\ Append(q, x)[Len(q) + 1] = x
      /\ \A i \in 1 .. Len(q) : Append(q, x)[i] = q[i]
  OBVIOUS
<1>2. \A i \in 1 .. Len(q) : q[i] # x
  BY <1>1 DEF ToSet
<1>3. ASSUME NEW i \in 1 .. (Len(q) + 1), NEW j \in 1 .. (Len(q) + 1),
             Append(q, x)[i] = Append(q, x)[j]
      PROVE  i = j
  <2>1. CASE i \in 1 .. Len(q) /\ j \in 1 .. Len(q)
    BY <1>1, <1>3, <2>1 DEF IsInjective
  <2>2. CASE i \notin 1 .. Len(q) \/ j \notin 1 .. Len(q)
    <3>1. i = Len(q) + 1 \/ j = Len(q) + 1
      BY <1>1, <2>2
    <3>. QED  BY <1>1, <1>2, <1>3, <3>1
  <2>. QED  BY <2>1, <2>2
<1>. QED  BY <1>1, <1>3 DEF IsInjective

\* So does taking the first one, which is then not in the channel any more.
LEMMA RecvInjective ==
  ASSUME NEW S, NEW q \in Seq(S), q # <<>>, IsInjective(q)
  PROVE  IsInjective(Tail(q)) /\ Head(q) \notin ToSet(Tail(q))
<1>1. /\ Len(q) \in Nat /\ Len(q) > 0
      /\ DOMAIN q = 1 .. Len(q) /\ DOMAIN Tail(q) = 1 .. (Len(q) - 1)
      /\ Head(q) = q[1]
      /\ \A i \in 1 .. (Len(q) - 1) : Tail(q)[i] = q[i + 1]
  <2>1. Len(q) \in Nat /\ Len(q) > 0 /\ Head(q) = q[1] /\ DOMAIN q = 1 .. Len(q)
    OBVIOUS
  <2>2. Tail(q) \in Seq(S) /\ Len(Tail(q)) = Len(q) - 1
    OBVIOUS
  <2>3. DOMAIN Tail(q) = 1 .. (Len(q) - 1)
    BY <2>2
  <2>4. \A i \in 1 .. (Len(q) - 1) : Tail(q)[i] = q[i + 1]
    OBVIOUS
  <2>. QED  BY <2>1, <2>3, <2>4
<1>2. IsInjective(Tail(q))
  <2> SUFFICES ASSUME NEW i \in 1 .. (Len(q) - 1), NEW j \in 1 .. (Len(q) - 1),
                      Tail(q)[i] = Tail(q)[j]
               PROVE  i = j
    BY <1>1 DEF IsInjective
  <2>1. i + 1 \in 1 .. Len(q) /\ j + 1 \in 1 .. Len(q) /\ q[i + 1] = q[j + 1]
    BY <1>1
  <2>2. i + 1 = j + 1
    BY <1>1, <2>1 DEF IsInjective
  <2>. QED  BY <2>2
<1>3. ASSUME NEW i \in 1 .. (Len(q) - 1), Tail(q)[i] = Head(q)
      PROVE  FALSE
  <2>1. i + 1 \in 1 .. Len(q) /\ 1 \in 1 .. Len(q) /\ q[i + 1] = q[1]
    BY <1>1, <1>3
  <2>2. i + 1 = 1
    BY <1>1, <2>1 DEF IsInjective
  <2>. QED  BY <2>2
<1>. QED  BY <1>1, <1>2, <1>3 DEF ToSet

\* The steps of the handlers.
LEMMA RequestHandler ==
  ASSUME IInv, RequestInv, OfHandler(HandlerNext)
  PROVE  RequestInv'
<1> USE DEF RequestInv, EachRequestInOnePlace, UnsentIsNowhere
<1>1. cur' = cur /\ status \in [Requests -> HandlerStates] /\ requests \in Seq(Requests)
  BY DEF OfHandler, coordVars, userVars, scrapeVars, IInv, TypeOK, HandlerTypeOK
<1>2. PICK r \in Requests : Arrive(r) \/ HandlerStep(r) \/ Disconnect(r)
  BY DEF OfHandler, HandlerNext
<1>3. CASE Send(r)
  <2>1. ToSet(requests') = ToSet(requests) \union {r}
    BY <1>1, <1>3, AppendToSet DEF Send
  <2>2. r \notin ToSet(requests) /\ r # cur /\ r \notin replied
    BY <1>3 DEF Send
  <2>3. IsInjective(requests')
    <3>1. IsInjective(requests)
      BY DEF IsInjective
    <3>2. requests' = Append(requests, r)
      BY <1>3 DEF Send
    <3>3. IsInjective(Append(requests, r))
      <4> HIDE DEF RequestInv, EachRequestInOnePlace, UnsentIsNowhere
      <4>. QED  BY <1>1, <2>2, <3>1, SendInjective DEF IsInjective
    <3>. QED  BY <3>2, <3>3 DEF IsInjective
  <2>4. status' = [status EXCEPT ![r] = "waiting"] /\ UNCHANGED <<receiverOpen, replied>>
    BY <1>3 DEF Send
  <2>. QED  BY <1>1, <2>1, <2>2, <2>3, <2>4 DEF IsInjective
<1>4. CASE Arrive(r) \/ ReceiveReply(r) \/ ChannelError(r) \/ Disconnect(r)
  <2>1. /\ UNCHANGED <<requests, receiverOpen, replied>>
        /\ \A q \in Requests \ {r} : status'[q] = status[q]
    BY <1>1, <1>4 DEF Arrive, ReceiveReply, ChannelError, Disconnect
  <2>2. \/ status[r] = "idle" /\ status'[r] = "sending"
        \/ status'[r] \in Outcomes
    BY <1>1, <1>4 DEF Arrive, ReceiveReply, ChannelError, Disconnect, Outcomes
  <2>. QED  BY <1>1, <2>1, <2>2 DEF Outcomes
<1>. QED  BY <1>2, <1>3, <1>4 DEF HandlerStep

\* The steps of the coordinator.
LEMMA RequestCoordinator ==
  ASSUME IInv, RequestInv, CoordinatorNext
  PROVE  RequestInv'
<1> USE DEF RequestInv, EachRequestInOnePlace, UnsentIsNowhere
<1>1. /\ requests \in Seq(Requests) /\ replied \subseteq Requests
      /\ NoRequest \notin Requests /\ NoRequest \notin replied
      /\ ToSet(requests) \subseteq Requests
  <2>1. requests \in Seq(Requests) /\ replied \subseteq Requests
    BY DEF IInv, TypeOK, HandlerTypeOK
  <2>. QED  BY <2>1, IdentityAssumption DEF ToSet
<1>2. CASE TakeRequest
  <2>1. requests # <<>> /\ requests' = Tail(requests) /\ cur' = Head(requests)
        /\ UNCHANGED <<status, receiverOpen, replied>>
    BY <1>2 DEF TakeRequest
  <2>2. cur = NoRequest
    BY <1>2 DEF TakeRequest, GoTo, IInv, TaskInv, ScrapeStage
  <2>3. IsInjective(requests') /\ cur' \notin ToSet(requests')
    BY <1>1, <2>1, RecvInjective DEF IsInjective
  <2>4. ToSet(requests) = {cur'} \union ToSet(requests')
    BY <1>1, <2>1, TailToSet
  <2>. QED  BY <1>1, <2>1, <2>2, <2>3, <2>4 DEF IsInjective
<1>3. CASE Respond
  <2>1. cur' = NoRequest /\ UNCHANGED <<status, requests, receiverOpen>>
    BY <1>3 DEF Respond
  <2>2. replied' = IF status[cur] = "waiting" THEN replied \union {cur} ELSE replied
    BY <1>3 DEF Respond
  <2>3. cur \in Requests
    BY <1>3 DEF Respond, GoTo, IInv, TaskInv, ScrapeStage
  <2>. QED  BY <1>1, <2>1, <2>2, <2>3
<1>4. CASE Fail
  <2>1. requests' = <<>> /\ receiverOpen' = FALSE /\ UNCHANGED <<cur, status, replied>>
    BY <1>4 DEF Fail, scrapeVars
  <2>2. ToSet(requests') = {} /\ DOMAIN requests' = {}
    BY <2>1, EmptyToSet
  <2>. QED  BY <2>1, <2>2
<1>5. ASSUME UNCHANGED <<status, requests, receiverOpen, replied, cur>>
      PROVE  RequestInv'
  BY <1>5
<1>6. CASE \/ Start \/ ListUsers \/ AllInspected \/ AllSpawned \/ InspectNew \/ Exit \/ Stall
           \/ ConnectFails \/ SubscribeNew \/ SubscribeRemoved \/ TakeUserNew \/ TakeUserRemoved
           \/ \E s \in Scopes : FanOut(s)
           \/ \E t \in Tasks : Collect(t)
           \/ \E u \in Uids : InspectListed(u) /\ ~Fail
           \/ \E u \in Uids : SpawnUser(u)
  BY <1>5, <1>6 DEF Start, ListUsers, AllInspected, AllSpawned, InspectNew, Exit,
     Stall, ConnectFails,
     SubscribeNew, SubscribeRemoved, TakeUserNew, TakeUserRemoved, FanOut, Collect,
     InspectListed, SpawnUser, handlerVars, coordVars, userVars, scrapeVars
<1>. QED
  BY <1>2, <1>3, <1>4, <1>6
  DEF CoordinatorNext, Advance, SelectArm, StartupError, RestorePanics,
      SpawnListed, SpawnNew, IInv, TypeOK

\* Every step keeps each request in one place.
LEMMA RequestStep ==
  ASSUME IInv, RequestInv, [Next]_vars
  PROVE  RequestInv'
<1>1. CASE OfManager(ManagerNext) \/ OfLogind(LogindNext) \/ UNCHANGED vars
  BY <1>1 DEF OfManager, OfLogind, vars, handlerVars, coordVars, userVars, scrapeVars, RequestInv,
     EachRequestInOnePlace, UnsentIsNowhere
<1>. QED
  BY <1>1, RequestHandler, RequestCoordinator DEF Next, Quiescent

\* Nothing was asked when the exporter starts.
LEMMA RequestInit == Init => RequestInv
<1> SUFFICES ASSUME Init PROVE RequestInv
  OBVIOUS
<1>1. /\ requests = <<>> /\ replied = {} /\ cur = NoRequest
      /\ \A r \in Requests : status[r] = "idle"
  BY DEF Init, HandlerInit
<1>2. ToSet(requests) = {} /\ DOMAIN requests = {}
  BY <1>1, EmptyToSet
<1>. QED
  BY <1>1, <1>2, IdentityAssumption DEF RequestInv, EachRequestInOnePlace, UnsentIsNowhere

LEMMA RequestsAlways == Spec => []RequestInv
<1>1. IInv /\ RequestInv /\ [Next]_vars => RequestInv'
  BY RequestStep
<1>. QED  BY <1>1, RequestInit, Invariance, PTL DEF Spec

\* A request whose handler waits is in exactly one place, the channel, the
\* coordinator's hand or its oneshot, whatever handlers go away, for any number
\* of scrapers and any capacity (router.rs:17-35, coordinator.rs:61-76, 99).
THEOREM RequestsInOnePlace == Spec => []EachRequestInOnePlace
<1>1. RequestInv => EachRequestInOnePlace
  BY DEF RequestInv
<1>. QED  BY <1>1, RequestsAlways, PTL

-----------------------------------------------------------------------------
(* Refinement.                                                             *)

\* While a scrape is under way no manager is registered or unregistered; each
\* registered task is still to be asked, is waited for, has answered or has
\* ended; and what is waited for is on its way unless the task has ended.
SnapInv ==
  pc = "scrape" =>
    /\ \A t \in got \union awaiting : \E s \in Scopes : senders[s] = t
    /\ \A s \in Scopes : senders[s] # NoTask =>
         s \in pending \/ senders[s] \in got \union awaiting \union Dead
    /\ \A t \in awaiting : t \in Dead \/ Outstanding(t, cur)

\* A step of a task keeps its request on its way, or ends the task.
LEMMA TaskKeepsRequest ==
  ASSUME IInv, NEW t \in Tasks, NEW r \in Requests, Outstanding(t, r), t \notin Dead,
         ManagerNext
  PROVE  Outstanding(t, r)' \/ t \in Dead'
<1>1. PICK x \in Tasks :
        \/ Load(x) \/ DBusError(x) \/ Panic(x) \/ StreamsEnded(x)
        \/ TakeInbox(x) \/ Answer(x) \/ Hang(x)
  BY DEF ManagerNext
<1>2. /\ phase \in [Tasks -> Phases] /\ inbox \in [Tasks -> Seq(Requests)]
      /\ inHand \in [Tasks -> Requests \union {NoRequest}]
  BY DEF IInv, TypeOK, ManagerTypeOK
<1>3. CASE End(x)
  <2>1. CASE x = t
    BY <1>2, <1>3, <2>1 DEF End, Dead
  <2>2. CASE x # t
    BY <1>2, <1>3, <2>2 DEF End, Outstanding, HoldsSender
  <2>. QED  BY <2>1, <2>2
<1>4. CASE Load(x) \/ Hang(x)
  BY <1>4 DEF Load, Hang, Outstanding, HoldsSender
<1>5. CASE TakeInbox(x)
  <2>1. CASE x = t
    <3>1. inbox[t] \in Seq(Requests) /\ inbox[t] # <<>> /\ Len(inbox[t]) <= 1
          /\ inHand[t] = NoRequest
      BY <1>2, <1>5, <2>1 DEF TakeInbox, IInv, TaskInv, OnePlacePerTask
    <3>2. ToSet(inbox[t]) = {Head(inbox[t])}
      BY <3>1, SingleToSet
    <3>3. inHand'[t] = Head(inbox[t]) /\ answers' = answers
      BY <1>2, <1>5, <2>1 DEF TakeInbox
    <3>. QED  BY <3>1, <3>2, <3>3, IdentityAssumption DEF Outstanding, HoldsSender
  <2>2. CASE x # t
    BY <1>2, <1>5, <2>2 DEF TakeInbox, Outstanding, HoldsSender
  <2>. QED  BY <2>1, <2>2
<1>6. CASE Answer(x)
  <2>1. CASE inHand[t] = r /\ x = t
    BY <1>6, <2>1 DEF Answer, Outstanding
  <2>2. CASE inHand[t] # r \/ x # t
    BY <1>2, <1>6, <2>2 DEF Answer, Outstanding, HoldsSender
  <2>. QED  BY <2>1, <2>2
<1>. QED  BY <1>1, <1>3, <1>4, <1>5, <1>6 DEF DBusError, Panic, StreamsEnded

\* A task that has ended stays so, whatever another task does.
LEMMA DeadStaysDead ==
  ASSUME IInv, ManagerNext
  PROVE  Dead \subseteq Dead' /\ UNCHANGED senders
<1>1. PICK x \in Tasks :
        \/ Load(x) \/ DBusError(x) \/ Panic(x) \/ StreamsEnded(x)
        \/ TakeInbox(x) \/ Answer(x) \/ Hang(x)
  BY DEF ManagerNext
<1>. QED
  BY <1>1 DEF Dead, IInv, TypeOK, ManagerTypeOK, Load, DBusError, Panic, StreamsEnded,
     TakeInbox, Answer, Hang, End

\* The steps of the others preserve SnapInv.
LEMMA SnapOthers ==
  ASSUME IInv, SnapInv,
         OfManager(ManagerNext) \/ OfHandler(HandlerNext) \/ OfLogind(LogindNext)
  PROVE  SnapInv'
<1>1. UNCHANGED coordVars
  BY DEF OfManager, OfHandler, OfLogind
<1>2. CASE OfManager(ManagerNext)
  <2>1. Dead \subseteq Dead' /\ UNCHANGED senders
    BY <1>2, DeadStaysDead DEF OfManager
  <2>2. SUFFICES ASSUME pc = "scrape", NEW t \in awaiting, t \notin Dead
                 PROVE  t \in Dead' \/ Outstanding(t, cur)'
    BY <1>1, <2>1 DEF SnapInv, coordVars, userVars, scrapeVars
  <2>3. t \in Tasks /\ cur \in Requests /\ Outstanding(t, cur) /\ cur' = cur
    BY <1>1, <2>2 DEF IInv, TypeOK, TaskInv, ScrapeStage, SnapInv, coordVars, userVars, scrapeVars
  <2>4. \A r \in Requests : Outstanding(t, r) => Outstanding(t, r)' \/ t \in Dead'
    BY <1>2, <2>2, <2>3, TaskKeepsRequest DEF OfManager
  <2>. QED  BY <2>3, <2>4 DEF Outstanding, HoldsSender
<1>3. CASE UNCHANGED managerVars
  BY <1>1, <1>3 DEF SnapInv, Dead, Outstanding, HoldsSender, managerVars, coordVars, userVars, scrapeVars
<1>. QED  BY <1>2, <1>3 DEF OfHandler, OfLogind

\* The steps of the coordinator preserve SnapInv.
LEMMA SnapCoordinator ==
  ASSUME IInv, SnapInv, CoordinatorNext
  PROVE  SnapInv'
<1>1. CASE pc' # "scrape"
  BY <1>1 DEF SnapInv
<1>2. CASE TakeRequest
  <2>1. pending' = {s \in Scopes : senders[s] # NoTask} /\ UNCHANGED <<senders, awaiting, got>>
    BY <1>2 DEF TakeRequest, managerVars
  <2>2. awaiting = {} /\ got = {}
    BY <1>2 DEF TakeRequest, GoTo, IInv, TaskInv, ScrapeStage
  <2>. QED  BY <2>1, <2>2 DEF SnapInv
<1>3. ASSUME NEW s \in Scopes, FanOut(s)
      PROVE  SnapInv'
  <2> DEFINE t == senders[s]
  <2>1. /\ UNCHANGED <<senders, phase, inHand, answers, pc, cur, got>>
        /\ pending' = pending \ {s} /\ pc = "scrape" /\ cur \in Requests
        /\ s \in pending /\ t \in Tasks
        /\ inbox \in [Tasks -> Seq(Requests)] /\ awaiting \subseteq Tasks
    BY <1>3 DEF FanOut, IInv, TypeOK, ManagerTypeOK, TaskInv, ScrapeStage
  <2>2. CASE phase[t] = "ended"
    BY <1>3, <2>1, <2>2 DEF FanOut, SnapInv, Dead, Outstanding, HoldsSender
  <2>3. CASE phase[t] # "ended"
    <3>1. awaiting' = awaiting \union {t} /\ inbox' = [inbox EXCEPT ![t] = Append(@, cur)]
      BY <1>3, <2>3 DEF FanOut
    <3>2. ToSet(inbox'[t]) = ToSet(inbox[t]) \union {cur}
      BY <2>1, <3>1, AppendToSet
    <3>3. \A x \in awaiting' : x \in Dead' \/ Outstanding(x, cur)'
      BY <2>1, <3>1, <3>2 DEF SnapInv, Dead, Outstanding, HoldsSender
    <3>. QED  BY <2>1, <3>1, <3>3 DEF SnapInv, Dead
  <2>. QED  BY <2>2, <2>3
<1>4. ASSUME NEW t \in Tasks, Collect(t)
      PROVE  SnapInv'
  <2>1. /\ UNCHANGED <<senders, phase, inbox, inHand, pc, cur, pending>>
        /\ awaiting' = awaiting \ {t} /\ pc = "scrape" /\ t \in awaiting
    BY <1>4 DEF Collect
  <2>2. CASE got' = got \union {t} /\ answers' = answers \ {<<t, cur>>}
    BY <2>1, <2>2 DEF SnapInv, Dead, Outstanding, HoldsSender
  <2>3. CASE ~Outstanding(t, cur) /\ got' = got /\ answers' = answers
    BY <2>1, <2>3 DEF SnapInv, Dead, Outstanding, HoldsSender
  <2>. QED  BY <1>4, <2>2, <2>3 DEF Collect, Outstanding
<1>5. CASE pc # "scrape" /\ ~TakeRequest
  <2>1. pc' # "scrape"
    BY <1>5 DEF CoordinatorNext, Advance, SelectArm, StartupError, Start, ListUsers, AllInspected,
       AllSpawned, SubscribeNew, SubscribeRemoved, InspectListed, SpawnListed, InspectNew,
       SpawnNew, FanOut, Collect, Respond, Exit, TakeUserNew, TakeUserRemoved, Fail,
       Stall, ConnectFails, RestorePanics, GoTo, coordVars
  <2>. QED  BY <1>1, <2>1
<1>6. CASE pc = "scrape" /\ pc' = "scrape"
  <2>1. \/ \E s \in Scopes : FanOut(s)
        \/ \E t \in Tasks : Collect(t)
    BY <1>6 DEF CoordinatorNext, Advance, SelectArm, StartupError, Start, ListUsers, AllInspected,
       AllSpawned, SubscribeNew, SubscribeRemoved, InspectListed, SpawnListed, InspectNew,
       SpawnNew, Respond, Exit, TakeRequest, TakeUserNew, TakeUserRemoved,
       Stall, StartupCall, Connecting, ConnectFails, RestorePanics, GoTo
  <2>. QED  BY <1>3, <1>4, <2>1
<1>. QED  BY <1>1, <1>2, <1>5, <1>6

SnapshotInv == IInv /\ RequestInv /\ SnapInv

LEMMA SnapshotAlways == Spec => []SnapshotInv
<1>1. Init => SnapInv
  BY DEF Init, SnapInv
<1>2. IInv /\ SnapInv /\ [Next]_vars => SnapInv'
  <2> SUFFICES ASSUME IInv, SnapInv, [Next]_vars PROVE SnapInv'
    OBVIOUS
  <2>1. CASE UNCHANGED vars
    BY <2>1 DEF vars, managerVars, coordVars, userVars, scrapeVars, SnapInv, Dead, Outstanding,
       HoldsSender
  <2>. QED  BY <2>1, SnapOthers, SnapCoordinator DEF Next, Quiescent
<1>. QED  BY <1>1, <1>2, Invariance, RequestsAlways, PTL DEF Spec, SnapshotInv

-----------------------------------------------------------------------------
(* The steps as steps of ScrapeService.                                    *)

\* The cases of the mapping Asked, before and after a step.
LEMMA AskedCases ==
  ASSUME NEW r \in Requests
  PROVE  /\ r \in replied => Asked[r] = "served"
         /\ r \notin replied /\ status[r] \in {"sending", "waiting"} => Asked[r] = "pending"
         /\ r \notin replied /\ status[r] = "idle" => Asked[r] = "idle"
         /\ r \notin replied /\ status[r] \in Outcomes => Asked[r] = "dropped"
  BY DEF Asked, Outcomes

LEMMA AskedCasesNext ==
  ASSUME NEW r \in Requests
  PROVE  /\ r \in replied' => Asked'[r] = "served"
         /\ r \notin replied' /\ status'[r] \in {"sending", "waiting"} => Asked'[r] = "pending"
         /\ r \notin replied' /\ status'[r] = "idle" => Asked'[r] = "idle"
         /\ r \notin replied' /\ status'[r] \in Outcomes => Asked'[r] = "dropped"
  BY DEF Asked, Outcomes

\* A step that moves one request changes Asked there only.
LEMMA AskedElsewhere ==
  ASSUME NEW r \in Requests, NEW a, Asked'[r] = a,
         \A q \in Requests \ {r} : status'[q] = status[q] /\ (q \in replied' <=> q \in replied)
  PROVE  Asked' = [Asked EXCEPT ![r] = a]
<1>1. \A q \in Requests \ {r} : Asked'[q] = Asked[q]
  BY DEF Asked
<1>2. /\ Asked = [q \in Requests |-> Asked[q]]
      /\ Asked' = [q \in Requests |-> Asked'[q]]
  BY DEF Asked
<1>. QED  BY <1>1, <1>2

\* Nothing of what ScrapeService sees has changed.
LEMMA ServiceStutter ==
  ASSUME UNCHANGED <<status, replied, report, senders, Dead>>
  PROVE  UNCHANGED Service!serviceVars
  BY DEF Service!serviceVars, Asked

LEMMA ServiceInit == Init => Service!Init
<1> SUFFICES ASSUME Init PROVE Service!Init
  OBVIOUS
<1>1. \A r \in Requests : r \notin replied /\ status[r] = "idle"
  BY DEF Init, HandlerInit
<1>2. Asked = [r \in Requests |-> "idle"]
  BY <1>1 DEF Asked
<1>3. Dead = {}
  BY DEF Init, ManagerInit, Dead
<1>. QED
  BY <1>2, <1>3 DEF Init, ManagerInit, HandlerInit, Service!Init, Scopes, Service!Scopes

\* The handlers ask and give up.
LEMMA ServiceHandler ==
  ASSUME SnapshotInv, OfHandler(HandlerNext)
  PROVE  Service!Next \/ UNCHANGED Service!serviceVars
<1>1. /\ UNCHANGED <<replied, report, senders, Dead>>
      /\ status \in [Requests -> HandlerStates]
  BY DEF OfHandler, HandlerNext, HandlerStep, Arrive, Send, ReceiveReply, ChannelError,
     Disconnect, managerVars, Dead, SnapshotInv, IInv, TypeOK, HandlerTypeOK
<1>2. PICK r \in Requests : Arrive(r) \/ HandlerStep(r) \/ Disconnect(r)
  BY DEF OfHandler, HandlerNext
<1>3. status[r] \in {"idle", "sending"} => r \notin replied
  BY DEF SnapshotInv, RequestInv, UnsentIsNowhere
<1>4. \A q \in Requests \ {r} : status'[q] = status[q] /\ (q \in replied' <=> q \in replied)
  BY <1>1, <1>2 DEF HandlerStep, Arrive, Send, ReceiveReply, ChannelError, Disconnect
<1>5. CASE Arrive(r)
  <2>1. Asked[r] = "idle" /\ Asked'[r] = "pending"
    BY <1>1, <1>3, <1>5, AskedCases, AskedCasesNext DEF Arrive
  <2>2. Asked' = [Asked EXCEPT ![r] = "pending"]
    BY <1>4, <2>1, AskedElsewhere
  <2>. QED  BY <1>1, <2>1, <2>2 DEF Service!Next, Service!Ask
<1>6. CASE r \notin replied /\ (ChannelError(r) \/ Disconnect(r))
  <2>1. Asked[r] = "pending" /\ Asked'[r] = "dropped"
    BY <1>1, <1>6, AskedCases, AskedCasesNext DEF ChannelError, Disconnect, Outcomes
  <2>2. Asked' = [Asked EXCEPT ![r] = "dropped"]
    BY <1>4, <2>1, AskedElsewhere
  <2>. QED  BY <1>1, <2>1, <2>2 DEF Service!Next, Service!Drop
<1>7. CASE Send(r) \/ ReceiveReply(r) \/ (r \in replied /\ (ChannelError(r) \/ Disconnect(r)))
  <2>1. Asked'[r] = Asked[r]
    BY <1>1, <1>3, <1>7, AskedCases, AskedCasesNext
    DEF Send, ReceiveReply, ChannelError, Disconnect
  <2>2. Asked' = [Asked EXCEPT ![r] = Asked[r]]
    BY <1>4, <2>1, AskedElsewhere
  <2>3. Asked' = Asked
    BY <2>2 DEF Asked
  <2>. QED  BY <1>1, <2>3 DEF Service!serviceVars
<1>. QED  BY <1>2, <1>5, <1>6, <1>7 DEF HandlerStep

\* A task's end is what ScrapeService sees of the tasks.
LEMMA ServiceManager ==
  ASSUME SnapshotInv, OfManager(ManagerNext)
  PROVE  Service!Next \/ UNCHANGED Service!serviceVars
<1>1. /\ UNCHANGED <<status, replied, report, senders>>
      /\ phase \in [Tasks -> Phases]
  BY DeadStaysDead DEF OfManager, handlerVars, SnapshotInv, IInv, TypeOK, ManagerTypeOK
<1>2. PICK t \in Tasks :
        \/ Load(t) \/ DBusError(t) \/ Panic(t) \/ StreamsEnded(t)
        \/ TakeInbox(t) \/ Answer(t) \/ Hang(t)
  BY DEF OfManager, ManagerNext
<1>3. CASE End(t)
  <2>1. Dead' = Dead \union {t}
    BY <1>1, <1>3 DEF End, Dead
  <2>2. Asked' = Asked
    BY <1>1 DEF Asked
  <2>. QED  BY <1>1, <2>1, <2>2 DEF Service!Next, Service!Die
<1>4. CASE Load(t) \/ TakeInbox(t) \/ Answer(t) \/ Hang(t)
  <2>1. Dead' = Dead
    BY <1>1, <1>4 DEF Load, TakeInbox, Answer, Hang, Dead
  <2>. QED  BY <1>1, <2>1, ServiceStutter
<1>. QED  BY <1>2, <1>3, <1>4 DEF DBusError, Panic, StreamsEnded

\* Spawning a manager registers a task that was not registered before.
LEMMA ServiceSpawn ==
  ASSUME SnapshotInv, NEW s \in Scopes, NEW t \in Tasks, SpawnManager(t, s),
         UNCHANGED handlerVars
  PROVE  Service!Next
<1>1. t \notin Dead /\ Dead' = Dead
  BY DEF SpawnManager, Dead, SnapshotInv, IInv, TypeOK, ManagerTypeOK
<1>2. t \notin Service!RegisteredTasks
  BY DEF SpawnManager, Service!RegisteredTasks, Scopes, Service!Scopes, SnapshotInv, IInv,
     TypeOK, ManagerTypeOK, TaskInv, SendersOwnScope
<1>3. Asked' = Asked /\ report' = report
  BY DEF handlerVars, Asked
<1>4. Service!Register(s)
  BY <1>1, <1>2, <1>3 DEF Service!Register, SpawnManager
<1>. QED  BY <1>4 DEF Service!Next, Scopes, Service!Scopes

\* The reply at the end of a scrape is an atomic look at the registry: of the
\* registered tasks those that have not ended are in it, and no other task is.
LEMMA ServiceRespond ==
  ASSUME SnapshotInv, Respond
  PROVE  Service!Next \/ UNCHANGED Service!serviceVars
<1>1. /\ cur \in Requests /\ cur \notin replied
      /\ UNCHANGED <<status, senders, Dead>>
  BY DEF Respond, GoTo, managerVars, Dead, SnapshotInv, IInv, TaskInv, ScrapeStage,
     RequestInv, EachRequestInOnePlace
<1>2. CASE status[cur] = "waiting"
  <2>1. replied' = replied \union {cur} /\ report' = [report EXCEPT ![cur] = got]
    BY <1>2 DEF Respond
  <2>2. Asked[cur] = "pending" /\ Asked'[cur] = "served"
    BY <1>1, <1>2, <2>1, AskedCases, AskedCasesNext
  <2>3. Asked' = [Asked EXCEPT ![cur] = "served"]
    BY <1>1, <2>1, <2>2, AskedElsewhere
  <2>4. /\ got \subseteq Service!RegisteredTasks
        /\ Service!RegisteredTasks \ Dead \subseteq got
    BY IdentityAssumption DEF Respond, GoTo, SnapshotInv, SnapInv, IInv, TypeOK,
       Service!RegisteredTasks, Scopes, Service!Scopes
  <2>. QED  BY <1>1, <2>1, <2>2, <2>3, <2>4 DEF Service!Next, Service!Serve
<1>3. CASE status[cur] # "waiting"
  BY <1>1, <1>3, ServiceStutter DEF Respond
<1>. QED  BY <1>2, <1>3

\* Dropping senders unregisters their scopes.
LEMMA ServiceDrop ==
  ASSUME SnapshotInv, Fail \/ TakeUserRemoved
  PROVE  Service!Next
<1>1. /\ UNCHANGED <<status, replied, report, phase>>
      /\ senders \in [Scopes -> Tasks \union {NoTask}]
  BY DEF Fail, TakeUserRemoved, handlerVars, SnapshotInv, IInv, TypeOK, ManagerTypeOK
<1>2. Asked' = Asked /\ Dead' = Dead
  BY <1>1 DEF Asked, Dead
<1>3. CASE Fail
  <2>1. Service!Unregister(Scopes)
    BY <1>1, <1>2, <1>3 DEF Fail, Service!Unregister, Scopes, Service!Scopes
  <2>. QED  BY <2>1 DEF Service!Next, Scopes, Service!Scopes
<1>4. CASE TakeUserRemoved
  <2> DEFINE u == Head(userRemoved)
  <2>1. u \in Scopes
    BY <1>4, TailToSet DEF TakeUserRemoved, SnapshotInv, IInv, TypeOK, LogindTypeOK, Scopes
  <2>2. senders' = [s \in Scopes |-> IF s \in {u} THEN NoTask ELSE senders[s]]
    BY <1>1, <1>4 DEF TakeUserRemoved
  <2>3. Service!Unregister({u})
    BY <1>1, <1>2, <2>2 DEF Service!Unregister, Scopes, Service!Scopes
  <2>. QED  BY <2>1, <2>3 DEF Service!Next, Scopes, Service!Scopes
<1>. QED  BY <1>3, <1>4

\* A step of the coordinator.
LEMMA ServiceCoordinator ==
  ASSUME SnapshotInv, CoordinatorNext
  PROVE  Service!Next \/ UNCHANGED Service!serviceVars
<1>1. ASSUME NEW s \in Scopes, NEW t \in Tasks, SpawnManager(t, s), UNCHANGED handlerVars
      PROVE  Service!Next
  BY <1>1, ServiceSpawn
<1>2. CASE Start
  <2>1. System \in Scopes
    BY DEF Scopes
  <2>. QED  BY <1>1, <1>2, <2>1 DEF Start
<1>3. ASSUME NEW u \in Uids, SpawnUser(u)
      PROVE  Service!Next \/ UNCHANGED Service!serviceVars
  <2>1. u \in Scopes
    BY DEF Scopes
  <2>2. CASE UNCHANGED managerVars
    BY <1>3, <2>2, ServiceStutter DEF SpawnUser, managerVars, handlerVars, Dead
  <2>. QED  BY <1>1, <1>3, <2>1, <2>2 DEF SpawnUser
<1>4. CASE Fail \/ TakeUserRemoved
  BY <1>4, ServiceDrop
<1>5. CASE Respond
  BY <1>5, ServiceRespond
<1>6. CASE \/ ListUsers \/ AllInspected \/ AllSpawned \/ InspectNew \/ Exit \/ Stall
           \/ ConnectFails \/ SubscribeNew \/ SubscribeRemoved \/ TakeUserNew \/ TakeRequest
           \/ \E s \in Scopes : FanOut(s)
           \/ \E t \in Tasks : Collect(t)
           \/ \E u \in Uids : InspectListed(u) /\ ~Fail
  <2>1. UNCHANGED <<status, replied, report, senders, phase>>
    BY <1>6 DEF ListUsers, AllInspected, AllSpawned, InspectNew, Exit,
     Stall, ConnectFails, SubscribeNew,
       SubscribeRemoved, TakeUserNew, TakeRequest, FanOut, Collect, InspectListed,
       managerVars, handlerVars
  <2>. QED  BY <2>1, ServiceStutter DEF Dead
<1>. QED
  BY <1>2, <1>3, <1>4, <1>5, <1>6
  DEF CoordinatorNext, Advance, SelectArm, StartupError, RestorePanics,
      SpawnListed, SpawnNew, SnapshotInv, IInv, TypeOK

LEMMA ServiceStep == SnapshotInv /\ [Next]_vars => [Service!Next]_(Service!serviceVars)
<1> SUFFICES ASSUME SnapshotInv, [Next]_vars
             PROVE  Service!Next \/ UNCHANGED Service!serviceVars
  OBVIOUS
<1>1. CASE OfLogind(LogindNext) \/ UNCHANGED vars
  BY <1>1, ServiceStutter DEF OfLogind, vars, managerVars, handlerVars, Dead
<1>. QED
  BY <1>1, ServiceHandler, ServiceManager, ServiceCoordinator DEF Next, Quiescent

\* The coordinator, its tasks and the handlers implement ScrapeService: every
\* report is an atomic look at the registry, although the managers are asked
\* one by one while they run and end (coordinator.rs:61-76).
THEOREM ImplementsService == Spec => ServesSnapshots
  BY ServiceInit, ServiceStep, SnapshotAlways, PTL
  DEF Spec, ServesSnapshots, Service!Spec

=============================================================================
