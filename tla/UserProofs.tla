------------------------------ MODULE UserProofs ------------------------------
(***************************************************************************)
(* Proofs about how Coordinator follows users: who has gone has the        *)
(* removal of the sender coming, who is there has a manager or is to have  *)
(* one.                                                                    *)
(***************************************************************************)
EXTENDS CoordinatorProofs

-----------------------------------------------------------------------------
(* Users who have gone.  StaleSenderHasRemoval is inductive                *)
(* relative to IInv.                                                       *)

\* A spawn registers a user's latest session.
LEMMA SpawnIsCurrent ==
  ASSUME IInv, NEW u \in Uids, NEW t \in Tasks, SpawnManager(t, u),
         UNCHANGED logindVars, session[u] = "active"
  PROVE  Current(u)' /\ session'[u] = "active"
<1>1. u \in Scopes /\ u # System /\ t # NoTask
  BY IdentityAssumption DEF Scopes
<1>2. senders'[u] = t /\ sessionOf'[t] = logins[u]
  BY <1>1 DEF SpawnManager, IInv, TypeOK, ManagerTypeOK
<1>. QED  BY <1>1, <1>2 DEF Current, logindVars

\* Nobody else's registration changes.
LEMMA SpawnKeepsOthers ==
  ASSUME IInv, NEW s \in Scopes, NEW t \in Tasks, SpawnManager(t, s),
         UNCHANGED logindVars, NEW v \in Uids, v # s
  PROVE  senders'[v] = senders[v] /\ (Current(v)' <=> Current(v))
<1>1. v \in Scopes
  BY DEF Scopes
<1>2. senders'[v] = senders[v]
  BY <1>1 DEF SpawnManager, IInv, TypeOK, ManagerTypeOK
<1>3. senders[v] # NoTask => senders[v] \in Tasks /\ senders[v] # t
  BY <1>1 DEF SpawnManager, IInv, TypeOK, ManagerTypeOK, TaskInv, SendersOwnScope
<1>4. senders[v] # NoTask => sessionOf'[senders[v]] = sessionOf[senders[v]]
  BY <1>3 DEF SpawnManager, IInv, TypeOK, ManagerTypeOK
<1>. QED  BY <1>2, <1>4 DEF Current, logindVars

\* logind: a session that ends announces its end, or the end was missed.
LEMMA StaleLogind ==
  ASSUME IInv, StaleSenderHasRemoval, OfLogind(LogindNext)
  PROVE  StaleSenderHasRemoval'
<1>1. UNCHANGED <<senders, sessionOf>>
  BY DEF OfLogind, managerVars
<1>2. PICK v \in Uids : Login(v) \/ BusUp(v) \/ Logout(v) \/ RemoveUser(v)
  BY DEF OfLogind, LogindNext
<1>3. ToSet(userRemoved) \subseteq ToSet(userRemoved') /\ missedRemoved \subseteq missedRemoved'
  <2>1. ToSet(Append(userRemoved, v)) = ToSet(userRemoved) \union {v}
    BY AppendToSet DEF IInv, TypeOK, LogindTypeOK
  <2>2. CASE Login(v) \/ BusUp(v) \/ Logout(v)
    <3>1. userRemoved' = userRemoved /\ missedRemoved' = missedRemoved
      BY <2>2 DEF Login, BusUp, Logout
    <3>. QED  BY <3>1
  <2>3. CASE RemoveUser(v)
    BY <2>1, <2>3 DEF RemoveUser
  <2>. QED  BY <1>2, <2>2, <2>3
<1> SUFFICES ASSUME NEW u \in Uids, senders[u] # NoTask,
                    u \notin ToSet(userRemoved'), u \notin missedRemoved'
             PROVE  Current(u)' /\ session'[u] \in {"active", "closing"}
  BY <1>1 DEF StaleSenderHasRemoval
<1>4. Current(u) /\ session[u] \in {"active", "closing"}
  BY <1>3 DEF StaleSenderHasRemoval
<1>5. CASE v # u
  <2>1. session'[u] = session[u] /\ logins'[u] = logins[u]
    BY <1>2, <1>5 DEF Login, BusUp, Logout, RemoveUser, IInv, TypeOK, LogindTypeOK
  <2>. QED  BY <1>1, <1>4, <2>1 DEF Current
<1>6. CASE v = u
  <2>1. ~Login(u) /\ ~BusUp(u)
    BY <1>4 DEF Login, BusUp
  <2>2. ~RemoveUser(u)
    <3> SUFFICES ASSUME RemoveUser(u) PROVE FALSE
      OBVIOUS
    <3>1. u \in ToSet(Append(userRemoved, u))
      BY AppendToSet DEF IInv, TypeOK, LogindTypeOK
    <3>2. u \in ToSet(userRemoved') \/ u \in missedRemoved'
      BY <3>1 DEF RemoveUser
    <3>. QED  BY <3>2
  <2>3. Logout(u)
    BY <1>2, <1>6, <2>1, <2>2
  <2>4. session'[u] = "closing" /\ logins'[u] = logins[u]
    BY <2>3 DEF Logout, IInv, TypeOK, LogindTypeOK
  <2>. QED  BY <1>1, <1>4, <2>4 DEF Current
<1>. QED  BY <1>5, <1>6

\* The coordinator: it takes a signal only to drop the sender it is about.
LEMMA StaleCoordinator ==
  ASSUME IInv, StaleSenderHasRemoval, CoordinatorNext
  PROVE  StaleSenderHasRemoval'
<1>1. ASSUME UNCHANGED <<session, logins, userRemoved, missedRemoved, sessionOf>>,
             \A s \in Scopes : senders'[s] # NoTask => senders'[s] = senders[s]
      PROVE  StaleSenderHasRemoval'
  BY <1>1 DEF StaleSenderHasRemoval, Current, Scopes
<1>2. CASE Start
  <2>1. PICK t \in Tasks : SpawnManager(t, System)
    BY <1>2 DEF Start
  <2>2. UNCHANGED logindVars
    BY <1>2 DEF Start
  <2>3. ASSUME NEW u \in Uids
        PROVE  senders'[u] = senders[u] /\ (Current(u)' <=> Current(u))
    <3>1. System \in Scopes /\ u # System
      BY IdentityAssumption DEF Scopes
    <3>. QED  BY <2>1, <2>2, <3>1, SpawnKeepsOthers
  <2>. QED  BY <2>2, <2>3 DEF StaleSenderHasRemoval, logindVars
<1>3. ASSUME NEW u \in Uids, SpawnUser(u)
      PROVE  StaleSenderHasRemoval'
  <2>1. UNCHANGED logindVars
    BY <1>3 DEF SpawnUser
  <2>2. CASE UNCHANGED managerVars
    BY <1>1, <2>1, <2>2 DEF managerVars, logindVars
  <2>3. CASE session[u] = "active" /\ \E t \in Tasks : SpawnManager(t, u)
    <3>1. PICK t \in Tasks : SpawnManager(t, u)
      BY <2>3
    <3>2. Current(u)' /\ session'[u] = "active"
      BY <2>1, <2>3, <3>1, SpawnIsCurrent
    <3>3. ASSUME NEW v \in Uids \ {u}
          PROVE  senders'[v] = senders[v] /\ (Current(v)' <=> Current(v))
      BY <2>1, <3>1, SpawnKeepsOthers DEF Scopes
    <3>. QED  BY <2>1, <3>2, <3>3 DEF StaleSenderHasRemoval, logindVars
  <2>. QED  BY <1>3, <2>2, <2>3 DEF SpawnUser
<1>4. CASE TakeUserRemoved
  <2>1. /\ UNCHANGED <<session, logins, missedRemoved, sessionOf>>
        /\ senders' = [senders EXCEPT ![Head(userRemoved)] = NoTask]
        /\ userRemoved' = Tail(userRemoved) /\ userRemoved # <<>>
    BY <1>4 DEF TakeUserRemoved
  <2>2. /\ Head(userRemoved) \in Scopes
        /\ ToSet(userRemoved) = {Head(userRemoved)} \union ToSet(userRemoved')
    BY <2>1, TailToSet DEF IInv, TypeOK, LogindTypeOK, Scopes
  <2> SUFFICES ASSUME NEW u \in Uids, senders'[u] # NoTask
               PROVE  \/ Current(u)' /\ session'[u] \in {"active", "closing"}
                      \/ u \in ToSet(userRemoved')
                      \/ u \in missedRemoved'
    BY DEF StaleSenderHasRemoval
  <2>3. u \in Scopes /\ u # Head(userRemoved) /\ senders'[u] = senders[u]
    BY <2>1, <2>2 DEF Scopes, IInv, TypeOK, ManagerTypeOK
  <2>4. \/ Current(u) /\ session[u] \in {"active", "closing"}
        \/ u \in ToSet(userRemoved)
        \/ u \in missedRemoved
    BY <2>3 DEF StaleSenderHasRemoval
  <2>. QED  BY <2>1, <2>2, <2>3, <2>4 DEF Current
<1>5. CASE Fail
  BY <1>1, <1>5 DEF Fail, logindVars
<1>6. CASE \/ ListUsers \/ AllInspected \/ AllSpawned \/ InspectNew \/ Exit
           \/ Stall \/ ConnectFails \/ SubscribeNew \/ SubscribeRemoved \/ TakeUserNew \/ TakeRequest \/ Respond
           \/ \E s \in Scopes : FanOut(s)
           \/ \E t \in Tasks : Collect(t)
           \/ \E u \in Uids : InspectListed(u) /\ ~Fail
  <2>1. UNCHANGED <<session, logins, userRemoved, missedRemoved, senders, sessionOf>>
    BY <1>6 DEF ListUsers, AllInspected, AllSpawned, InspectNew, Exit, SubscribeNew,
       Stall, ConnectFails,
       SubscribeRemoved, TakeUserNew, TakeRequest, Respond, FanOut, Collect,
       InspectListed, logindVars, managerVars
  <2>. QED  BY <1>1, <2>1
<1>. QED
  BY <1>2, <1>3, <1>4, <1>5, <1>6
  DEF CoordinatorNext, Advance, SelectArm, StartupError, RestorePanics, SpawnListed,
      SpawnNew, IInv, TypeOK

\* A sender outlives its user's session only while the UserRemoved signal that
\* ends it is on its way, unless that signal was sent before the stream was open
\* (coordinator.rs:85-95, 143-147): no order of logins, logouts, signals and
\* scrapes leaves the coordinator with a dead user it will not hear of.
THEOREM NoStaleSender == Spec => []StaleSenderHasRemoval
<1>1. Init => StaleSenderHasRemoval
  BY DEF Init, ManagerInit, StaleSenderHasRemoval, Scopes
<1>2. IInv /\ StaleSenderHasRemoval /\ [Next]_vars => StaleSenderHasRemoval'
  <2> SUFFICES ASSUME IInv, StaleSenderHasRemoval, [Next]_vars
               PROVE  StaleSenderHasRemoval'
    OBVIOUS
  <2>1. CASE CoordinatorNext
    BY <2>1, StaleCoordinator
  <2>2. CASE OfLogind(LogindNext)
    BY <2>2, StaleLogind
  <2>3. CASE OfManager(ManagerNext) \/ OfHandler(HandlerNext) \/ UNCHANGED vars
    <3>1. UNCHANGED <<senders, sessionOf, logindVars>>
      BY <2>3 DEF OfManager, ManagerNext, Load, DBusError, Panic, StreamsEnded,
         TakeInbox, Answer, Hang, End, OfHandler, managerVars, vars
    <3>. QED  BY <3>1 DEF StaleSenderHasRemoval, Current, logindVars
  <2>. QED  BY <2>1, <2>2, <2>3 DEF Next, Quiescent
<1>. QED  BY <1>1, <1>2, Invariance, PTL DEF Spec

-----------------------------------------------------------------------------
(* Users who are there.                                                    *)

\* listed and found are in use while users are looked at only, and a UserNew
\* is about one user.
LocalsInUse ==
  /\ pc \notin {"inspect", "failed", "exited"} => listed = {}
  /\ pc \in {"start", "list", "subscribeNew", "subscribeRemoved", "select", "scrape"} =>
       found = {}
  /\ pc \in {"inspectNew", "spawnNew"} => \E u \in Uids : found = {u}

\* A removal that is still unread while the user is there is of an older
\* session, and the history knows of it.
OverlapKnown ==
  \A u \in Uids :
    session[u] \in {"opening", "active"} /\ u \in ToSet(userRemoved) => u \in overlapped

\* A connection that gets no reply is to a user who was found.  One who has a new
\* session since is named by its UserNew, or is an exception.
StalledKnown ==
  \A call \in stalled : call[1] # System =>
    /\ Connecting /\ call[1] \in found
    /\ session[call[1]] \in {"opening", "active"} =>
         logins[call[1]] = call[2] \/ call[1] \in ToSet(userNew) \union missedNew

LoginInv == LocalsInUse /\ OverlapKnown /\ StalledKnown /\ ActiveUserIsComing

Coming(u) ==
  \/ Current(u) \/ u \in ToSet(userNew)
  \/ u \in listed \union found
  \/ pc \in {"failed", "exited"}

Settled(u) == session[u] = "active" /\ u \notin missedNew /\ u \notin overlapped

\* What a step of the coordinator has to keep.
LEMMA ComingKept ==
  ASSUME ActiveUserIsComing, UNCHANGED <<session, missedNew, overlapped>>,
         \A u \in Uids \ Refusing : Settled(u) /\ Coming(u) => Coming(u)'
  PROVE  ActiveUserIsComing'
  BY DEF ActiveUserIsComing, Coming, Settled

\* logind: a session that is there was signalled, or is a named exception.
LEMMA LoginLogind ==
  ASSUME IInv, LoginInv, OfLogind(LogindNext)
  PROVE  LoginInv'
<1>1. UNCHANGED <<senders, sessionOf, pc, listed, found, stalled>>
  BY DEF OfLogind, managerVars, coordVars, userVars
<1>2. PICK v \in Uids : Login(v) \/ BusUp(v) \/ Logout(v) \/ RemoveUser(v)
  BY DEF OfLogind, LogindNext
<1>3. /\ ToSet(Append(userRemoved, v)) = ToSet(userRemoved) \union {v}
      /\ ToSet(Append(userNew, v)) = ToSet(userNew) \union {v}
  BY AppendToSet DEF IInv, TypeOK, LogindTypeOK
<1>4. /\ \A u \in Uids \ {v} : session'[u] = session[u] /\ logins'[u] = logins[u]
      /\ \A u \in Uids \ {v} : u \in missedNew' <=> u \in missedNew
      /\ \A u \in Uids \ {v} : u \in overlapped' <=> u \in overlapped
  BY <1>2 DEF Login, BusUp, Logout, RemoveUser, IInv, TypeOK, LogindTypeOK
<1>5. /\ ToSet(userNew) \subseteq ToSet(userNew')
      /\ ToSet(userRemoved') \subseteq ToSet(userRemoved) \union {v}
  <2>1. CASE Login(v)
    BY <1>3, <2>1 DEF Login
  <2>2. CASE BusUp(v) \/ Logout(v)
    BY <2>2 DEF BusUp, Logout
  <2>3. CASE RemoveUser(v)
    BY <1>3, <2>3 DEF RemoveUser
  <2>. QED  BY <1>2, <2>1, <2>2, <2>3
<1>6. LocalsInUse'
  BY <1>1 DEF LoginInv, LocalsInUse
<1>7. session'[v] \in {"opening", "active"} => Login(v) \/ BusUp(v)
  BY <1>2 DEF Logout, RemoveUser, IInv, TypeOK, LogindTypeOK
<1>8. ASSUME NEW u \in Uids, session'[u] \in {"opening", "active"}, u \in ToSet(userRemoved')
      PROVE  u \in overlapped'
  <2>1. CASE u # v
    BY <1>4, <1>5, <1>8, <2>1 DEF LoginInv, OverlapKnown
  <2>2. CASE u = v /\ Login(v)
    BY <1>8, <2>2 DEF Login
  <2>3. CASE u = v /\ BusUp(v)
    BY <1>8, <2>3 DEF BusUp, LoginInv, OverlapKnown
  <2>. QED  BY <1>7, <1>8, <2>1, <2>2, <2>3
<1>9. ASSUME NEW u \in Uids \ Refusing, session'[u] = "active", u \notin missedNew',
             u \notin overlapped'
      PROVE  Coming(u)'
  <2>1. CASE u # v
    <3>1. Coming(u)
      BY <1>4, <1>9, <2>1 DEF LoginInv, ActiveUserIsComing, Coming
    <3>2. Current(u) => Current(u)'
      BY <1>1, <1>4, <2>1 DEF Current
    <3>. QED  BY <1>1, <1>5, <3>1, <3>2 DEF Coming
  <2>2. CASE u = v /\ Login(v)
    <3>1. u \in ToSet(userNew')
      BY <1>3, <1>9, <2>2 DEF Login
    <3>. QED  BY <3>1 DEF Coming
  <2>3. CASE u = v /\ BusUp(v)
    <3>1. u \in ToSet(userNew')
      BY <1>9, <2>3 DEF BusUp
    <3>. QED  BY <3>1 DEF Coming
  <2>. QED  BY <1>7, <1>9, <2>1, <2>2, <2>3
<1>10. ActiveUserIsComing'
  BY <1>9 DEF ActiveUserIsComing, Coming
<1>11. StalledKnown'
  <2> SUFFICES ASSUME NEW call \in stalled, call[1] # System
               PROVE  /\ Connecting /\ call[1] \in found
                      /\ session'[call[1]] \in {"opening", "active"} =>
                           \/ logins'[call[1]] = call[2]
                           \/ call[1] \in ToSet(userNew') \union missedNew'
    BY <1>1 DEF StalledKnown, Connecting
  <2>1. /\ Connecting /\ call[1] \in found /\ call[1] \in Uids
        /\ session[call[1]] \in {"opening", "active"} =>
             logins[call[1]] = call[2] \/ call[1] \in ToSet(userNew) \union missedNew
    BY DEF LoginInv, StalledKnown, IInv, TypeOK
  <2>2. CASE call[1] # v
    BY <1>4, <1>5, <2>1, <2>2
  <2>3. CASE call[1] = v /\ Login(v)
    BY <1>3, <2>1, <2>3 DEF Login
  <2>4. CASE call[1] = v /\ BusUp(v)
    BY <2>1, <2>4 DEF BusUp
  <2>. QED  BY <1>7, <2>1, <2>2, <2>3, <2>4
<1>. QED  BY <1>6, <1>8, <1>10, <1>11 DEF LoginInv, OverlapKnown

\* A user who is connected to has a manager, or has gone, or is refused.
LEMMA SpawnUserComing ==
  ASSUME IInv, ActiveUserIsComing, NEW u \in Uids, SpawnUser(u),
         pc' \in {"failed", "exited"} <=> pc \in {"failed", "exited"}
  PROVE  ActiveUserIsComing'
<1>1. UNCHANGED <<logindVars, listed>> /\ found' = found \ {u}
  BY DEF SpawnUser
<1>2. CASE UNCHANGED managerVars /\ (session[u] # "active" \/ u \in Refusing)
  <2>1. \A v \in Uids : Current(v)' <=> Current(v)
    BY <1>1, <1>2 DEF Current, managerVars, logindVars
  <2>2. \A v \in Uids \ Refusing : Settled(v) /\ Coming(v) => Coming(v)'
    BY <1>1, <1>2, <2>1 DEF Settled, Coming, logindVars
  <2>. QED  BY <1>1, <2>2, ComingKept DEF logindVars
<1>3. CASE session[u] = "active" /\ \E t \in Tasks : SpawnManager(t, u)
  <2>1. PICK t \in Tasks : SpawnManager(t, u)
    BY <1>3
  <2>2. Current(u)'
    BY <1>1, <1>3, <2>1, SpawnIsCurrent
  <2>3. \A v \in Uids \ {u} : Current(v)' <=> Current(v)
    BY <1>1, <2>1, SpawnKeepsOthers DEF Scopes
  <2>4. \A v \in Uids \ Refusing : Settled(v) /\ Coming(v) => Coming(v)'
    BY <1>1, <2>2, <2>3 DEF Coming, logindVars
  <2>. QED  BY <1>1, <2>4, ComingKept DEF logindVars
<1>. QED  BY <1>2, <1>3 DEF SpawnUser

\* A connection that fails with its session: the user has gone, or has a session
\* that is signalled.
LEMMA ConnectFailsComing ==
  ASSUME IInv, LoginInv, ConnectFails
  PROVE  LocalsInUse' /\ ActiveUserIsComing'
<1>1. /\ UNCHANGED <<logindVars, managerVars, listed>>
      /\ Connecting /\ stalled # {} /\ ~NoReplyComes
      /\ found' = found \ {call[1] : call \in stalled}
      /\ pc' = IF pc = "spawnNew" THEN "select" ELSE pc
  BY DEF ConnectFails
<1>2. \A call \in stalled :
        /\ call[1] \in found /\ call[1] # System
        /\ session[call[1]] = "active" =>
             call[1] \in ToSet(userNew) \union missedNew
  BY <1>1 DEF NoReplyComes, LoginInv, StalledKnown
<1>3. \A v \in Uids : Current(v)' <=> Current(v)
  BY <1>1 DEF Current, managerVars, logindVars
<1>4. ASSUME NEW v \in Uids, Settled(v), Coming(v)
      PROVE  Coming(v)'
  <2>1. CASE \E call \in stalled : v = call[1]
    <3>1. v \in ToSet(userNew')
      BY <1>1, <1>2, <1>4, <2>1 DEF Settled, logindVars
    <3>. QED  BY <3>1 DEF Coming
  <2>2. CASE ~\E call \in stalled : v = call[1]
    <3>1. v \in found => v \in found'
      BY <1>1, <2>2
    <3>. QED  BY <1>1, <1>3, <1>4, <3>1 DEF Coming, logindVars, Connecting
  <2>. QED  BY <2>1, <2>2
<1>5. ActiveUserIsComing'
  BY <1>1, <1>4, ComingKept DEF LoginInv, logindVars
<1>6. LocalsInUse'
  <2>1. CASE pc = "spawnNew"
    <3>1. PICK u \in Uids : found = {u}
      BY <2>1 DEF LoginInv, LocalsInUse
    <3>2. found' = {}
      BY <1>1, <1>2, <3>1
    <3>. QED  BY <1>1, <2>1, <3>2 DEF LoginInv, LocalsInUse
  <2>2. CASE pc = "spawnListed"
    BY <1>1, <2>2 DEF LoginInv, LocalsInUse
  <2>. QED  BY <1>1, <2>1, <2>2 DEF Connecting
<1>. QED  BY <1>5, <1>6

\* The coordinator: while it connects without a reply, nothing else moves it.
LEMMA StalledCoordinator ==
  ASSUME IInv, LoginInv, CoordinatorNext
  PROVE  StalledKnown'
<1>1. CASE stalled' = {}
  BY <1>1 DEF StalledKnown
<1>2. CASE Stall
  <2>1. PICK b \in SilentBuses :
          /\ b # System => Connecting /\ b \in found
          /\ stalled' = {<<b, IF b = System THEN 0 ELSE logins[b]>>}
    BY <1>2 DEF Stall
  <2>2. UNCHANGED <<logins, pc, found>>
    BY <1>2 DEF Stall, logindVars
  <2>. QED  BY <2>1, <2>2 DEF StalledKnown, Connecting
<1>3. CASE SelectArm
  <2>1. pc = "select" /\ stalled' = stalled
    BY <1>3 DEF SelectArm, TakeRequest, TakeUserNew, TakeUserRemoved, GoTo, coordVars, userVars
  <2>. QED  BY <2>1 DEF LoginInv, StalledKnown, Connecting
<1>4. CASE Advance /\ ~ConnectFails
  <2>1. stalled = {}
    BY <1>4 DEF Advance
  <2>2. stalled' = stalled \/ Fail
    BY <1>4 DEF Advance, Start, ListUsers, AllInspected, AllSpawned, SubscribeNew,
       SubscribeRemoved, InspectListed, SpawnListed, InspectNew, SpawnNew, SpawnUser, FanOut,
       Collect, Respond, Exit, userVars
  <2>. QED  BY <1>1, <2>1, <2>2 DEF Fail
<1>5. CASE ConnectFails \/ StartupError \/ RestorePanics
  BY <1>1, <1>5 DEF ConnectFails, StartupError, RestorePanics, Fail
<1>. QED  BY <1>2, <1>3, <1>4, <1>5 DEF CoordinatorNext

\* The coordinator: a user who is there is handed from one stage to the next.
LEMMA LoginCoordinator ==
  ASSUME IInv, LoginInv, CoordinatorNext
  PROVE  LoginInv'
<1>0. LocalsInUse /\ OverlapKnown /\ ActiveUserIsComing
  BY DEF LoginInv
<1>0a. StalledKnown'
  BY StalledCoordinator
<1>1. ASSUME UNCHANGED <<session, userRemoved, overlapped>>
      PROVE  OverlapKnown'
  BY <1>0, <1>1 DEF OverlapKnown
<1>2. CASE Start
  <2>1. PICK t \in Tasks : SpawnManager(t, System)
    BY <1>2 DEF Start
  <2>2. UNCHANGED <<logindVars, listed, found>> /\ pc = "start" /\ pc' \in {"list", "select"}
    BY <1>2 DEF Start, GoTo, userVars
  <2>3. \A u \in Uids : Current(u)' <=> Current(u)
    BY <2>1, <2>2, SpawnKeepsOthers, IdentityAssumption DEF Scopes
  <2>4. \A u \in Uids \ Refusing : Settled(u) /\ Coming(u) => Coming(u)'
    BY <2>2, <2>3 DEF Coming, logindVars
  <2>5. ActiveUserIsComing'
    BY <1>0, <2>2, <2>4, ComingKept DEF logindVars
  <2>6. LocalsInUse'
    BY <1>0, <2>2 DEF LocalsInUse
  <2>. QED  BY <1>0a, <1>1, <2>2, <2>5, <2>6 DEF LoginInv, logindVars
<1>3. CASE ListUsers
  <2>1. /\ pc' = "inspect" /\ listed' = {u \in Uids : session[u] # "absent"}
        /\ UNCHANGED <<session, userRemoved, overlapped>>
    BY <1>3 DEF ListUsers, GoTo, userVars
  <2>2. ActiveUserIsComing'
    BY <2>1 DEF ActiveUserIsComing
  <2>3. LocalsInUse'
    BY <2>1 DEF LocalsInUse
  <2>. QED  BY <1>0a, <1>1, <2>1, <2>2, <2>3 DEF LoginInv
<1>4. CASE Fail
  <2>1. pc' = "failed" /\ UNCHANGED logindVars
    BY <1>4 DEF Fail
  <2>. QED  BY <1>0a, <1>1, <2>1 DEF LoginInv, LocalsInUse, ActiveUserIsComing, logindVars
<1>5. ASSUME NEW u \in Uids, InspectListed(u), ~Fail
      PROVE  LoginInv'
  <2>1. /\ pc = "inspect" /\ listed' = listed \ {u}
        /\ found' = IF session[u] = "closing" THEN found ELSE found \union {u}
        /\ UNCHANGED <<logindVars, managerVars, pc>>
    BY <1>5 DEF InspectListed
  <2>2. \A v \in Uids : Current(v)' <=> Current(v)
    BY <2>1 DEF Current, managerVars, logindVars
  <2>3. \A v \in Uids \ Refusing : Settled(v) /\ Coming(v) => Coming(v)'
    BY <2>1, <2>2 DEF Settled, Coming, logindVars
  <2>4. ActiveUserIsComing'
    BY <1>0, <2>1, <2>3, ComingKept DEF logindVars
  <2>. QED  BY <1>0a, <1>1, <2>1, <2>4 DEF LoginInv, LocalsInUse, logindVars
<1>6. ASSUME NEW u \in Uids, SpawnListed(u)
      PROVE  LoginInv'
  <2>1. pc = "spawnListed" /\ pc' = pc /\ SpawnUser(u) /\ UNCHANGED <<logindVars, listed>>
    BY <1>6 DEF SpawnListed, SpawnUser
  <2>2. ActiveUserIsComing'
    BY <1>0, <2>1, SpawnUserComing
  <2>. QED  BY <1>0a, <1>0, <1>1, <2>1, <2>2 DEF LoginInv, LocalsInUse, logindVars
<1>7. CASE SpawnNew
  <2>1. PICK u \in found : SpawnUser(u)
    BY <1>7 DEF SpawnNew
  <2>2. /\ pc = "spawnNew" /\ pc' = "select" /\ UNCHANGED <<logindVars, listed>>
        /\ found' = found \ {u}
    BY <1>7, <2>1 DEF SpawnNew, GoTo, SpawnUser
  <2>3. u \in Uids /\ found = {u} /\ listed = {}
    BY <1>0, <2>2 DEF LocalsInUse
  <2>4. ActiveUserIsComing'
    BY <1>0, <2>1, <2>2, <2>3, SpawnUserComing
  <2>5. LocalsInUse'
    BY <2>2, <2>3 DEF LocalsInUse
  <2>. QED  BY <1>0a, <1>1, <2>2, <2>4, <2>5 DEF LoginInv, logindVars
<1>8. CASE TakeUserNew
  <2>1. /\ pc = "select" /\ pc' = "inspectNew" /\ found' = {Head(userNew)}
        /\ userNew # <<>> /\ userNew' = Tail(userNew)
        /\ UNCHANGED <<session, logins, userRemoved, missedNew, overlapped, managerVars,
                       listed>>
    BY <1>8 DEF TakeUserNew, GoTo
  <2>2. /\ Head(userNew) \in Uids
        /\ ToSet(userNew) = {Head(userNew)} \union ToSet(userNew')
    BY <2>1, TailToSet DEF IInv, TypeOK, LogindTypeOK
  <2>3. found = {} /\ listed = {}
    BY <1>0, <2>1 DEF LocalsInUse
  <2>4. \A v \in Uids : Current(v)' <=> Current(v)
    BY <2>1 DEF Current, managerVars
  <2>5. \A v \in Uids \ Refusing : Settled(v) /\ Coming(v) => Coming(v)'
    BY <2>1, <2>2, <2>3, <2>4 DEF Coming
  <2>6. ActiveUserIsComing'
    BY <1>0, <2>1, <2>5, ComingKept
  <2>7. LocalsInUse'
    BY <2>1, <2>2, <2>3 DEF LocalsInUse
  <2>. QED  BY <1>0a, <1>1, <2>1, <2>6, <2>7 DEF LoginInv
<1>9. CASE InspectNew
  <2>1. /\ pc = "inspectNew" /\ UNCHANGED <<logindVars, managerVars, listed>>
        /\ \E u \in found :
             \/ pc' = "select" /\ found' = {} /\ session[u] \in {"absent", "closing"}
             \/ pc' = "spawnNew" /\ found' = found
    BY <1>9 DEF InspectNew
  <2>2. \E u \in Uids : found = {u}
    BY <1>0, <2>1 DEF LocalsInUse
  <2>3. \A v \in Uids : Current(v)' <=> Current(v)
    BY <2>1 DEF Current, managerVars, logindVars
  <2>4. \A v \in Uids \ Refusing : Settled(v) /\ Coming(v) => Coming(v)'
    BY <2>1, <2>2, <2>3 DEF Settled, Coming, logindVars
  <2>5. ActiveUserIsComing'
    BY <1>0, <2>1, <2>4, ComingKept DEF logindVars
  <2>6. LocalsInUse'
    BY <1>0, <2>1, <2>2 DEF LocalsInUse
  <2>. QED  BY <1>0a, <1>1, <2>1, <2>5, <2>6 DEF LoginInv, logindVars
<1>10. CASE TakeUserRemoved
  <2>1. /\ pc = "select" /\ userRemoved # <<>> /\ userRemoved' = Tail(userRemoved)
        /\ senders' = [senders EXCEPT ![Head(userRemoved)] = NoTask]
        /\ UNCHANGED <<session, logins, userNew, missedNew, overlapped, sessionOf, pc,
                       listed, found>>
    BY <1>10 DEF TakeUserRemoved, coordVars, userVars
  <2>2. ToSet(userRemoved) = {Head(userRemoved)} \union ToSet(userRemoved')
    BY <2>1, TailToSet DEF IInv, TypeOK, LogindTypeOK
  <2>3. ASSUME NEW v \in Uids, Settled(v), Current(v)
        PROVE  Current(v)'
    <3>1. v # Head(userRemoved)
      BY <1>0, <2>2, <2>3 DEF Settled, OverlapKnown
    <3>2. v \in Scopes
      BY DEF Scopes
    <3>3. senders'[v] = senders[v]
      BY <2>1, <3>1, <3>2 DEF IInv, TypeOK, ManagerTypeOK
    <3>. QED  BY <2>1, <2>3, <3>3 DEF Current
  <2>4. \A v \in Uids \ Refusing : Settled(v) /\ Coming(v) => Coming(v)'
    BY <2>1, <2>3 DEF Coming
  <2>5. ActiveUserIsComing'
    BY <1>0, <2>1, <2>4, ComingKept
  <2>6. LocalsInUse' /\ OverlapKnown'
    BY <1>0, <2>1, <2>2 DEF LocalsInUse, OverlapKnown
  <2>. QED  BY <1>0a, <2>5, <2>6 DEF LoginInv
<1>11. CASE \/ AllInspected \/ AllSpawned \/ SubscribeNew \/ SubscribeRemoved \/ TakeRequest
            \/ Respond \/ Exit \/ Stall
            \/ \E s \in Scopes : FanOut(s)
            \/ \E t \in Tasks : Collect(t)
  <2>1. UNCHANGED <<session, logins, userNew, userRemoved, missedNew, overlapped, senders,
                    sessionOf, listed, found>>
    BY <1>11 DEF AllInspected, AllSpawned, SubscribeNew, SubscribeRemoved, TakeRequest,
       Respond, Exit, Stall, FanOut, Collect, logindVars, managerVars, userVars
  <2>2. LocalsInUse'
    BY <1>0, <1>11, <2>1 DEF AllInspected, AllSpawned, SubscribeNew, SubscribeRemoved,
       TakeRequest, Respond, Exit, Stall, FanOut, Collect, GoTo, LocalsInUse
  <2>3. pc \in {"failed", "exited"} => pc' \in {"failed", "exited"}
    BY <1>11 DEF AllInspected, AllSpawned, SubscribeNew, SubscribeRemoved,
       TakeRequest, Respond, Exit, Stall, FanOut, Collect, GoTo
  <2>4. \A v \in Uids \ Refusing : Settled(v) /\ Coming(v) => Coming(v)'
    BY <2>1, <2>3 DEF Coming, Current
  <2>5. ActiveUserIsComing'
    BY <1>0, <2>1, <2>4, ComingKept
  <2>. QED  BY <1>0a, <1>1, <2>1, <2>2, <2>5 DEF LoginInv
<1>12. CASE ConnectFails
  <2>1. UNCHANGED <<session, userRemoved, overlapped>>
    BY <1>12 DEF ConnectFails, logindVars
  <2>. QED  BY <1>0a, <1>1, <1>12, <2>1, ConnectFailsComing DEF LoginInv
<1>. QED
  BY <1>12, <1>2, <1>3, <1>4, <1>5, <1>6, <1>7, <1>8, <1>9, <1>10, <1>11
  DEF CoordinatorNext, Advance, SelectArm, StartupError, RestorePanics

\* A user who is logged in, and whom no named circumstance excepts, has the
\* manager of the present session registered, or is listed, found or signalled:
\* no order of logins, logouts, signals and scrapes, of any number of users,
\* makes the coordinator forget one (coordinator.rs:47-59, 85-95, 102-147).
THEOREM NobodyForgotten == Spec => []ActiveUserIsComing
<1>1. Init => LoginInv
  BY EmptyToSet DEF Init, LogindInit, LoginInv, LocalsInUse, OverlapKnown, StalledKnown,
     ActiveUserIsComing
<1>2. IInv /\ LoginInv /\ [Next]_vars => LoginInv'
  <2> SUFFICES ASSUME IInv, LoginInv, [Next]_vars
               PROVE  LoginInv'
    OBVIOUS
  <2>1. CASE CoordinatorNext
    BY <2>1, LoginCoordinator
  <2>2. CASE OfLogind(LogindNext)
    BY <2>2, LoginLogind
  <2>3. CASE OfManager(ManagerNext) \/ OfHandler(HandlerNext) \/ UNCHANGED vars
    <3>1. UNCHANGED <<senders, sessionOf, logindVars, coordVars>>
      BY <2>3 DEF OfManager, ManagerNext, Load, DBusError, Panic, StreamsEnded,
         TakeInbox, Answer, Hang, End, OfHandler, managerVars, vars
    <3>. QED  BY <3>1 DEF LoginInv, LocalsInUse, OverlapKnown, StalledKnown, Connecting,
                  ActiveUserIsComing, Current, logindVars, coordVars, userVars
  <2>. QED  BY <2>1, <2>2, <2>3 DEF Next, Quiescent
<1>3. LoginInv => ActiveUserIsComing
  BY DEF LoginInv
<1>. QED  BY <1>1, <1>2, <1>3, Invariance, PTL DEF Spec

=============================================================================
