----------------------------- MODULE Coordinator -----------------------------
(***************************************************************************)
(* The coordinator task (src/service/coordinator.rs) composed with what it *)
(* talks to: the HTTP handlers that send it scrape requests, the manager   *)
(* tasks it spawns and asks for stats, and logind, whose signals tell it   *)
(* which users to monitor.                                                 *)
(*                                                                         *)
(* The coordinator is one sequential task.  Every await is a place where   *)
(* the others may run, so a step is what lies between two awaits.          *)
(***************************************************************************)
EXTENDS ManagerTask, MetricsHandler

CONSTANTS
  MonitorUsers,  \* the values that SDED_MONITOR_USER_MANAGERS may have
  Refusing,      \* users whose session bus refuses the exporter for good
  SilentBuses    \* buses that may leave the coordinator without a reply: System
                 \* stands for logind, a user for a session bus that is connected to

ASSUME CoordinatorAssumption ==
  /\ MonitorUsers \in SUBSET BOOLEAN /\ MonitorUsers # {}
  /\ Refusing \subseteq Uids
  /\ SilentBuses \subseteq Scopes

VARIABLES
  pc,        \* where the coordinator's future is suspended
  listed,    \* users of the ListUsers reply still to be inspected
  found,     \* users about to be connected to: the result of list_active_users,
             \* or the one user a UserNew signal is about
  stalled,   \* the awaited call that gets no reply: <<whose bus, which session>>
  cur,       \* the scrape request in hand
  pending,   \* scopes whose manager has not been sent the request yet
  awaiting,  \* tasks whose reply is awaited
  got        \* tasks whose stats have been received

scrapeVars == <<cur, pending, awaiting, got>>
userVars   == <<found, stalled>>
coordVars  == <<pc, listed, userVars, scrapeVars>>
vars == <<logindVars, managerVars, handlerVars, coordVars>>

Stages == {"start", "list", "inspect", "spawnListed", "subscribeNew",
           "subscribeRemoved", "select", "inspectNew", "spawnNew", "scrape",
           "failed", "exited"}

TypeOK ==
  /\ LogindTypeOK /\ ManagerTypeOK /\ HandlerTypeOK
  /\ pc \in Stages
  /\ listed \in SUBSET Uids
  /\ found \in SUBSET Uids
  /\ stalled \in SUBSET (Scopes \X Nat)
  /\ cur \in Requests \union {NoRequest}
  /\ pending \in SUBSET Scopes
  /\ awaiting \in SUBSET Tasks
  /\ got \in SUBSET Tasks

Init ==
  /\ LogindInit /\ ManagerInit /\ HandlerInit
  /\ pc = "start"
  /\ listed = {}
  /\ found = {}
  /\ stalled = {}
  /\ cur = NoRequest
  /\ pending = {}
  /\ awaiting = {}
  /\ got = {}

GoTo(from, to) == pc = from /\ pc' = to

-----------------------------------------------------------------------------
(* Start-up: Coordinator::run up to its loop.                              *)

\* Connect to the system bus and spawn the system manager's task.
Start ==
  /\ \E monitored \in MonitorUsers : GoTo("start", IF monitored THEN "list" ELSE "select")
  /\ \E t \in Tasks : SpawnManager(t, System)
  /\ UNCHANGED <<logindVars, handlerVars, listed, userVars, scrapeVars>>

\* ListUsers replies with the users that have an object right now.
ListUsers ==
  /\ GoTo("list", "inspect")
  /\ listed' = {u \in Uids : session[u] # "absent"}
  /\ missedNew' = {u \in missedNew : session[u] # "active"}
  /\ UNCHANGED <<session, logins, signalVars, userNew, userRemoved, missedRemoved,
                 overlapped, managerVars, handlerVars, userVars, scrapeVars>>

\* The coordinator gives up: its receiver, the queued requests and the
\* senders are dropped, and main is about to exit(4).
Fail ==
  /\ pc' = "failed"
  /\ receiverOpen' = FALSE
  /\ requests' = <<>>
  /\ senders' = [s \in Scopes |-> NoTask]
  /\ stalled' = {}
  /\ UNCHANGED <<logindVars, phase, scopeOf, sessionOf, inbox, inHand, answers,
                 stuck, status, replied, report, listed, found, scrapeVars>>

\* A call to the system bus or to logind is under way, up to the loop.
StartupCall ==
  \/ pc \in {"start", "list", "subscribeNew", "subscribeRemoved"}
  \/ pc = "inspect" /\ listed # {}

\* It returns an error, whatever the users do.
StartupError == StartupCall /\ stalled = {} /\ Fail

\* One round of list_active_users' loop; state and runtime path come from one
\* GetAll of the user's properties.  An object that has gone makes the call
\* fail, and `?` ends list_active_users and the coordinator.
InspectListed(u) ==
  /\ pc = "inspect" /\ u \in listed
  /\ \/ /\ session[u] = "absent"
        /\ Fail
     \/ /\ session[u] # "absent"
        /\ found' = IF session[u] = "closing" THEN found ELSE found \union {u}
        /\ listed' = listed \ {u}
        /\ UNCHANGED <<logindVars, managerVars, handlerVars, pc, stalled, scrapeVars>>

AllInspected ==
  /\ GoTo("inspect", "spawnListed")
  /\ listed = {}
  /\ UNCHANGED <<logindVars, managerVars, handlerVars, listed, userVars, scrapeVars>>

\* spawn_user keeping the sender that a scope already has.
SpawnUserOnce(u) ==
  /\ u \in found
  /\ found' = found \ {u}
  /\ IF session[u] = "active" /\ u \notin Refusing /\ senders[u] = NoTask
     THEN \E t \in Tasks : SpawnManager(t, u)
     ELSE UNCHANGED managerVars
  /\ UNCHANGED <<logindVars, handlerVars, listed, stalled, scrapeVars>>

\* spawn_user: connect to the session bus, and if that works spawn the user's
\* manager task.  A failure is logged and forgotten.
SpawnUser(u) ==
  /\ u \in found
  /\ found' = found \ {u}
  /\ IF session[u] = "active" /\ u \notin Refusing
     THEN \E t \in Tasks : SpawnManager(t, u)
     ELSE UNCHANGED managerVars
  /\ UNCHANGED <<logindVars, handlerVars, listed, stalled, scrapeVars>>

SpawnListed(u) == pc = "spawnListed" /\ SpawnUser(u) /\ UNCHANGED pc

AllSpawned ==
  /\ GoTo("spawnListed", "subscribeNew")
  /\ found = {}
  /\ UNCHANGED <<logindVars, managerVars, handlerVars, listed, userVars, scrapeVars>>

SubscribeNew ==
  /\ GoTo("subscribeNew", "subscribeRemoved")
  /\ newSubscribed' = TRUE
  /\ UNCHANGED <<session, logins, removedSubscribed, userNew, userRemoved,
                 missedNew, missedRemoved, overlapped, managerVars, handlerVars,
                 listed, userVars, scrapeVars>>

SubscribeRemoved ==
  /\ GoTo("subscribeRemoved", "select")
  /\ removedSubscribed' = TRUE
  /\ UNCHANGED <<session, logins, newSubscribed, userNew, userRemoved,
                 missedNew, missedRemoved, overlapped, managerVars, handlerVars,
                 listed, userVars, scrapeVars>>

-----------------------------------------------------------------------------
(* The select! loop.  Its `else` arm needs every channel closed; the web   *)
(* server holds a sender for as long as the process lives.                 *)

\* The user_new arm.  The signal names the user; the state is read later.
TakeUserNew ==
  /\ GoTo("select", "inspectNew")
  /\ userNew # <<>>
  /\ found' = {Head(userNew)}
  /\ userNew' = Tail(userNew)
  /\ UNCHANGED <<session, logins, signalVars, userRemoved, missedNew,
                 missedRemoved, overlapped, managerVars, handlerVars, listed,
                 stalled, scrapeVars>>

\* A user that is on the way out, or gone, is left alone: state() counts as
\* empty when it fails, but then runtime_path() fails too.
InspectNew ==
  /\ pc = "inspectNew"
  /\ \E u \in found :
       IF session[u] \in {"absent", "closing"}
       THEN pc' = "select" /\ found' = {}
       ELSE pc' = "spawnNew" /\ UNCHANGED found
  /\ UNCHANGED <<logindVars, managerVars, handlerVars, listed, stalled, scrapeVars>>

SpawnNew == GoTo("spawnNew", "select") /\ \E u \in found : SpawnUser(u)

\* The user_removed arm, keeping the sender of a user that is back.
TakeUserRemovedUnlessBack ==
  /\ pc = "select"
  /\ userRemoved # <<>>
  /\ LET u == Head(userRemoved)
     IN  senders' = [senders EXCEPT ![u] = IF session[u] = "absent"
                                           THEN NoTask ELSE @]
  /\ userRemoved' = Tail(userRemoved)
  /\ UNCHANGED <<session, logins, signalVars, userNew, missedNew, missedRemoved,
                 overlapped, phase, scopeOf, sessionOf, inbox, inHand, answers,
                 stuck, handlerVars, coordVars>>

\* The user_removed arm, waiting for the manager task to end by itself.
TakeUserRemovedIfEnded ==
  /\ pc = "select"
  /\ userRemoved # <<>>
  /\ LET u == Head(userRemoved)
     IN  senders' = IF senders[u] # NoTask /\ phase[senders[u]] = "ended"
                    THEN [senders EXCEPT ![u] = NoTask] ELSE senders
  /\ userRemoved' = Tail(userRemoved)
  /\ UNCHANGED <<session, logins, signalVars, userNew, missedNew, missedRemoved,
                 overlapped, phase, scopeOf, sessionOf, inbox, inHand, answers,
                 stuck, handlerVars, coordVars>>

\* The user_removed arm: whatever task the user has loses its sender.
TakeUserRemoved ==
  /\ pc = "select"
  /\ userRemoved # <<>>
  /\ senders' = [senders EXCEPT ![Head(userRemoved)] = NoTask]
  /\ userRemoved' = Tail(userRemoved)
  /\ UNCHANGED <<session, logins, signalVars, userNew, missedNew, missedRemoved,
                 overlapped, phase, scopeOf, sessionOf, inbox, inHand, answers,
                 stuck, handlerVars, coordVars>>

\* The recv arm, looking at the request without taking it.
PeekRequest ==
  /\ GoTo("select", "scrape")
  /\ requests # <<>>
  /\ cur' = Head(requests)
  /\ pending' = {s \in Scopes : senders[s] # NoTask}
  /\ UNCHANGED <<logindVars, managerVars, handlerVars, listed, userVars, awaiting, got>>

\* The recv arm: handle_scrape_request begins.
TakeRequest ==
  /\ GoTo("select", "scrape")
  /\ requests # <<>>
  /\ cur' = Head(requests)
  /\ requests' = Tail(requests)
  /\ pending' = {s \in Scopes : senders[s] # NoTask}
  /\ UNCHANGED <<logindVars, managerVars, status, receiverOpen, replied, report,
                 listed, userVars, awaiting, got>>

-----------------------------------------------------------------------------
(* handle_scrape_request.  The map's iteration order is arbitrary.         *)

\* Asking only the managers that are idle.
FanOutToReady(s) ==
  /\ pc = "scrape" /\ s \in pending
  /\ pending' = pending \ {s}
  /\ LET t == senders[s]
     IN  IF phase[t] # "ready"
         THEN UNCHANGED <<inbox, awaiting>>
         ELSE /\ inbox' = [inbox EXCEPT ![t] = Append(@, cur)]
              /\ awaiting' = awaiting \union {t}
  /\ UNCHANGED <<logindVars, senders, phase, scopeOf, sessionOf, inHand, answers,
                 stuck, handlerVars, pc, listed, userVars, cur, got>>

\* Send the request to one manager, waiting for room in its channel.  A task
\* that has ended makes the send fail, and its scope is left out.
FanOut(s) ==
  /\ pc = "scrape" /\ s \in pending
  /\ pending' = pending \ {s}
  /\ LET t == senders[s]
     IN  IF phase[t] = "ended"
         THEN UNCHANGED <<inbox, awaiting>>
         ELSE /\ Len(inbox[t]) < ManagerCap
              /\ inbox' = [inbox EXCEPT ![t] = Append(@, cur)]
              /\ awaiting' = awaiting \union {t}
  /\ UNCHANGED <<logindVars, senders, phase, scopeOf, sessionOf, inHand, answers,
                 stuck, handlerVars, pc, listed, userVars, cur, got>>

\* One receiver resolves: with stats, or because the task dropped the sender.
Collect(t) ==
  /\ pc = "scrape" /\ pending = {} /\ t \in awaiting
  /\ awaiting' = awaiting \ {t}
  /\ \/ /\ <<t, cur>> \in answers
        /\ answers' = answers \ {<<t, cur>>}
        /\ got' = got \union {t}
     \/ /\ <<t, cur>> \notin answers /\ ~HoldsSender(t, cur)
        /\ UNCHANGED <<answers, got>>
  /\ UNCHANGED <<logindVars, senders, phase, scopeOf, sessionOf, inbox, inHand,
                 stuck, handlerVars, pc, listed, userVars, cur, pending>>

\* Replying with what has come in so far, without waiting for every manager.
RespondEarly ==
  /\ GoTo("scrape", "select")
  /\ pending = {}
  /\ IF status[cur] = "waiting"
     THEN /\ replied' = replied \union {cur}
          /\ report' = [report EXCEPT ![cur] = got]
     ELSE UNCHANGED <<replied, report>>
  /\ cur' = NoRequest
  /\ awaiting' = {}
  /\ got' = {}
  /\ UNCHANGED <<logindVars, managerVars, status, requests, receiverOpen, listed,
                 userVars, pending>>

\* Every receiver has resolved: send the merged stats.  A handler that has
\* gone does not matter.
Respond ==
  /\ GoTo("scrape", "select")
  /\ pending = {} /\ awaiting = {}
  /\ IF status[cur] = "waiting"
     THEN /\ replied' = replied \union {cur}
          /\ report' = [report EXCEPT ![cur] = got]
     ELSE UNCHANGED <<replied, report>>
  /\ cur' = NoRequest
  /\ got' = {}
  /\ UNCHANGED <<logindVars, managerVars, status, requests, receiverOpen, listed,
                 userVars, pending, awaiting>>

\* main sees the error and exits.
Exit ==
  /\ GoTo("failed", "exited")
  /\ UNCHANGED <<logindVars, managerVars, handlerVars, listed, userVars, scrapeVars>>

-----------------------------------------------------------------------------
(* Calls that get no reply: none has a timeout.                            *)

Connecting == pc \in {"spawnListed", "spawnNew"}

\* logind, or a session bus that is connected to, stays silent.
Stall ==
  /\ stalled = {}
  /\ \E b \in SilentBuses :
       /\ IF b = System
          THEN StartupCall \/ pc = "inspectNew"
          ELSE Connecting /\ b \in found /\ session[b] = "active"
       /\ stalled' = {<<b, IF b = System THEN 0 ELSE logins[b]>>}
  /\ UNCHANGED <<logindVars, managerVars, handlerVars, pc, listed, found, scrapeVars>>

\* The call will never return.  One to a session bus does when the session ends.
NoReplyComes ==
  \E call \in stalled :
    call[1] # System =>
      session[call[1]] = "active" /\ logins[call[1]] = call[2]

\* The session is over and its bus closes the connection that was being made.
ConnectFails ==
  /\ Connecting /\ stalled # {} /\ ~NoReplyComes
  /\ found' = found \ {call[1] : call \in stalled}
  /\ stalled' = {}
  /\ pc' = IF pc = "spawnNew" THEN "select" ELSE pc
  /\ UNCHANGED <<logindVars, managerVars, handlerVars, listed, scrapeVars>>

\* The euid cannot be restored after a second attempt to connect: a panic, in
\* main's own future, which ends the process.
RestorePanics == Connecting /\ found # {} /\ ~NoReplyComes /\ Fail

\* The coordinator waits for a D-Bus reply that never comes: its own, or one of
\* a manager whose stats it awaits.
Blocked ==
  \/ NoReplyComes
  \/ pc = "scrape" /\ pending = {} /\ \E t \in awaiting : Waits(t)

-----------------------------------------------------------------------------
\* What the coordinator does when it is scheduled and not at the select!.
Advance ==
  \/ /\ stalled = {}
     /\ \/ Start \/ ListUsers \/ AllInspected \/ AllSpawned
        \/ SubscribeNew \/ SubscribeRemoved
        \/ \E u \in Uids : InspectListed(u) \/ SpawnListed(u)
        \/ InspectNew \/ SpawnNew
        \/ \E s \in Scopes : FanOut(s)
        \/ \E t \in Tasks : Collect(t)
        \/ Respond \/ Exit
  \/ ConnectFails

SelectArm == TakeRequest \/ TakeUserNew \/ TakeUserRemoved

CoordinatorNext == Advance \/ SelectArm \/ StartupError \/ Stall \/ RestorePanics

Running == pc # "exited"

\* Nothing is left to do, or the coordinator is blocked: the only states the
\* system may stay in for good.
Quiescent ==
  /\ \/ pc = "exited"
     \/ /\ pc = "select"
        /\ requests = <<>> /\ userNew = <<>> /\ userRemoved = <<>>
        /\ \A r \in Requests : status[r] \in Outcomes
     \/ Blocked
  /\ UNCHANGED vars

\* A step of one of the others, as a step of the whole.
OfManager(A) == Running /\ A /\ UNCHANGED <<logindVars, handlerVars, coordVars>>
OfHandler(A) == Running /\ A /\ UNCHANGED <<logindVars, managerVars, coordVars>>
OfLogind(A)  == Running /\ A /\ UNCHANGED <<managerVars, handlerVars, coordVars>>

Next ==
  \/ Running /\ CoordinatorNext
  \/ OfManager(ManagerNext)
  \/ OfHandler(HandlerNext)
  \/ OfLogind(LogindNext)
  \/ Quiescent

Spec == Init /\ [][Next]_vars

(***************************************************************************)
(* tokio polls every woken task again, so no task waits for ever where it  *)
(* can go on.  select! starts at a random arm, so an arm that is ready     *)
(* again and again is taken: strong fairness.  logind finishes starting    *)
(* and stopping a session.  Nobody has to log in or out, no scraper has to *)
(* come or stay, and no call has to fail.                                  *)
(***************************************************************************)
Fairness ==
  /\ WF_vars(Advance)
  /\ SF_vars(TakeRequest) /\ SF_vars(TakeUserNew) /\ SF_vars(TakeUserRemoved)
  /\ \A t \in Tasks :
       /\ WF_vars(OfManager(FinishLoading(t)))
       /\ WF_vars(OfManager(StreamsEnded(t)))
       /\ WF_vars(OfManager(TakeInbox(t)))
       /\ WF_vars(OfManager(Answer(t)))
  /\ \A r \in Requests : WF_vars(OfHandler(HandlerStep(r)))
  /\ \A u \in Uids : WF_vars(OfLogind(BusUp(u))) /\ WF_vars(OfLogind(RemoveUser(u)))

FairSpec == Spec /\ Fairness

\* The coordinator does not end up blocked for good: what the properties that
\* say that something happens rely on.
Unblocked == []<>~Blocked

-----------------------------------------------------------------------------
(* The scrape path.                                                        *)

\* A manager task never has more than one request outstanding, so the
\* coordinator never waits for room in a manager's channel: each scrape is
\* resolved by every manager before the next begins, whatever managers end,
\* are replaced or unregistered in between (coordinator.rs:61-76).
OneOutstandingRequest ==
  \A t \in Tasks :
    Len(inbox[t]) + (IF inHand[t] = NoRequest THEN 0 ELSE 1) <= 1

\* A request whose handler waits is in exactly one place: the channel, the
\* coordinator's hand or its own oneshot.  It is neither lost nor handled
\* twice, even when other handlers go away while it is queued
\* (router.rs:17-35, coordinator.rs:61-76, 99).
EachRequestInOnePlace ==
  /\ \A r \in Requests : status[r] = "waiting" /\ receiverOpen =>
       r \in ToSet(requests) \union {cur} \union replied
  /\ \A i, j \in DOMAIN requests : requests[i] = requests[j] => i = j
  /\ \A r \in ToSet(requests) : r # cur /\ r \notin replied
  /\ cur \notin replied

\* How far a scrape is, and which tasks have ended, to ScrapeService.
Asked ==
  [r \in Requests |->
     CASE r \in replied -> "served"
       [] r \notin replied /\ status[r] \in {"sending", "waiting"} -> "pending"
       [] r \notin replied /\ status[r] = "idle" -> "idle"
       [] OTHER -> "dropped"]

Dead == {t \in Tasks : phase[t] = "ended"}

Service == INSTANCE ScrapeService WITH
  asked <- Asked, given <- report, registry <- senders, dead <- Dead

\* What scrapers get is what ScrapeService promises: each report comes from an
\* atomic look at the registry and has every registered manager that has not
\* ended, although the code asks the managers one by one while they run and
\* end (coordinator.rs:61-76).
ServesSnapshots == Service!Spec

\* A scraper that stays gets an answer: tasks may end, users come and go, other
\* scrapers leave, a connection hang until its session ends.  Only a D-Bus call
\* that never returns can keep it, and then every scraper, waiting for ever: one
\* of a manager that is asked, of logind, or the connection to a session bus
\* (coordinator.rs:50, 69-74, 109-126).
ScrapeResolved ==
  Unblocked => \A r \in Requests :
    status[r] = "sending" ~> (status[r] \in Outcomes \/ pc = "exited")

\* Each task is to the coordinator what TaskView says.  UnitMonitor shows that
\* monitor_units is such a task.
Task(t) == INSTANCE TaskView WITH
  phase <- IF phase[t] = "unborn" THEN "loading" ELSE phase[t],
  waiting <- Len(inbox[t]),
  open <- phase[t] = "unborn" \/ Registered(t)

\* Whatever the coordinator does to its map, requests reach a task only through
\* the sender that is registered for it, and only an end loses one; a task that
\* has lost its sender never has one again (coordinator.rs:36-45, 61-68, 140).
ActsAsTask ==
  /\ \A t \in Tasks : Task(t)!Init
  /\ [][\A t \in Tasks : [Task(t)!Next]_(Task(t)!taskVars)]_vars

-----------------------------------------------------------------------------
(* Following users.                                                        *)

\* The sender registered for user u is that of a task for the latest session,
\* which may have ended since.
Current(u) == senders[u] # NoTask /\ sessionOf[senders[u]] = logins[u]

\* A sender that outlives its user's session is about to be dropped: the
\* UserRemoved signal that says so is still in its stream, unless it was sent
\* before the stream was open (coordinator.rs:85-95, 143-147).
StaleSenderHasRemoval ==
  \A u \in Uids : senders[u] # NoTask =>
    \/ Current(u) /\ session[u] \in {"active", "closing"}
    \/ u \in ToSet(userRemoved)
    \/ u \in missedRemoved

\* A user who is logged in has the task of the session registered, or is still
\* to get it: listed, found or named by an unread UserNew, which no manager of an
\* older session, no signal about one and no other user can replace.  The
\* exceptions are those that the histories name (coordinator.rs:47-59, 85-95,
\* 102-147).
ActiveUserIsComing ==
  \A u \in Uids \ Refusing :
    session[u] = "active" /\ u \notin missedNew /\ u \notin overlapped =>
      \/ Current(u) \/ u \in ToSet(userNew)
      \/ u \in listed \union found
      \/ pc \in {"failed", "exited"}

\* So a user who has gone disappears from the exporter, although its task lives
\* on, unless the coordinator is blocked for ever (coordinator.rs:137-141).
DepartedUserDropped ==
  Unblocked => \A u \in Uids :
    (session[u] = "absent" /\ u \notin missedRemoved /\ senders[u] # NoTask)
      ~> (senders[u] = NoTask \/ session[u] # "absent" \/ pc = "exited")

\* The user's task runs and gets the scrapes.
Monitored(u) == Current(u) /\ phase[senders[u]] \in {"ready", "serving"}

StaysMonitored(u) == <>[](Monitored(u) \/ pc = "exited")

\* A task of the user's present session has failed, or hangs.  Nothing spawns
\* another one for the session.
TaskLost(u) ==
  \E t \in Tasks :
    /\ scopeOf[t] = u /\ sessionOf[t] = logins[u]
    /\ phase[t] = "ended" \/ Waits(t)

\* A user who stays logged in ends up monitored for good, by a task that runs, if
\* the session was listed with its bus up, or UserNew found the stream open and
\* was taken after the bus came up; no UserRemoved of an older session was unread
\* at that time; the task does not fail; and no call of it or of the coordinator
\* hangs (coordinator.rs:40, 47-59, 85-95, 102-141, service.rs:200-286).
UserMonitoredUnlessOverlapped ==
  Unblocked => \A u \in Uids \ Refusing :
    <>[](session[u] = "active" /\ u \notin missedNew /\ u \notin overlapped
           /\ ~TaskLost(u))
      => StaysMonitored(u)

\* The same without the condition on older signals (README.md:76-77).
SignalledUserMonitored ==
  Unblocked => \A u \in Uids \ Refusing :
    <>[](session[u] = "active" /\ u \notin missedNew /\ ~TaskLost(u))
      => StaysMonitored(u)

=============================================================================
