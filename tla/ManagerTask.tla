----------------------------- MODULE ManagerTask -----------------------------
(***************************************************************************)
(* The manager tasks: one tokio task per monitored systemd manager, each   *)
(* running monitor_manager (src/service/service.rs) on a D-Bus connection  *)
(* of its own.  Here a task is what the coordinator sees of it: a bounded  *)
(* channel of scrape requests, a reply to each, and an end.                *)
(*                                                                         *)
(* A StatsRequest holds the sender of a oneshot channel.  The receiver of  *)
(* that channel resolves when the sender is used, and fails when it is     *)
(* dropped: see HoldsSender.                                               *)
(***************************************************************************)
EXTENDS Logind

CONSTANTS
  ManagerCap,   \* capacity of a task's channel (8 in the code)
  HangScopes    \* scopes whose manager may stop answering on D-Bus

ASSUME ManagerAssumption ==
  /\ ManagerCap \in Nat \ {0}
  /\ HangScopes \subseteq Scopes

VARIABLES
  senders,    \* the coordinator's map: scope -> task that receives its requests
  phase,      \* where the task is in monitor_manager
  scopeOf,    \* the scope the task was spawned for
  sessionOf,  \* the login session whose bus the task is connected to
  inbox,      \* requests in the task's channel
  inHand,     \* the request the task is collecting stats for
  answers,    \* <<task, request>>: stats sent, not yet received
  stuck       \* tasks that were left without a reply to a D-Bus call

managerVars == <<senders, phase, scopeOf, sessionOf, inbox, inHand, answers, stuck>>

Phases == {"unborn", "loading", "ready", "serving", "ended"}

ManagerTypeOK ==
  /\ senders \in [Scopes -> Tasks \union {NoTask}]
  /\ phase \in [Tasks -> Phases]
  /\ scopeOf \in [Tasks -> Scopes]
  /\ sessionOf \in [Tasks -> Nat]
  /\ inbox \in [Tasks -> Seq(Requests)]
  /\ inHand \in [Tasks -> Requests \union {NoRequest}]
  /\ answers \in SUBSET (Tasks \X Requests)
  /\ stuck \in SUBSET Tasks

ManagerInit ==
  /\ senders = [s \in Scopes |-> NoTask]
  /\ phase = [t \in Tasks |-> "unborn"]
  /\ scopeOf = [t \in Tasks |-> System]
  /\ sessionOf = [t \in Tasks |-> 0]
  /\ inbox = [t \in Tasks |-> <<>>]
  /\ inHand = [t \in Tasks |-> NoRequest]
  /\ answers = {}
  /\ stuck = {}

Registered(t) == senders[scopeOf[t]] = t

\* The task's connection still leads to a live bus.
Linked(t) ==
  LET s == scopeOf[t]
  IN  s # System => session[s] = "active" /\ logins[s] = sessionOf[t]

\* The task waits for a D-Bus reply that does not come.  When the session ends,
\* so does the connection, and the call fails.
Waits(t) == t \in stuck /\ Linked(t)

\* The oneshot sender of request r given to task t still exists.
HoldsSender(t, r) == r \in ToSet(inbox[t]) \/ inHand[t] = r

-----------------------------------------------------------------------------
\* The identity of the next task; which one it is makes no difference.
FreshTask == CHOOSE t \in Tasks : phase[t] = "unborn"

\* Coordinator::spawn_manager: a new task, and its sender replaces any older
\* one of the scope, which closes the older task's channel.
SpawnManager(t, s) ==
  /\ phase[t] = "unborn" /\ t = FreshTask
  /\ phase' = [phase EXCEPT ![t] = "loading"]
  /\ scopeOf' = [scopeOf EXCEPT ![t] = s]
  /\ sessionOf' = [sessionOf EXCEPT ![t] = IF s = System THEN 0 ELSE logins[s]]
  /\ senders' = [senders EXCEPT ![s] = t]
  /\ UNCHANGED <<inbox, inHand, answers, stuck>>

\* The initial load_all and the subscriptions have succeeded.
Load(t) ==
  /\ phase[t] = "loading" /\ t \notin stuck /\ Linked(t)
  /\ phase' = [phase EXCEPT ![t] = "ready"]
  /\ UNCHANGED <<senders, scopeOf, sessionOf, inbox, inHand, answers, stuck>>

\* The end of a task that forgets to drop the requests of its channel.
EndKeepingRequests(t) ==
  /\ phase' = [phase EXCEPT ![t] = "ended"]
  /\ UNCHANGED <<senders, scopeOf, sessionOf, inbox, inHand, answers, stuck>>

\* The task's future ends: the receiver, the queued requests and the one in
\* hand are dropped.  The coordinator is not told.
End(t) ==
  /\ phase' = [phase EXCEPT ![t] = "ended"]
  /\ inbox' = [inbox EXCEPT ![t] = <<>>]
  /\ inHand' = [inHand EXCEPT ![t] = NoRequest]
  /\ UNCHANGED <<senders, scopeOf, sessionOf, answers, stuck>>

\* A D-Bus call made by load_all, a subscription or an event handler returns
\* an error, which `?` hands to the caller.
DBusError(t) == phase[t] \in {"loading", "ready"} /\ ~Waits(t) /\ End(t)

\* Collecting stats panics (io.stat holds a word without '=').
Panic(t) == phase[t] = "serving" /\ ~Waits(t) /\ End(t)

\* Every signal stream has ended and every sender is gone: `else => break`.
StreamsEnded(t) ==
  /\ phase[t] = "ready" /\ ~Waits(t)
  /\ ~Linked(t) /\ ~Registered(t) /\ inbox[t] = <<>>
  /\ End(t)

\* The select! loop takes a request.
TakeInbox(t) ==
  /\ phase[t] = "ready" /\ ~Waits(t)
  /\ inbox[t] # <<>>
  /\ phase' = [phase EXCEPT ![t] = "serving"]
  /\ inHand' = [inHand EXCEPT ![t] = Head(inbox[t])]
  /\ inbox' = [inbox EXCEPT ![t] = Tail(@)]
  /\ UNCHANGED <<senders, scopeOf, sessionOf, answers, stuck>>

\* Stats of every unit are collected, failures as defaults, and sent.
Answer(t) ==
  /\ phase[t] = "serving" /\ ~Waits(t)
  /\ phase' = [phase EXCEPT ![t] = "ready"]
  /\ inHand' = [inHand EXCEPT ![t] = NoRequest]
  /\ answers' = answers \union {<<t, inHand[t]>>}
  /\ UNCHANGED <<senders, scopeOf, sessionOf, inbox, stuck>>

\* A D-Bus call gets no reply; no call in the code has a timeout.
Hang(t) ==
  /\ phase[t] \in {"loading", "ready", "serving"} /\ t \notin stuck
  /\ scopeOf[t] \in HangScopes /\ Linked(t)
  /\ stuck' = stuck \union {t}
  /\ UNCHANGED <<senders, phase, scopeOf, sessionOf, inbox, inHand, answers>>

\* Loading comes to an end, one way or the other.
FinishLoading(t) == Load(t) \/ (phase[t] = "loading" /\ DBusError(t))

ManagerNext ==
  \E t \in Tasks :
    \/ Load(t) \/ DBusError(t) \/ Panic(t) \/ StreamsEnded(t)
    \/ TakeInbox(t) \/ Answer(t) \/ Hang(t)

=============================================================================
