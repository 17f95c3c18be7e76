--------------------------- MODULE UserConnection ---------------------------
(***************************************************************************)
(* connect_user_manager (src/service/user_manager.rs): a connection to a   *)
(* user's session bus, tried as the exporter is, and once more under the   *)
(* user's uid if the bus refuses root.                                     *)
(*                                                                         *)
(* The effective uid belongs to the process: whoever connects while one    *)
(* call has switched it connects under that uid.  The function is public   *)
(* and made for parallel calls; the coordinator makes one at a time.       *)
(***************************************************************************)

CONSTANTS
  Callers,     \* the calls that may be under way at the same time
  NoCaller,
  Users,
  NoUser,
  Root,
  Broken,      \* the credentials of a connection that has been cut
  StartedAs,   \* the uids the exporter may have been started under
  MaySwitch,   \* whether a root exporter may have the right to switch
  RootAllowed  \* users whose session bus has the policy that admits root

ASSUME ConnectionAssumption ==
  /\ Root \notin Users /\ NoUser \notin Users /\ NoCaller \notin Callers
  /\ Broken \notin Users \union {Root}
  /\ StartedAs \subseteq Users \union {Root}
  /\ MaySwitch \subseteq BOOLEAN /\ RootAllowed \subseteq Users

VARIABLES
  started,    \* the uid the exporter was started under
  canSwitch,  \* it may change its effective uid
  euid,       \* the effective uid of the process
  bus,        \* user -> "up", "down", or "silent": accepts and never answers
  guard,      \* the caller that holds SETEUID_MUTEX
  pc, target, result,  \* of each call
  cred,       \* the uid that the bus sees of a caller's connection
  excused     \* history: callers whose bus was closed to the exporter, or who
              \* were not the only ones, at some moment of the call

vars == <<started, canSwitch, euid, bus, guard, pc, target, result, cred, excused>>

Stages == {"idle", "connect", "handshake", "refused", "lock", "switch", "restore",
           "done", "crashed"}

TypeOK ==
  /\ started \in StartedAs /\ canSwitch \in MaySwitch
  /\ euid \in Users \union {Root}
  /\ bus \in [Users -> {"up", "down", "silent"}]
  /\ guard \in Callers \union {NoCaller}
  /\ pc \in [Callers -> Stages]
  /\ \A c \in Callers : pc[c] \in {"switch", "restore"} => guard = c
  /\ target \in [Callers -> Users \union {NoUser}]
  /\ \A c \in Callers : pc[c] # "idle" => target[c] # NoUser
  /\ result \in [Callers -> {"none", "ok", "err"}]
  /\ cred \in [Callers -> Users \union {Root, Broken}]
  /\ excused \in SUBSET Callers

Init ==
  /\ started \in StartedAs /\ canSwitch \in MaySwitch
  /\ euid = started
  /\ bus \in [Users -> {"up", "down", "silent"}]
  /\ guard = NoCaller
  /\ pc = [c \in Callers |-> "idle"]
  /\ target = [c \in Callers |-> NoUser]
  /\ result = [c \in Callers |-> "none"]
  /\ cred = [c \in Callers |-> Broken]
  /\ excused = {}

exporter == <<started, canSwitch>>

GoTo(c, from, to) == pc[c] = from /\ pc' = [pc EXCEPT ![c] = to]

-----------------------------------------------------------------------------
Crashed == \E c \in Callers : pc[c] = "crashed"

\* connect_user_manager is called.
Call(c, u) ==
  /\ ~Crashed
  /\ GoTo(c, "idle", "connect")
  /\ target' = [target EXCEPT ![c] = u]
  /\ result' = [result EXCEPT ![c] = "none"]
  /\ UNCHANGED <<exporter, euid, bus, guard, cred>>

\* The call has its result.  Under the mutex root has to be restored first.
Finish(c, r) ==
  /\ pc' = [pc EXCEPT ![c] = IF guard = c THEN "restore" ELSE "done"]
  /\ result' = [result EXCEPT ![c] = r]

\* connect(2): the kernel notes the effective uid for the bus to see.
Connect(c) ==
  /\ pc[c] = "connect"
  /\ IF bus[target[c]] = "down"
     THEN Finish(c, "err") /\ UNCHANGED cred
     ELSE /\ GoTo(c, "connect", "handshake")
          /\ cred' = [cred EXCEPT ![c] = euid]
          /\ UNCHANGED result
  /\ UNCHANGED <<exporter, euid, bus, guard, target>>

Admits(u, uid) == uid = u \/ (uid = Root /\ u \in RootAllowed)

\* The bus admits the connection,
Accepted(c) ==
  /\ pc[c] = "handshake" /\ bus[target[c]] = "up" /\ Admits(target[c], cred[c])
  /\ Finish(c, "ok")
  /\ UNCHANGED <<exporter, euid, bus, guard, target, cred>>

\* A handler that takes a broken pipe for a bus that is down.
RefusedFinally(c) ==
  /\ pc[c] = "handshake" /\ bus[target[c]] = "up" /\ ~Admits(target[c], cred[c])
  /\ Finish(c, "err")
  /\ UNCHANGED <<exporter, euid, bus, guard, target, cred>>

\* or closes it: a broken pipe, which is final in the second attempt.
Refused(c) ==
  /\ pc[c] = "handshake"
  /\ \/ bus[target[c]] = "up" /\ ~Admits(target[c], cred[c])
     \/ cred[c] = Broken
  /\ IF guard = c THEN Finish(c, "err")
                  ELSE GoTo(c, "handshake", "refused") /\ UNCHANGED result
  /\ UNCHANGED <<exporter, euid, bus, guard, target, cred>>

\* Any other error ends the call.
OtherError(c) ==
  /\ pc[c] = "handshake" /\ cred[c] = Broken
  /\ Finish(c, "err")
  /\ UNCHANGED <<exporter, euid, bus, guard, target, cred>>

\* is_running_as_root.
TestRoot(c) ==
  /\ pc[c] = "refused"
  /\ IF euid = Root THEN GoTo(c, "refused", "lock") /\ UNCHANGED result
                    ELSE Finish(c, "err")
  /\ UNCHANGED <<exporter, euid, bus, guard, target, cred>>

\* connect_as_uid that does not wait for the mutex.
LockNothing(c) ==
  /\ GoTo(c, "lock", "switch")
  /\ guard' = c
  /\ UNCHANGED <<exporter, euid, bus, target, result, cred>>

Lock(c) ==
  /\ GoTo(c, "lock", "switch")
  /\ guard = NoCaller /\ guard' = c
  /\ UNCHANGED <<exporter, euid, bus, target, result, cred>>

\* A switch that keeps the mutex when it is not allowed.
SwitchKeepingGuard(c) ==
  /\ pc[c] = "switch"
  /\ IF canSwitch
     THEN /\ GoTo(c, "switch", "connect")
          /\ euid' = target[c]
          /\ UNCHANGED <<guard, result>>
     ELSE /\ GoTo(c, "switch", "done")
          /\ result' = [result EXCEPT ![c] = "err"]
          /\ UNCHANGED <<euid, guard>>
  /\ UNCHANGED <<exporter, bus, target, cred>>

\* seteuid(uid): the second attempt, or an error.
Switch(c) ==
  /\ pc[c] = "switch"
  /\ IF canSwitch
     THEN /\ GoTo(c, "switch", "connect")
          /\ euid' = target[c]
          /\ UNCHANGED <<guard, result>>
     ELSE /\ GoTo(c, "switch", "done")
          /\ guard' = NoCaller
          /\ result' = [result EXCEPT ![c] = "err"]
          /\ UNCHANGED euid
  /\ UNCHANGED <<exporter, bus, target, cred>>

\* An early return on an error of the second attempt.
RestoreIfOk(c) ==
  /\ GoTo(c, "restore", "done")
  /\ euid' = IF result[c] = "ok" THEN Root ELSE euid
  /\ guard' = NoCaller
  /\ UNCHANGED <<exporter, bus, target, result, cred>>

\* seteuid(0), whatever the second attempt came to; the mutex is released.
Restore(c) ==
  /\ GoTo(c, "restore", "done")
  /\ euid' = Root
  /\ guard' = NoCaller
  /\ UNCHANGED <<exporter, bus, target, result, cred>>

\* seteuid(0) fails: a panic, which ends the process.
RestoreFails(c) ==
  /\ pc[c] = "restore"
  /\ pc' = [d \in Callers |-> IF pc[d] = "idle" THEN "idle" ELSE "crashed"]
  /\ UNCHANGED <<exporter, euid, bus, guard, target, result, cred>>

Return(c) ==
  /\ GoTo(c, "done", "idle")
  /\ UNCHANGED <<exporter, euid, bus, guard, target, result, cred>>

\* A session bus comes, goes or stalls.  One that goes cuts its connections.
BusChanges(u) ==
  /\ \E s \in {"up", "down", "silent"} \ {bus[u]} : bus' = [bus EXCEPT ![u] = s]
  /\ cred' = [c \in Callers |->
                IF bus'[u] = "down" /\ target[c] = u /\ pc[c] = "handshake"
                THEN Broken ELSE cred[c]]
  /\ UNCHANGED <<exporter, euid, guard, pc, target, result>>

-----------------------------------------------------------------------------
CallStep(c) ==
  \/ Connect(c) \/ Accepted(c) \/ Refused(c) \/ OtherError(c) \/ TestRoot(c) \/ Lock(c)
  \/ Switch(c) \/ Restore(c) \/ Return(c)

\* The users whose bus would let the exporter in, one way or the other.
Open == {u \in Users : bus[u] = "up" /\ (Admits(u, started) \/ (started = Root /\ canSwitch))}
Calling == [c \in Callers |-> IF pc[c] = "idle" THEN NoUser ELSE target[c]]

Once == INSTANCE ConnectOnce WITH open <- Open, calling <- Calling

History ==
  excused' = {c \in Callers : pc'[c] # "idle" /\ (c \in excused \/ Once!Excuse(c)')}

Next ==
  /\ \/ \E c \in Callers :
          (\E u \in Users : Call(c, u)) \/ CallStep(c) \/ RestoreFails(c)
     \/ \E u \in Users : BusChanges(u)
  /\ History

Spec == Init /\ [][Next]_vars

(***************************************************************************)
(* tokio polls a woken call again, and its mutex is fair: it is handed to  *)
(* waiting calls in order.  No bus has to answer.                          *)
(***************************************************************************)
Fairness ==
  \A c \in Callers : WF_vars(CallStep(c) /\ History) /\ SF_vars(Lock(c) /\ History)

FairSpec == Spec /\ Fairness

-----------------------------------------------------------------------------
\* The process has the uid it was started with whenever no call holds the mutex,
\* whatever became of the second attempts (user_manager.rs:91-117).
EuidRestored == guard = NoCaller => euid = started

\* The second attempt reaches the bus as the user it belongs to: parallel calls
\* "don't clobber each other's euid" (user_manager.rs:39-41, 104).
SecondAsOwner ==
  \A c \in Callers : pc[c] = "handshake" /\ guard = c => cred[c] \in {target[c], Broken}

\* A call is one look at the bus: a bus that refuses root is entered by the
\* fallback, and a call that nothing disturbs never fails (user_manager.rs:75-89;
\* Coordinator!SpawnUser takes it for one step).
LooksOnce == Once!Spec

BusesAnswer == <>[](\A u \in Users : bus[u] # "silent")

\* No call waits for ever, for the mutex or for a bus that answers.
CallsReturn ==
  BusesAnswer => \A c \in Callers : pc[c] = "connect" ~> pc[c] \in {"done", "crashed"}

=============================================================================
