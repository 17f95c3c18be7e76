------------------------ MODULE UserConnectionProofs ------------------------
(***************************************************************************)
(* Proofs about UserConnection, for any number of calls under way: whose   *)
(* uid the process has, and that a call is one look at the bus.            *)
(***************************************************************************)
EXTENDS UserConnection, TLAPS

-----------------------------------------------------------------------------
(* The inductive invariant.                                                *)

\* Who holds the mutex is in its second attempt, or has brought the process
\* down; only a root exporter comes so far.
Held ==
  guard # NoCaller =>
    /\ pc[guard] \in {"switch", "connect", "handshake", "restore", "crashed"}
    /\ started = Root

LockedByRoot == \A c \in Callers : pc[c] = "lock" => started = Root

\* The effective uid is the one of the second attempt that is under way.
EuidOf ==
  /\ guard = NoCaller => euid = started
  /\ \A c \in Callers : guard = c =>
       /\ pc[c] = "switch" => euid = started
       /\ pc[c] \in {"connect", "handshake", "restore"} => euid = target[c] /\ canSwitch

CrashEndsAll ==
  \A c, d \in Callers : pc[c] = "crashed" => pc[d] \in {"idle", "crashed"}

UidInv == TypeOK /\ Held /\ LockedByRoot /\ EuidOf /\ CrashEndsAll

\* A call that may be excused is.
Excuses ==
  \A c \in Callers :
    /\ c \in excused => pc[c] # "idle"
    /\ pc[c] # "idle" /\ Once!Excuse(c) => c \in excused

\* The bus sees the uid the exporter was started with, the uid of the second
\* attempt, or, in parallel to another call, that call's.
Credentials ==
  \A c \in Callers : pc[c] = "handshake" =>
    IF cred[c] = Broken
    THEN c \in excused
    ELSE /\ guard = c => cred[c] = target[c]
         /\ \/ cred[c] = started
            \/ started = Root /\ canSwitch /\ (guard = c \/ c \in excused)

Refusals ==
  \A c \in Callers : pc[c] \in {"refused", "lock", "switch"} =>
    c \in excused \/ ~Admits(target[c], started)

Results ==
  \A c \in Callers :
    /\ pc[c] \in {"connect", "handshake", "refused", "lock", "switch"} => result[c] = "none"
    /\ pc[c] \in {"restore", "done"} => result[c] # "none"

CallInv == Excuses /\ Credentials /\ Refusals /\ Results

-----------------------------------------------------------------------------
(* Uids.                                                                   *)

LEMMA UidInit == Init => UidInv
  BY ConnectionAssumption
  DEF Init, UidInv, TypeOK, Stages, Held, LockedByRoot, EuidOf, CrashEndsAll

\* What a step does, History aside.
Step ==
  \/ \E c \in Callers :
       (\E u \in Users : Call(c, u)) \/ CallStep(c) \/ RestoreFails(c)
  \/ \E u \in Users : BusChanges(u)

LEMMA UidStep ==
  ASSUME UidInv, Step, History
  PROVE  UidInv'
<1> USE ConnectionAssumption DEF UidInv, TypeOK, Stages, Held, LockedByRoot, EuidOf,
        CrashEndsAll, exporter, GoTo, Finish
<1>0. excused' \in SUBSET Callers
  BY DEF History
<1>1. ASSUME NEW c \in Callers, NEW u \in Users, Call(c, u)
      PROVE  UidInv'
  BY <1>0, <1>1 DEF Call, Crashed
<1>2. ASSUME NEW c \in Callers, Connect(c)
      PROVE  UidInv'
  BY <1>0, <1>2 DEF Connect
<1>3. ASSUME NEW c \in Callers, Accepted(c) \/ Refused(c) \/ OtherError(c)
      PROVE  UidInv'
  BY <1>0, <1>3 DEF Accepted, Refused, OtherError
<1>4. ASSUME NEW c \in Callers, TestRoot(c)
      PROVE  UidInv'
  BY <1>0, <1>4 DEF TestRoot
<1>5. ASSUME NEW c \in Callers, Lock(c)
      PROVE  UidInv'
  BY <1>0, <1>5 DEF Lock
<1>6. ASSUME NEW c \in Callers, Switch(c)
      PROVE  UidInv'
  BY <1>0, <1>6 DEF Switch
<1>7. ASSUME NEW c \in Callers, Restore(c)
      PROVE  UidInv'
  BY <1>0, <1>7 DEF Restore
<1>8. ASSUME NEW c \in Callers, RestoreFails(c)
      PROVE  UidInv'
  BY <1>0, <1>8 DEF RestoreFails
<1>9. ASSUME NEW c \in Callers, Return(c)
      PROVE  UidInv'
  BY <1>0, <1>9 DEF Return
<1>10. ASSUME NEW u \in Users, BusChanges(u)
       PROVE  UidInv'
  BY <1>0, <1>10 DEF BusChanges
<1>. QED
  BY <1>1, <1>2, <1>3, <1>4, <1>5, <1>6, <1>7, <1>8, <1>9, <1>10 DEF Step, CallStep

LEMMA UidAlways == Spec => []UidInv
<1>1. UidInv /\ [Next]_vars => UidInv'
  <2>1. UidInv /\ UNCHANGED vars => UidInv'
    BY DEF vars, UidInv, TypeOK, Held, LockedByRoot, EuidOf, CrashEndsAll
  <2>. QED  BY <2>1, UidStep DEF Next, Step
<1>. QED  BY <1>1, UidInit, PTL DEF Spec

\* The types.
THEOREM ConnectionTypes == Spec => []TypeOK
  BY UidAlways, PTL DEF UidInv

\* However many calls are under way and however they end, the process has the
\* uid it was started with whenever the mutex is free (user_manager.rs:91-117).
THEOREM UidRestored == Spec => []EuidRestored
<1>1. UidInv => EuidRestored
  BY DEF UidInv, EuidOf, EuidRestored
<1>. QED  BY <1>1, UidAlways, PTL

-----------------------------------------------------------------------------
(* Calls.                                                                  *)

LEMMA CallInit == Init => CallInv
  BY ConnectionAssumption
  DEF Init, CallInv, Excuses, Credentials, Refusals, Results, Once!Excuse, Calling

\* A call is excused for good, and one that has a reason is.
LEMMA ExcusesStep ==
  ASSUME UidInv, CallInv, History, UidInv'
  PROVE  /\ Excuses'
         /\ \A c \in Callers : c \in excused /\ pc'[c] # "idle" => c \in excused'
  BY DEF History, Excuses

\* Of two calls under way both are excused.
LEMMA NotAlone ==
  ASSUME UidInv, Excuses, NEW c \in Callers, NEW d \in Callers, c # d,
         pc[c] # "idle", pc[d] # "idle"
  PROVE  c \in excused
<1>1. Calling[d] # NoUser
  BY DEF Calling, UidInv, TypeOK
<1>. QED  BY <1>1 DEF Excuses, Once!Excuse

\* So is a call to a user whose bus is closed to the exporter.
LEMMA ClosedBus ==
  ASSUME UidInv, Excuses, NEW c \in Callers, pc[c] # "idle", target[c] \notin Open
  PROVE  c \in excused
  BY DEF Calling, UidInv, TypeOK, Excuses, Once!Excuse

LEMMA CallInvStep ==
  ASSUME UidInv, CallInv, Step, History, UidInv'
  PROVE  CallInv'
<1> USE ConnectionAssumption DEF exporter, GoTo, Finish
<1>1. /\ Excuses'
      /\ \A c \in Callers : c \in excused /\ pc'[c] # "idle" => c \in excused'
  BY ExcusesStep
<1>2. ASSUME NEW c \in Callers, NEW u \in Users, Call(c, u)
      PROVE  CallInv'
  BY <1>1, <1>2 DEF Call, CallInv, Credentials, Refusals, Results, UidInv, TypeOK
<1>3. ASSUME NEW c \in Callers, Connect(c)
      PROVE  CallInv'
  <2> USE DEF Connect
  <2>1. Refusals' /\ Results'
    BY <1>1, <1>3 DEF CallInv, Refusals, Results, UidInv, TypeOK
  <2>2. CASE bus[target[c]] = "down"
    BY <1>1, <1>3, <2>1, <2>2 DEF CallInv, Credentials, UidInv, TypeOK
  <2>3. CASE bus[target[c]] # "down"
    <3>1. pc'[c] = "handshake" /\ cred'[c] = euid /\ UNCHANGED <<guard, started, canSwitch, target>>
          /\ \A d \in Callers \ {c} : pc'[d] = pc[d] /\ cred'[d] = cred[d]
      BY <1>3, <2>3 DEF UidInv, TypeOK
    <3>2. cred'[c] # Broken
      BY <3>1 DEF UidInv, TypeOK
    <3>3. CASE guard \in {c, NoCaller}
      BY <1>1, <1>3, <2>1, <3>1, <3>2, <3>3
      DEF CallInv, Credentials, UidInv, TypeOK, EuidOf, Held
    <3>4. CASE guard \notin {c, NoCaller}
      <4>1. guard \in Callers /\ pc[guard] \notin {"idle", "crashed"} /\ pc'[guard] # "idle"
        BY <1>3, <3>1, <3>4 DEF UidInv, TypeOK, Held, CrashEndsAll
      <4>2. c \in excused'
        <5>1. Calling'[guard] # NoUser
          BY <4>1, <3>1 DEF Calling, UidInv, TypeOK
        <5>. QED  BY <1>1, <3>1, <3>4, <4>1, <5>1 DEF Excuses, Once!Excuse
      <4>3. euid = started \/ (started = Root /\ canSwitch)
        BY <4>1 DEF UidInv, EuidOf, Held
      <4>. QED
        BY <1>1, <2>1, <3>1, <3>2, <3>4, <4>2, <4>3 DEF CallInv, Credentials, UidInv, TypeOK
    <3>. QED  BY <3>3, <3>4
  <2>. QED  BY <2>2, <2>3
<1>4. ASSUME NEW c \in Callers, Accepted(c) \/ Refused(c) \/ OtherError(c)
      PROVE  CallInv'
  <2> USE DEF Accepted, Refused, OtherError
  <2>1. Credentials' /\ Results'
    BY <1>1, <1>4 DEF CallInv, Credentials, Results, UidInv, TypeOK
  <2>2. Refusals'
    <3>1. pc'[c] = "refused" => c \in excused \/ ~Admits(target[c], started)
      BY <1>4 DEF CallInv, Credentials, Admits, UidInv, TypeOK
    <3>. QED  BY <1>1, <1>4, <3>1 DEF CallInv, Refusals, Admits, UidInv, TypeOK
  <2>. QED  BY <1>1, <2>1, <2>2 DEF CallInv
<1>5. ASSUME NEW c \in Callers, TestRoot(c) \/ Lock(c) \/ Restore(c) \/ Return(c)
      PROVE  CallInv'
  BY <1>1, <1>5 DEF TestRoot, Lock, Restore, Return, CallInv, Credentials, Refusals,
     Results, Admits, UidInv, TypeOK
<1>6. ASSUME NEW c \in Callers, Switch(c)
      PROVE  CallInv'
  BY <1>1, <1>6 DEF Switch, CallInv, Credentials, Refusals, Results, Admits, UidInv, TypeOK
<1>7. ASSUME NEW c \in Callers, RestoreFails(c)
      PROVE  CallInv'
  BY <1>1, <1>7 DEF RestoreFails, CallInv, Credentials, Refusals, Results, UidInv, TypeOK
<1>8. ASSUME NEW u \in Users, BusChanges(u)
      PROVE  CallInv'
  <2> USE DEF BusChanges
  <2>1. ASSUME NEW c \in Callers, pc[c] = "handshake", cred[c] # Broken, cred'[c] = Broken
        PROVE  c \in excused'
    <3>1. bus'[u] = "down" /\ target'[c] = u /\ pc'[c] = "handshake"
      BY <1>8, <2>1 DEF UidInv, TypeOK
    <3>2. u \notin Open'
      BY <3>1 DEF Open
    <3>. QED  BY <1>1, <3>1, <3>2, ClosedBus DEF Excuses, Once!Excuse, Calling
  <2>. QED
    BY <1>1, <1>8, <2>1 DEF CallInv, Credentials, Refusals, Results, Admits, UidInv, TypeOK
<1>. QED
  BY <1>2, <1>3, <1>4, <1>5, <1>6, <1>7, <1>8 DEF Step, CallStep

ConnInv == UidInv /\ CallInv

LEMMA ConnAlways == Spec => []ConnInv
<1>1. ConnInv /\ [Next]_vars => CallInv' 
  <2>1. ConnInv /\ UNCHANGED vars => CallInv'
    BY DEF vars, ConnInv, CallInv, Excuses, Credentials, Refusals, Results, Once!Excuse,
       Calling, Open, Admits
  <2>. QED  BY <2>1, UidStep, CallInvStep DEF Next, Step, ConnInv
<1>. QED  BY <1>1, CallInit, UidAlways, PTL DEF Spec, ConnInv

\* The second attempt reaches the bus as the user it belongs to, however many
\* calls are under way (user_manager.rs:39-41, 104).
THEOREM SecondAttemptAsOwner == Spec => []SecondAsOwner
<1>1. ConnInv => SecondAsOwner
  BY DEF ConnInv, CallInv, Credentials, SecondAsOwner
<1>. QED  BY <1>1, ConnAlways, PTL

-----------------------------------------------------------------------------
(* Refinement.                                                             *)

\* What History does is what ConnectOnce does with excused.
LEMMA SameExcuses ==
  ASSUME UidInv', History
  PROVE  excused' = {c \in Callers : Calling'[c] # NoUser /\ (c \in excused \/ Once!Excuse(c)')}
<1>1. \A c \in Callers : Calling'[c] # NoUser <=> pc'[c] # "idle"
  BY DEF Calling, UidInv, TypeOK
<1>. QED  BY <1>1 DEF History

LEMMA OnceInit == Init => Once!Init
  BY DEF Init, Once!Init, Open, Calling

\* A step that gives no call, result or return is a change of the buses.
LEMMA OnceInternal ==
  ASSUME UidInv', History, UNCHANGED <<Calling, result>>
  PROVE  Once!Next
  BY SameExcuses DEF Once!Next, Once!BusesChange, Open

\* A result is one that the bus gave reason for.
LEMMA OnceFinish ==
  ASSUME ConnInv, UidInv', History, NEW c \in Callers, NEW r \in {"ok", "err"},
         pc[c] \in {"connect", "handshake", "refused", "switch"}, pc'[c] # "idle",
         result' = [result EXCEPT ![c] = r], 
         \A d \in Callers \ {c} : pc'[d] = pc[d],
         UNCHANGED <<started, canSwitch, bus, target>>,
         r = "ok" => target[c] \in Open, r = "err" => c \in excused
  PROVE  Once!Next
<1>1. Open' = Open /\ Calling' = Calling
  BY DEF Open, Admits, Calling
<1>2. Calling[c] = target[c] /\ result[c] = "none"
  BY DEF Calling, ConnInv, CallInv, Results
<1>. QED  BY <1>1, <1>2, SameExcuses DEF Once!Next, Once!Succeed, Once!GiveUp

LEMMA OnceStep ==
  ASSUME ConnInv, Step, History, UidInv'
  PROVE  Once!Next
<1> USE ConnectionAssumption DEF exporter, GoTo, Finish
<1>1. ASSUME NEW c \in Callers, NEW u \in Users, Call(c, u)
      PROVE  Once!Next
  <2>1. Open' = Open /\ Calling' = [Calling EXCEPT ![c] = u] /\ Calling[c] = NoUser
    BY <1>1 DEF Call, Open, Admits, Calling, ConnInv, UidInv, TypeOK
  <2>. QED  BY <1>1, <2>1, SameExcuses DEF Call, Once!Next, Once!Call
<1>2. ASSUME NEW c \in Callers, Connect(c)
      PROVE  Once!Next
  <2>1. CASE bus[target[c]] = "down"
    <3>1. c \in excused
      BY <1>2, <2>1, ClosedBus DEF Connect, ConnInv, CallInv, Open
    <3>. QED
      BY <1>2, <2>1, <3>1, OnceFinish DEF Connect, ConnInv, UidInv, TypeOK
  <2>2. CASE bus[target[c]] # "down"
    BY <1>2, <2>2, OnceInternal DEF Connect, Calling, ConnInv, UidInv, TypeOK
  <2>. QED  BY <2>1, <2>2
<1>3. ASSUME NEW c \in Callers, Accepted(c)
      PROVE  Once!Next
  <2>1. target[c] \in Open
    BY <1>3 DEF Accepted, Open, Admits, ConnInv, CallInv, Credentials, UidInv, TypeOK
  <2>2. /\ pc[c] = "handshake" /\ pc'[c] # "idle" /\ result' = [result EXCEPT ![c] = "ok"]
        /\ \A d \in Callers \ {c} : pc'[d] = pc[d]
        /\ UNCHANGED <<started, canSwitch, bus, target>>
    BY <1>3 DEF Accepted, ConnInv, UidInv, TypeOK
  <2>. QED  BY <2>1, <2>2, OnceFinish
<1>4. ASSUME NEW c \in Callers, Refused(c) \/ OtherError(c)
      PROVE  Once!Next
  <2>1. CASE pc'[c] = "refused"
    BY <1>4, <2>1, OnceInternal DEF Refused, OtherError, Calling, ConnInv, UidInv, TypeOK
  <2>2. CASE pc'[c] # "refused"
    <3>1. cred[c] = Broken
      BY <1>4, <2>2 DEF Refused, OtherError, Admits, ConnInv, CallInv, Credentials, UidInv, TypeOK
    <3>2. c \in excused
      BY <1>4, <3>1 DEF Refused, OtherError, ConnInv, CallInv, Credentials
    <3>. QED
      BY <1>4, <2>2, <3>2, OnceFinish DEF Refused, OtherError, ConnInv, UidInv, TypeOK
  <2>. QED  BY <2>1, <2>2
<1>5. ASSUME NEW c \in Callers, TestRoot(c)
      PROVE  Once!Next
  <2>1. CASE euid = Root
    BY <1>5, <2>1, OnceInternal DEF TestRoot, Calling, ConnInv, UidInv, TypeOK
  <2>2. CASE euid # Root
    <3>1. CASE guard = NoCaller
      <4>1. started # Root
        BY <2>2, <3>1 DEF ConnInv, UidInv, EuidOf
      <4>2. c \in excused
        BY <1>5, <4>1, ClosedBus DEF TestRoot, ConnInv, CallInv, Refusals, Open
      <4>. QED
        BY <1>5, <2>2, <4>2, OnceFinish DEF TestRoot, ConnInv, UidInv, TypeOK
    <3>2. CASE guard # NoCaller
      <4>1. guard \in Callers /\ guard # c /\ pc[guard] # "idle"
        BY <1>5, <3>2 DEF TestRoot, ConnInv, UidInv, TypeOK, Held
      <4>2. c \in excused
        BY <1>5, <4>1, NotAlone DEF TestRoot, ConnInv, CallInv
      <4>. QED
        BY <1>5, <2>2, <4>2, OnceFinish DEF TestRoot, ConnInv, UidInv, TypeOK
    <3>. QED  BY <3>1, <3>2
  <2>. QED  BY <2>1, <2>2
<1>6. ASSUME NEW c \in Callers, Switch(c)
      PROVE  Once!Next
  <2>1. CASE canSwitch
    <3>1. /\ pc[c] = "switch" /\ pc' = [pc EXCEPT ![c] = "connect"]
          /\ UNCHANGED <<target, result>>
      BY <1>6, <2>1 DEF Switch
    <3>2. Calling' = Calling
      BY <3>1 DEF Calling, ConnInv, UidInv, TypeOK
    <3>. QED  BY <3>1, <3>2, OnceInternal
  <2>2. CASE ~canSwitch
    <3>1. c \in excused
      BY <1>6, <2>2, ClosedBus DEF Switch, ConnInv, CallInv, Refusals, Open
    <3>. QED
      BY <1>6, <2>2, <3>1, OnceFinish DEF Switch, ConnInv, UidInv, TypeOK
  <2>. QED  BY <2>1, <2>2
<1>7. ASSUME NEW c \in Callers, Lock(c) \/ Restore(c) \/ RestoreFails(c)
      PROVE  Once!Next
  BY <1>7, OnceInternal DEF Lock, Restore, RestoreFails, Calling, ConnInv, UidInv, TypeOK
<1>8. ASSUME NEW c \in Callers, Return(c)
      PROVE  Once!Next
  <2>1. Open' = Open /\ Calling' = [Calling EXCEPT ![c] = NoUser]
        /\ Calling[c] # NoUser /\ result[c] # "none"
    BY <1>8 DEF Return, Open, Admits, Calling, ConnInv, CallInv, Results, UidInv, TypeOK
  <2>. QED  BY <1>8, <2>1, SameExcuses DEF Return, Once!Next, Once!Return
<1>9. ASSUME NEW u \in Users, BusChanges(u)
      PROVE  Once!Next
  BY <1>9, OnceInternal DEF BusChanges, Calling
<1>. QED
  BY <1>1, <1>2, <1>3, <1>4, <1>5, <1>6, <1>7, <1>8, <1>9 DEF Step, CallStep

\* A call to connect_user_manager is one look at the user's bus: the fallback
\* enters a bus that refuses root, and a call that nothing disturbs never
\* fails, for any number of calls and users (user_manager.rs:75-89).
THEOREM ConnectLooksOnce == Spec => LooksOnce
<1>1. ConnInv /\ ConnInv' /\ [Next]_vars => [Once!Next]_(Once!onceVars)
  <2>1. UNCHANGED vars => UNCHANGED Once!onceVars
    BY DEF vars, Once!onceVars, Open, Admits, Calling
  <2>. QED  BY <2>1, OnceStep DEF Next, Step, ConnInv
<1>. QED  BY <1>1, OnceInit, ConnAlways, PTL DEF Spec, LooksOnce, Once!Spec

=============================================================================
