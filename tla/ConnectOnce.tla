----------------------------- MODULE ConnectOnce -----------------------------
(***************************************************************************)
(* What connect_user_manager promises.  A call succeeds only at a moment   *)
(* at which the user's session bus lets the exporter in, and fails only if *)
(* there was a moment at which the bus did not, or at which another call   *)
(* was under way.                                                          *)
(***************************************************************************)
CONSTANTS Callers, Users, NoUser

VARIABLES
  open,     \* the users whose bus lets the exporter in right now
  calling,  \* caller -> the user it is to connect to, NoUser: no call
  result,   \* caller -> "none", then "ok" or "err"
  excused   \* callers whose call may fail

onceVars == <<open, calling, result, excused>>

Init ==
  /\ open \in SUBSET Users
  /\ calling = [c \in Callers |-> NoUser]
  /\ result = [c \in Callers |-> "none"]
  /\ excused = {}

Call(c, u) ==
  /\ calling[c] = NoUser
  /\ calling' = [calling EXCEPT ![c] = u]
  /\ result' = [result EXCEPT ![c] = "none"]
  /\ UNCHANGED open

Succeed(c) ==
  /\ calling[c] \in open /\ result[c] = "none"
  /\ result' = [result EXCEPT ![c] = "ok"]
  /\ UNCHANGED <<open, calling>>

GiveUp(c) ==
  /\ c \in excused /\ result[c] = "none"
  /\ result' = [result EXCEPT ![c] = "err"]
  /\ UNCHANGED <<open, calling>>

Return(c) ==
  /\ calling[c] # NoUser /\ result[c] # "none"
  /\ calling' = [calling EXCEPT ![c] = NoUser]
  /\ UNCHANGED <<open, result>>

BusesChange == open' \in SUBSET Users /\ UNCHANGED <<calling, result>>

\* Whether the bus of the caller's user is closed, or the caller is not alone.
Excuse(c) == calling[c] \notin open \/ \E d \in Callers \ {c} : calling[d] # NoUser

Next ==
  /\ \/ \E c \in Callers :
          (\E u \in Users : Call(c, u)) \/ Succeed(c) \/ GiveUp(c) \/ Return(c)
     \/ BusesChange
  /\ excused' = {c \in Callers : calling'[c] # NoUser /\ (c \in excused \/ Excuse(c)')}

Spec == Init /\ [][Next]_onceVars

=============================================================================
