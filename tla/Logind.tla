------------------------------- MODULE Logind -------------------------------
(***************************************************************************)
(* systemd-logind, as far as the coordinator can see it: which users have  *)
(* a user object, what its state says, whether the user's session bus      *)
(* accepts a connection, and the UserNew and UserRemoved signals.          *)
(*                                                                         *)
(* logind is not part of the repository.  The module models the promises   *)
(* src/service/coordinator.rs and src/service/user_manager.rs rely on.     *)
(*                                                                         *)
(* Each signal has a stream of its own, because the coordinator opens one  *)
(* proxy stream per signal; a signal sent before its stream is opened      *)
(* reaches nobody.                                                         *)
(***************************************************************************)
EXTENDS Naturals, SequencesExt, ExporterTypes

CONSTANTS
  MaxLogins,  \* bound: sessions of one user in a behaviour
  SlowBus     \* whether UserNew may be sent before the session bus is up

ASSUME LogindAssumption ==
  /\ MaxLogins \in Nat \ {0}
  /\ SlowBus \in BOOLEAN

VARIABLES
  session,          \* the state of the user object
  logins,           \* the number of the user's latest session, 0: none yet
  newSubscribed,    \* the UserNew stream is open
  removedSubscribed,\* the UserRemoved stream is open
  userNew,          \* UserNew signals not yet taken from their stream
  userRemoved,      \* UserRemoved signals not yet taken from their stream
  missedNew,        \* history: users whose latest session was neither listed
                    \* nor signalled in time: with its bus up, or soon to be
  missedRemoved,    \* history: users with a UserRemoved that had no receiver
  overlapped        \* history: users whose latest UserNew was sent while an
                    \* older UserRemoved of theirs was still unread

signalVars  == <<newSubscribed, removedSubscribed>>
logindVars  == <<session, logins, signalVars, userNew, userRemoved, missedNew,
                 missedRemoved, overlapped>>

(***************************************************************************)
(* "opening" and "active" stand for every state string that the code lets  *)
(* through, without and with a session bus that accepts a connection;      *)
(* "closing" stands for the two it refuses, "closing" and "offline", and   *)
(* for an empty runtime path; "absent" is a user logind has no object for. *)
(***************************************************************************)
SessionStates == {"absent", "opening", "active", "closing"}

LogindTypeOK ==
  /\ session \in [Uids -> SessionStates]
  /\ logins \in [Uids -> Nat]
  /\ newSubscribed \in BOOLEAN
  /\ removedSubscribed \in BOOLEAN
  /\ userNew \in Seq(Uids)
  /\ userRemoved \in Seq(Uids)
  /\ missedNew \in SUBSET Uids
  /\ missedRemoved \in SUBSET Uids
  /\ overlapped \in SUBSET Uids

\* The exporter may be started at any time: users may be anywhere in a session.
LogindInit ==
  /\ session \in [Uids -> IF SlowBus THEN SessionStates
                                    ELSE SessionStates \ {"opening"}]
  /\ logins = [u \in Uids |-> IF session[u] = "absent" THEN 0 ELSE 1]
  /\ newSubscribed = FALSE
  /\ removedSubscribed = FALSE
  /\ userNew = <<>>
  /\ userRemoved = <<>>
  /\ missedNew = {u \in Uids : session[u] # "absent"}
  /\ missedRemoved = {}
  /\ overlapped = {}

-----------------------------------------------------------------------------
\* A first session of the user: logind creates the user object, UserNew.
Login(u) ==
  /\ session[u] = "absent"
  /\ logins[u] < MaxLogins
  /\ session' = [session EXCEPT ![u] = IF SlowBus THEN "opening" ELSE "active"]
  /\ logins' = [logins EXCEPT ![u] = @ + 1]
  /\ IF newSubscribed
     THEN /\ userNew' = Append(userNew, u)
          /\ missedNew' = missedNew \ {u}
     ELSE /\ missedNew' = missedNew \union {u}
          /\ UNCHANGED userNew
  /\ overlapped' = IF u \in ToSet(userRemoved) THEN overlapped \union {u}
                                               ELSE overlapped \ {u}
  /\ UNCHANGED <<signalVars, userRemoved, missedRemoved>>

\* user@.service has started: $XDG_RUNTIME_DIR/bus accepts connections.  That
\* is late for a UserNew that has been taken already.
BusUp(u) ==
  /\ session[u] = "opening"
  /\ session' = [session EXCEPT ![u] = "active"]
  /\ missedNew' = IF u \in ToSet(userNew) THEN missedNew ELSE missedNew \union {u}
  /\ UNCHANGED <<logins, signalVars, userNew, userRemoved, missedRemoved, overlapped>>

\* The last session ends: the state says "closing" and the bus goes away.
Logout(u) ==
  /\ session[u] \in {"opening", "active"}
  /\ session' = [session EXCEPT ![u] = "closing"]
  /\ UNCHANGED <<logins, signalVars, userNew, userRemoved, missedNew,
                 missedRemoved, overlapped>>

\* logind drops the user object, UserRemoved.
RemoveUser(u) ==
  /\ session[u] = "closing"
  /\ session' = [session EXCEPT ![u] = "absent"]
  /\ IF removedSubscribed
     THEN userRemoved' = Append(userRemoved, u) /\ UNCHANGED missedRemoved
     ELSE missedRemoved' = missedRemoved \union {u} /\ UNCHANGED userRemoved
  /\ UNCHANGED <<logins, signalVars, userNew, missedNew, overlapped>>

LogindNext ==
  \E u \in Uids : Login(u) \/ BusUp(u) \/ Logout(u) \/ RemoveUser(u)

=============================================================================
