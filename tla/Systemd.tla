------------------------------- MODULE Systemd -------------------------------
(***************************************************************************)
(* A systemd manager, as far as a manager task can see it: the units that  *)
(* are loaded, their state and their jobs, and the signals UnitNew,        *)
(* UnitRemoved, JobNew, JobRemoved and UnitFilesChanged.                   *)
(*                                                                         *)
(* systemd is not part of the repository.  The module models what          *)
(* src/service/service.rs and src/stats/systemd_readers.rs rely on.  Each  *)
(* signal has a stream of its own, as in Logind.  Reading a property of a  *)
(* unit that is not loaded loads it.                                       *)
(***************************************************************************)
EXTENDS Naturals, FiniteSets, SequencesExt, TLC

CONSTANTS
  Units,        \* unit names
  UnitStates,   \* what the active state and the sub state may be
  OtherClients, \* whether someone else has called Subscribe, so that signals
                \* are sent before the exporter calls it
  MaxEvents,    \* bound: how often something happens in systemd by itself
  Endless       \* instead, there is no end to it; MaxEvents bounds the signals
                \* that are unread when a unit is loaded or unloaded or files
                \* change, and all have been read when anything else happens

ASSUME SystemdAssumption ==
  /\ "dead" \in UnitStates /\ "unread" \notin UnitStates
  /\ OtherClients \in BOOLEAN /\ MaxEvents \in Nat /\ Endless \in BOOLEAN

VARIABLES
  loaded,       \* units in memory
  state,        \* active state and sub state, taken together
  job,          \* a unit's job
  up,           \* the connection to the bus is alive
  opened,       \* how many of the exporter's five streams are open; 6 after Subscribe
  unitNew, unitRemoved, jobNew, jobRemoved,   \* signals not yet taken
  filesChanged, \* the number of UnitFilesChanged not yet taken
  events,       \* bound: events so far, unless Endless
  missedNew,    \* history: units loaded since the latest list without notice
  missedRemoved,\* history: units whose latest removal reached nobody
  crossed,      \* history: units loaded while an older UnitRemoved was unread
  unannounced   \* history: units that changed state, without notice, since
                \* their state was last read

signals == <<unitNew, unitRemoved, jobNew, jobRemoved, filesChanged>>
tableHistory == <<missedNew, missedRemoved, crossed>>
managerVars == <<loaded, state, job, up, opened>>
historyVars == <<tableHistory, unannounced>>
systemdVars == <<managerVars, signals, events, historyVars>>

\* A job has not yet changed the unit, or it has.
JobStates == {"none", "waiting", "done"}

SystemdTypeOK ==
  /\ loaded \in SUBSET Units
  /\ state \in [Units -> UnitStates]
  /\ job \in [Units -> JobStates]
  /\ up \in BOOLEAN
  /\ opened \in 0 .. 6
  /\ {unitNew, unitRemoved, jobNew, jobRemoved} \subseteq Seq(Units)
  /\ filesChanged \in Nat
  /\ {missedNew, missedRemoved, crossed, unannounced} \subseteq SUBSET Units

\* The exporter may be started at any time; a unit that is not loaded is dead.
SystemdInit ==
  /\ loaded \in SUBSET Units
  /\ state \in [Units -> UnitStates]
  /\ \A u \in Units \ loaded : state[u] = "dead"
  /\ job = [u \in Units |-> "none"]
  /\ up = TRUE
  /\ opened = 0
  /\ unitNew = <<>> /\ unitRemoved = <<>> /\ jobNew = <<>> /\ jobRemoved = <<>>
  /\ filesChanged = 0
  /\ events = 0
  /\ missedNew = loaded /\ missedRemoved = {} /\ crossed = {} /\ unannounced = {}

\* A signal is sent and reaches the exporter's i-th stream.
Delivered(i) == up /\ opened >= i /\ (OtherClients \/ opened = 6)

Sent(stream, i, u) == IF Delivered(i) THEN Append(stream, u) ELSE stream

Unread(stream, u) == u \in ToSet(stream)

CountUnread ==
  Len(unitNew) + Len(unitRemoved) + Len(jobNew) + Len(jobRemoved) + filesChanged

\* Something happens in systemd by itself: if it never ends, with less than n
\* signals unread.
Event(n) ==
  IF Endless THEN CountUnread < n /\ UNCHANGED events
             ELSE events < MaxEvents /\ events' = events + 1

-----------------------------------------------------------------------------
\* A unit comes into memory: UnitNew.
Appear(u) ==
  /\ loaded' = loaded \union {u}
  /\ unitNew' = Sent(unitNew, 1, u)
  /\ missedNew' = IF Delivered(1) THEN missedNew \ {u} ELSE missedNew \union {u}
  /\ missedRemoved' = missedRemoved \ {u}
  /\ crossed' = IF Unread(unitRemoved, u) THEN crossed \union {u} ELSE crossed \ {u}
  /\ UNCHANGED <<unitRemoved, jobNew, jobRemoved, filesChanged>>

LoadUnit(u) ==
  /\ u \notin loaded /\ Event(MaxEvents)
  /\ Appear(u)
  /\ UNCHANGED <<state, job, up, opened, unannounced>>

\* What reading a property of a unit does to systemd.
Touch(u) ==
  IF u \in loaded THEN UNCHANGED <<loaded, signals, tableHistory>> ELSE Appear(u)

\* A unit that does nothing and that nothing needs is unloaded: UnitRemoved.
UnloadUnit(u) ==
  /\ u \in loaded /\ state[u] = "dead" /\ job[u] = "none" /\ Event(MaxEvents)
  /\ loaded' = loaded \ {u}
  /\ unitRemoved' = Sent(unitRemoved, 2, u)
  /\ missedRemoved' = IF Delivered(2) THEN missedRemoved \ {u}
                                      ELSE missedRemoved \union {u}
  /\ UNCHANGED <<state, job, up, opened, unitNew, jobNew, jobRemoved, filesChanged,
                 missedNew, crossed, unannounced>>

\* A job is queued: JobNew.
StartJob(u) ==
  /\ u \in loaded /\ job[u] = "none" /\ Event(1)
  /\ job' = [job EXCEPT ![u] = "waiting"]
  /\ jobNew' = Sent(jobNew, 3, u)
  /\ UNCHANGED <<loaded, state, up, opened, unitNew, unitRemoved, jobRemoved,
                 filesChanged, historyVars>>

\* The job starts, stops or fails to start the unit.
RunJob(u) ==
  /\ job[u] = "waiting"
  /\ \E s \in UnitStates \ {state[u]} : state' = [state EXCEPT ![u] = s]
  /\ job' = [job EXCEPT ![u] = "done"]
  /\ UNCHANGED <<loaded, up, opened, signals, events, historyVars>>

\* The job is finished, or cancelled: JobRemoved.
EndJob(u) ==
  /\ job[u] # "none"
  /\ job' = [job EXCEPT ![u] = "none"]
  /\ jobRemoved' = Sent(jobRemoved, 4, u)
  /\ unannounced' = IF Delivered(4) THEN unannounced ELSE unannounced \union {u}
  /\ UNCHANGED <<loaded, state, up, opened, unitNew, unitRemoved, jobNew, filesChanged,
                 events, tableHistory>>

\* A unit changes without a job: its process ends, a mount or device comes or goes.
ChangeByItself(u) ==
  /\ u \in loaded /\ job[u] = "none" /\ Event(1)
  /\ \E s \in UnitStates \ {state[u]} : state' = [state EXCEPT ![u] = s]
  /\ unannounced' = unannounced \union {u}
  /\ UNCHANGED <<loaded, job, up, opened, signals, tableHistory>>

\* systemctl enable, disable and the like.
ChangeFiles ==
  /\ Event(MaxEvents)
  /\ filesChanged' = IF Delivered(5) THEN filesChanged + 1 ELSE filesChanged
  /\ UNCHANGED <<managerVars, unitNew, unitRemoved, jobNew, jobRemoved, historyVars>>

\* The bus goes away.
Disconnect ==
  /\ up /\ Event(1)
  /\ up' = FALSE
  /\ UNCHANGED <<loaded, state, job, opened, signals, historyVars>>

SystemdNext ==
  \/ \E u \in Units :
       \/ LoadUnit(u) \/ UnloadUnit(u) \/ ChangeByItself(u)
       \/ StartJob(u) \/ RunJob(u) \/ EndJob(u)
  \/ ChangeFiles
  \/ Disconnect

=============================================================================
