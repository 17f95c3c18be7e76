----------------------------- MODULE UnitMonitor -----------------------------
(***************************************************************************)
(* A manager task (monitor_units in src/service/service.rs): the table of  *)
(* monitored units and the select! loop that keeps it up to date with      *)
(* systemd's signals, reloads it, and answers scrapes from it.             *)
(*                                                                         *)
(* Every D-Bus call is an await during which systemd moves on, so a step   *)
(* is what lies between two replies.                                       *)
(***************************************************************************)
EXTENDS Systemd

CONSTANTS
  Monitored,  \* units that pass the include and exclude filters
  NoUnit,
  ScrapeCap,  \* capacity of the task's channel (8 in the code)
  MayFail,    \* whether a call may return an error on a live connection
  MayHang     \* whether a call may get no reply at all

ASSUME MonitorAssumption ==
  /\ Monitored \subseteq Units /\ NoUnit \notin Units
  /\ ScrapeCap \in Nat \ {0} /\ MayFail \in BOOLEAN /\ MayHang \in BOOLEAN

VARIABLES
  pc,        \* where the task's future is suspended
  units,     \* the table: name -> the status that was read last
  fresh,     \* the table that load_all builds
  todo,      \* units that load_all or the scrape in hand has yet to visit
  reading,   \* the unit whose status is being read
  half,      \* what has been read of it: the active state
  hung,      \* a call gets no reply, ever: none has a timeout
  inbox,     \* scrape requests in the channel
  senderHeld \* the coordinator holds the channel's sender

tables  == <<units, fresh>>
reader  == <<reading, half, hung>>
channel == <<inbox, senderHeld>>
monitorVars == <<pc, tables, todo, reader, channel>>
vars == <<systemdVars, monitorVars>>

\* "loadRead", "newRead" and "jobRead" are read_status on behalf of load_all, of
\* a UnitNew and of a job signal.
Stages == {"list", "load", "loadRead", "subscribe", "select", "newRead", "jobRead",
           "collect", "ended"}
Reads == {"loadRead", "newRead", "jobRead"}

\* The active state is read first; the rest of the status, sub state, times and
\* accounting flags, after it.
Statuses == [active : UnitStates, rest : UnitStates]
Tables == UNION {[S -> Statuses] : S \in SUBSET Monitored}

TypeOK ==
  /\ SystemdTypeOK
  /\ pc \in Stages
  /\ units \in Tables /\ fresh \in Tables
  /\ todo \in SUBSET Monitored
  /\ reading \in (IF pc \in Reads THEN Monitored ELSE {NoUnit})
  /\ half \in UnitStates \union {"unread"}
  /\ hung \in BOOLEAN
  /\ inbox \in 0 .. ScrapeCap
  /\ senderHeld \in BOOLEAN

Init ==
  /\ SystemdInit
  /\ pc = "list"
  /\ units = <<>> /\ fresh = <<>>
  /\ todo = {}
  /\ reading = NoUnit /\ half = "unread" /\ hung = FALSE
  /\ inbox = 0 /\ senderHeld = TRUE

Holds(table, u) == u \in DOMAIN table

-----------------------------------------------------------------------------
(* load_all.                                                               *)

\* A list of the units that are not dead.
ListActiveUnits ==
  /\ pc = "list" /\ up
  /\ pc' = "load"
  /\ todo' = {u \in loaded \intersect Monitored : state[u] # "dead"}
  /\ fresh' = <<>>
  /\ missedNew' = missedNew \ loaded
  /\ crossed' = {u \in crossed : u \notin loaded \/ Unread(unitRemoved, u)}
  /\ UNCHANGED <<managerVars, signals, events, missedRemoved, unannounced, units,
                 reader, channel>>

\* ListUnits replies with the units that are loaded right now.
ListUnits ==
  /\ pc = "list" /\ up
  /\ pc' = "load"
  /\ todo' = loaded \intersect Monitored
  /\ fresh' = <<>>
  /\ missedNew' = missedNew \ loaded
  /\ crossed' = {u \in crossed : u \notin loaded \/ Unread(unitRemoved, u)}
  /\ UNCHANGED <<managerVars, signals, events, missedRemoved, unannounced, units,
                 reader, channel>>

BeginRead(u, stage) ==
  pc' = stage /\ reading' = u /\ half' = "unread" /\ UNCHANGED hung

LoadNext(u) ==
  /\ pc = "load" /\ u \in todo
  /\ BeginRead(u, "loadRead")
  /\ todo' = todo \ {u}
  /\ UNCHANGED <<systemdVars, tables, channel>>

\* A reload that adds to the table it has.
LoadedMerging ==
  /\ pc = "load" /\ todo = {}
  /\ units' = fresh @@ units
  /\ fresh' = <<>>
  /\ pc' = IF opened = 6 THEN "select" ELSE "subscribe"
  /\ missedRemoved' = missedRemoved \intersect DOMAIN fresh
  /\ UNCHANGED <<managerVars, signals, events, missedNew, crossed, unannounced, todo,
                 reader, channel>>

\* The table is replaced as a whole.
Loaded ==
  /\ pc = "load" /\ todo = {}
  /\ units' = fresh
  /\ fresh' = <<>>
  /\ pc' = IF opened = 6 THEN "select" ELSE "subscribe"
  /\ missedRemoved' = missedRemoved \intersect DOMAIN fresh
  /\ UNCHANGED <<managerVars, signals, events, missedNew, crossed, unannounced, todo,
                 reader, channel>>

\* The five streams are opened one by one, then Subscribe is called.
Subscribe ==
  /\ pc = "subscribe" /\ up
  /\ opened' = opened + 1
  /\ pc' = IF opened' = 6 THEN "select" ELSE pc
  /\ UNCHANGED <<loaded, state, job, up, signals, events, historyVars, tables, todo,
                 reader, channel>>

-----------------------------------------------------------------------------
(* parse and update_unit_status.                                           *)

ReadActive ==
  /\ pc \in Reads /\ up /\ half = "unread"
  /\ Touch(reading)
  /\ half' = state[reading]
  /\ unannounced' = unannounced \ {reading}
  /\ UNCHANGED <<state, job, up, opened, events, pc, tables, todo, reading,
                 hung, channel>>

\* The map's insert.
Stored(table, u, status) ==
  [v \in DOMAIN table \union {u} |-> IF v = u THEN status ELSE table[v]]

\* The status is complete, and stored where it belongs.
ReadRest ==
  /\ pc \in Reads /\ up /\ half # "unread"
  /\ Touch(reading)
  /\ LET status == [active |-> half, rest |-> state[reading]]
     IN  IF pc = "loadRead"
         THEN fresh' = Stored(fresh, reading, status) /\ pc' = "load" /\ UNCHANGED units
         ELSE units' = Stored(units, reading, status) /\ pc' = "select" /\ UNCHANGED fresh
  /\ reading' = NoUnit /\ half' = "unread"
  /\ UNCHANGED <<state, job, up, opened, events, unannounced, todo, hung, channel>>

\* The future ends: its streams, table and channel are dropped.
End ==
  /\ pc' = "ended"
  /\ units' = <<>> /\ fresh' = <<>> /\ todo' = {}
  /\ reading' = NoUnit /\ half' = "unread"
  /\ inbox' = 0
  /\ UNCHANGED <<systemdVars, hung, senderHeld>>

\* A call fails, and `?` ends the task: whatever unit the call was about.
CallFails ==
  /\ pc \in Reads \union {"list", "subscribe"}
  /\ ~up \/ MayFail
  /\ End

-----------------------------------------------------------------------------
(* The select! loop.  Streams are polled in any order.                     *)

Select == pc = "select"

\* UnitNew without a look at the filters.
TakeNewUnfiltered ==
  /\ Select /\ unitNew # <<>>
  /\ unitNew' = Tail(unitNew)
  /\ BeginRead(Head(unitNew), "newRead")
  /\ UNCHANGED <<managerVars, unitRemoved, jobNew, jobRemoved, filesChanged, events,
                 historyVars, tables, todo, channel>>

TakeNew ==
  /\ Select /\ unitNew # <<>>
  /\ unitNew' = Tail(unitNew)
  /\ IF Head(unitNew) \in Monitored
     THEN BeginRead(Head(unitNew), "newRead")
     ELSE UNCHANGED <<pc, reader>>
  /\ UNCHANGED <<managerVars, unitRemoved, jobNew, jobRemoved, filesChanged, events,
                 historyVars, tables, todo, channel>>

\* UnitRemoved is only believed of a unit that was seen dead.
TakeRemovedIfDead ==
  /\ Select /\ unitRemoved # <<>>
  /\ unitRemoved' = Tail(unitRemoved)
  /\ units' = [u \in {v \in DOMAIN units : v # Head(unitRemoved) \/ units[v].active # "dead"}
                |-> units[u]]
  /\ UNCHANGED <<managerVars, unitNew, jobNew, jobRemoved, filesChanged, events,
                 historyVars, pc, fresh, todo, reader, channel>>

TakeRemoved ==
  /\ Select /\ unitRemoved # <<>>
  /\ unitRemoved' = Tail(unitRemoved)
  /\ units' = [u \in DOMAIN units \ {Head(unitRemoved)} |-> units[u]]
  /\ UNCHANGED <<managerVars, unitNew, jobNew, jobRemoved, filesChanged, events,
                 historyVars, pc, fresh, todo, reader, channel>>

\* A job signal about a unit of the table has its status read again.
Refresh(u) ==
  /\ IF Holds(units, u) THEN BeginRead(u, "jobRead") ELSE UNCHANGED <<pc, reader>>
  /\ UNCHANGED <<managerVars, unitNew, unitRemoved, filesChanged, events, historyVars,
                 tables, todo, channel>>

TakeJobNew ==
  /\ Select /\ jobNew # <<>>
  /\ jobNew' = Tail(jobNew) /\ UNCHANGED jobRemoved
  /\ Refresh(Head(jobNew))

\* JobRemoved without a second look at the unit.
TakeJobRemovedOnly ==
  /\ Select /\ jobRemoved # <<>>
  /\ jobRemoved' = Tail(jobRemoved) /\ UNCHANGED jobNew
  /\ UNCHANGED <<pc, reader>>
  /\ UNCHANGED <<managerVars, unitNew, unitRemoved, filesChanged, events, historyVars,
                 tables, todo, channel>>

TakeJobRemoved ==
  /\ Select /\ jobRemoved # <<>>
  /\ jobRemoved' = Tail(jobRemoved) /\ UNCHANGED jobNew
  /\ Refresh(Head(jobRemoved))

\* A reload that starts over, with new streams.
TakeFilesChangedAnew ==
  /\ Select /\ filesChanged > 0
  /\ filesChanged' = filesChanged - 1
  /\ pc' = "list" /\ opened' = 0
  /\ UNCHANGED <<loaded, state, job, up, unitNew, unitRemoved, jobNew, jobRemoved,
                 events, historyVars, tables, todo, reader, channel>>

\* UnitFilesChanged: load_all again, with the streams open.
TakeFilesChanged ==
  /\ Select /\ filesChanged > 0
  /\ filesChanged' = filesChanged - 1
  /\ pc' = "list"
  /\ UNCHANGED <<managerVars, unitNew, unitRemoved, jobNew, jobRemoved, events,
                 historyVars, tables, todo, reader, channel>>

SilentStreams ==
  unitNew = <<>> /\ unitRemoved = <<>> /\ jobNew = <<>> /\ jobRemoved = <<>>
    /\ filesChanged = 0

\* The arms of a `biased` select!, with the signals first.
TakeScrapeLast ==
  /\ Select /\ SilentStreams /\ inbox > 0
  /\ inbox' = inbox - 1
  /\ pc' = "collect"
  /\ todo' = DOMAIN units
  /\ UNCHANGED <<systemdVars, tables, reader, senderHeld>>

TakeScrape ==
  /\ Select /\ inbox > 0
  /\ inbox' = inbox - 1
  /\ pc' = "collect"
  /\ todo' = DOMAIN units
  /\ UNCHANGED <<systemdVars, tables, reader, senderHeld>>

\* One unit's stats, from cgroup files or over D-Bus; a failure gives defaults.
CollectUnit(u) ==
  /\ pc = "collect" /\ u \in todo
  /\ todo' = todo \ {u}
  /\ \/ up /\ Touch(u)
     \/ UNCHANGED <<loaded, signals, tableHistory>>
  /\ UNCHANGED <<state, job, up, opened, events, unannounced, pc, tables, reader,
                 channel>>

Reply ==
  /\ pc = "collect" /\ todo = {}
  /\ pc' = "select"
  /\ UNCHANGED <<systemdVars, tables, todo, reader, channel>>

\* `else => break`: every stream has ended and the channel is closed and empty.
StreamsEnded ==
  /\ Select /\ ~up /\ SilentStreams /\ ~senderHeld /\ inbox = 0
  /\ End

-----------------------------------------------------------------------------
\* A word without "=" in an io.stat: the unwrap panics, which ends the task.
CollectPanics == pc = "collect" /\ todo # {} /\ MayFail /\ End

\* The coordinator sends a request, or drops the sender.
Scrape ==
  /\ senderHeld /\ pc # "ended" /\ inbox < ScrapeCap
  /\ inbox' = inbox + 1
  /\ UNCHANGED <<systemdVars, pc, tables, todo, reader, senderHeld>>

DropSender ==
  /\ senderHeld
  /\ senderHeld' = FALSE
  /\ UNCHANGED <<systemdVars, pc, tables, todo, reader, inbox>>

\* A D-Bus call gets no reply; the task waits for it while the bus lives.
Hang ==
  /\ pc \in Reads \union {"list", "subscribe"} \/ (pc = "collect" /\ todo # {})
  /\ MayHang /\ up /\ ~hung
  /\ hung' = TRUE
  /\ UNCHANGED <<systemdVars, pc, tables, todo, reading, half, channel>>

Waits == hung /\ up

\* What the task does when it is scheduled and not at the select!.
Advance ==
  /\ ~Waits
  /\ \/ ListUnits \/ (\E u \in Monitored : LoadNext(u)) \/ Loaded \/ Subscribe
     \/ ReadActive \/ ReadRest \/ CallFails
     \/ (\E u \in Monitored : CollectUnit(u)) \/ CollectPanics \/ Reply
     \/ StreamsEnded

SelectArm ==
  \/ TakeNew \/ TakeRemoved \/ TakeJobNew \/ TakeJobRemoved \/ TakeFilesChanged
  \/ TakeScrape

\* The only states the task may stay in for good.
Quiescent ==
  /\ pc = "ended" \/ Waits \/ (Select /\ SilentStreams /\ inbox = 0)
  /\ UNCHANGED vars

Next ==
  \/ Advance \/ SelectArm \/ Hang \/ Scrape \/ DropSender
  \/ SystemdNext /\ UNCHANGED monitorVars
  \/ Quiescent

Spec == Init /\ [][Next]_vars

(***************************************************************************)
(* tokio polls a woken task again: weak fairness of what the task does     *)
(* next.  select! starts at a random arm: strong fairness of each arm.  A  *)
(* job comes to an end.  Nothing has to happen in systemd.                 *)
(***************************************************************************)
Fairness ==
  /\ WF_vars(Advance)
  /\ SF_vars(TakeNew) /\ SF_vars(TakeRemoved) /\ SF_vars(TakeJobNew)
  /\ SF_vars(TakeJobRemoved) /\ SF_vars(TakeFilesChanged) /\ SF_vars(TakeScrape)
  /\ \A u \in Units : WF_vars(EndJob(u) /\ UNCHANGED monitorVars)

FairSpec == Spec /\ Fairness

-----------------------------------------------------------------------------
(* The table and systemd.                                                  *)

\* A unit of the table that is no longer loaded has a UnitRemoved on its way,
\* whatever order UnitNew and UnitRemoved are taken in and whatever reloads and
\* scrapes come between (service.rs:201-286): no ghost stays in the table.  The
\* exception is a removal before the streams were open, or on a dead bus.
GhostHasRemoval ==
  \A u \in DOMAIN units \union DOMAIN fresh :
    u \in loaded \/ Unread(unitRemoved, u) \/ u \in missedRemoved

\* load_all is under way and has the unit, or is yet to read it.
BeingLoaded(u) ==
  /\ pc \in {"load", "loadRead"}
  /\ u \in todo \union DOMAIN fresh \union {reading}

\* A loaded unit that is not in the table is on its way into it, also while a
\* reload replaces the table (the question of the TODO at service.rs:284).  The
\* exceptions are a UnitNew sent before the stream was open, and one that
\* overtakes the UnitRemoved of the unit's earlier life.
MissingUnitIsComing ==
  \A u \in (loaded \intersect Monitored) \ DOMAIN units :
    \/ Unread(unitNew, u) \/ BeingLoaded(u) \/ (pc = "newRead" /\ reading = u)
    \/ u \in missedNew \union crossed \/ pc = "ended"

\* A job signal about the unit is on its way, or the unit has changed silently.
ChangeComing(u) ==
  \/ Unread(jobNew, u) \/ Unread(jobRemoved, u) \/ job[u] # "none"
  \/ u \in unannounced

True(u) == [active |-> state[u], rest |-> state[u]]

\* A status that is out of date, or that was read half before and half after a
\* change, is about to be read again, unless the unit changed without a job
\* (service.rs:243-286, unit.rs:70-83, systemd_readers.rs:114-122).
StaleStatusIsRefreshed ==
  /\ \A u \in DOMAIN units : units[u] = True(u) \/ ChangeComing(u)
       \/ (pc \in Reads /\ reading = u) \/ BeingLoaded(u)
  /\ \A u \in DOMAIN fresh : fresh[u] = True(u) \/ ChangeComing(u)
  /\ half # "unread" => half = state[reading] \/ ChangeComing(reading)

\* A unit that stays loaded ends up in the table for good, and one that stays
\* unloaded out of it, with the same exceptions, whatever else goes on in systemd
\* for ever.  A call without a reply leaves the table as it is.
TableConverges ==
  \A u \in Monitored :
    /\ <>[](u \in loaded /\ u \notin missedNew \union crossed /\ ~Waits)
         => <>[](Holds(units, u) \/ pc = "ended")
    /\ <>[](u \notin loaded /\ u \notin missedRemoved /\ ~Waits)
         => <>[](~Holds(units, u))

\* The status of a unit that has stopped changing ends up true, whatever signals
\* and reloads go on for ever, unless a call gets no reply.
StatusConverges ==
  \A u \in Monitored :
    <>[](u \in loaded /\ job[u] = "none" /\ u \notin unannounced /\ ~Waits)
      => <>[](Holds(units, u) => units[u] = True(u))

\* Where the task is, to the coordinator.
TaskPhase ==
  CASE pc = "ended" -> "ended"
    [] pc = "collect" -> "serving"
    [] pc \in {"list", "load", "loadRead", "subscribe"} /\ opened < 6 -> "loading"
    [] OTHER -> "ready"

\* The task is what TaskView says, and so what ManagerTask takes it for: a reload
\* or a status that is being read keeps the requests of the channel waiting and
\* loses none, and each is answered by itself (service.rs:193-291).
Task == INSTANCE TaskView WITH
  phase <- TaskPhase, waiting <- inbox, open <- senderHeld

ActsAsTask == Task!Spec

\* A scrape that waits is served, although signals, jobs and reloads may never
\* stop coming, or the task ends, or one of its D-Bus calls gets no reply
\* (service.rs:212-232).
ScrapesServed ==
  /\ inbox > 0 ~> pc \in {"collect", "ended"} \/ Waits
  /\ pc = "collect" ~> pc \in {"select", "ended"} \/ Waits

\* At rest the table has the true state of its units: monitor_units is
\* "monitoring for state changes" (service.rs:191).
StatusTrueAtRest ==
  Select /\ SilentStreams /\ (\A u \in Units : job[u] = "none") =>
    \A u \in DOMAIN units : units[u] = True(u)

=============================================================================
