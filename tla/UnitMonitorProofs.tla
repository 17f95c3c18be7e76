-------------------------- MODULE UnitMonitorProofs --------------------------
(***************************************************************************)
(* Proofs about UnitMonitor: the table of units and systemd, for any set   *)
(* of units, any filters, and any number of events, reloads and scrapes.   *)
(***************************************************************************)
EXTENDS UnitMonitor, TLAPS

-----------------------------------------------------------------------------
(* Tables and streams.                                                     *)

LEMMA EmptyTable == <<>> \in Tables /\ DOMAIN <<>> = {}
<1>1. <<>> \in [{} -> Statuses] /\ DOMAIN <<>> = {}
  OBVIOUS
<1>. QED  BY <1>1 DEF Tables

LEMMA TableDomain ==
  ASSUME NEW t \in Tables
  PROVE  DOMAIN t \subseteq Monitored /\ \A u \in DOMAIN t : t[u] \in Statuses
  BY DEF Tables

\* Storing a status.
LEMMA StoreEntry ==
  ASSUME NEW t \in Tables, NEW u \in Monitored, NEW s \in Statuses
  PROVE  /\ Stored(t, u, s) \in Tables
         /\ DOMAIN Stored(t, u, s) = DOMAIN t \union {u}
         /\ Stored(t, u, s)[u] = s
         /\ \A v \in DOMAIN t \ {u} : Stored(t, u, s)[v] = t[v]
<1> DEFINE n == Stored(t, u, s)
<1>1. n \in [DOMAIN t \union {u} -> Statuses]
  BY TableDomain DEF Stored
<1>2. n \in Tables
  BY <1>1, TableDomain DEF Tables
<1>. QED  BY <1>1, <1>2 DEF Stored

\* Dropping an entry.
LEMMA DropEntry ==
  ASSUME NEW t \in Tables, NEW u
  PROVE  [v \in DOMAIN t \ {u} |-> t[v]] \in Tables
<1>1. [v \in DOMAIN t \ {u} |-> t[v]] \in [DOMAIN t \ {u} -> Statuses]
  BY TableDomain
<1>. QED  BY <1>1, TableDomain DEF Tables

\* What sending to a stream and taking from it do to the unread signals.
LEMMA SendSignal ==
  ASSUME NEW q \in Seq(Units), NEW u \in Units
  PROVE  /\ Append(q, u) \in Seq(Units)
         /\ \A v : Unread(Append(q, u), v) <=> Unread(q, v) \/ v = u
<1>1. /\ Append(q, u) \in Seq(Units) /\ Len(q) \in Nat
      /\ DOMAIN q = 1 .. Len(q) /\ DOMAIN Append(q, u) = 1 .. (Len(q) + 1)
      /\ Append(q, u)[Len(q) + 1] = u
      /\ \A i \in 1 .. Len(q) : Append(q, u)[i] = q[i]
  OBVIOUS
<1>. QED  BY <1>1 DEF Unread, ToSet

LEMMA TakeSignal ==
  ASSUME NEW q \in Seq(Units), q # <<>>
  PROVE  /\ Head(q) \in Units /\ Tail(q) \in Seq(Units)
         /\ \A v : Unread(q, v) <=> Unread(Tail(q), v) \/ v = Head(q)
<1>1. /\ Len(q) \in Nat /\ Len(q) > 0 /\ DOMAIN q = 1 .. Len(q)
      /\ Tail(q) \in Seq(Units) /\ Len(Tail(q)) = Len(q) - 1
      /\ Head(q) = q[1] /\ q[1] \in Units
      /\ \A i \in 1 .. Len(q) - 1 : Tail(q)[i] = q[i + 1]
  OBVIOUS
<1>2. DOMAIN Tail(q) = 1 .. (Len(q) - 1)
  BY <1>1
<1>3. ASSUME NEW v, Unread(q, v), v # Head(q)
      PROVE  Unread(Tail(q), v)
  <2>1. PICK i \in 1 .. Len(q) : q[i] = v
    BY <1>1, <1>3 DEF Unread, ToSet
  <2>2. i - 1 \in 1 .. (Len(q) - 1) /\ Tail(q)[i - 1] = v
    BY <1>1, <1>3, <2>1
  <2>. QED  BY <1>2, <2>2 DEF Unread, ToSet
<1>4. ASSUME NEW v, Unread(Tail(q), v) \/ v = Head(q)
      PROVE  Unread(q, v)
  <2>1. CASE Unread(Tail(q), v)
    <3>1. PICK i \in 1 .. (Len(q) - 1) : Tail(q)[i] = v
      BY <1>2, <2>1 DEF Unread, ToSet
    <3>2. i + 1 \in 1 .. Len(q) /\ q[i + 1] = v
      BY <1>1, <3>1
    <3>. QED  BY <1>1, <3>2 DEF Unread, ToSet
  <2>2. CASE v = Head(q)
    <3>1. 1 \in 1 .. Len(q) /\ q[1] = v
      BY <1>1, <2>2
    <3>. QED  BY <1>1, <3>1 DEF Unread, ToSet
  <2>. QED  BY <1>4, <2>1, <2>2
<1>. QED  BY <1>1, <1>3, <1>4

\* What a signal that is sent does to its stream.
LEMMA SentSignal ==
  ASSUME NEW q \in Seq(Units), NEW u \in Units, NEW i
  PROVE  /\ Sent(q, i, u) \in Seq(Units)
         /\ \A v : Unread(q, v) => Unread(Sent(q, i, u), v)
         /\ \A v : Unread(Sent(q, i, u), v) => Unread(q, v) \/ v = u
         /\ Delivered(i) => Unread(Sent(q, i, u), u)
<1>1. CASE Delivered(i)
  BY <1>1, SendSignal DEF Sent
<1>2. CASE ~Delivered(i)
  BY <1>2 DEF Sent
<1>. QED  BY <1>1, <1>2

-----------------------------------------------------------------------------
(* The inductive invariant.                                                *)

\* Which stages use what.
Shape ==
  /\ pc \notin {"load", "loadRead"} => fresh = <<>>
  /\ half # "unread" => pc \in Reads
  /\ pc \in {"load", "loadRead"} =>
       todo \intersect DOMAIN fresh = {} /\ reading \notin todo \union DOMAIN fresh
  /\ pc = "subscribe" => opened < 6
  /\ pc \in {"select", "newRead", "jobRead", "collect"} => opened = 6

\* A unit that came back while its UnitRemoved was unread is known to have.
CrossedKnown == \A u \in loaded : Unread(unitRemoved, u) => u \in crossed

\* The table that load_all builds will have every unit, but for those that a
\* UnitNew has yet to bring.
LoadCovers ==
  pc \in {"load", "loadRead"} =>
    \A u \in loaded \intersect Monitored :
      \/ u \in todo \union DOMAIN fresh \union {reading}
      \/ Unread(unitNew, u) \/ u \in missedNew \union crossed

BaseInv == TypeOK /\ Shape

LEMMA BaseInit == Init => BaseInv
<1> SUFFICES ASSUME Init PROVE BaseInv
  OBVIOUS
<1>1. SystemdTypeOK
  BY DEF Init, SystemdInit, SystemdTypeOK, JobStates
<1>2. hung \in BOOLEAN
  BY DEF Init
<1>. QED
  BY <1>1, <1>2, EmptyTable, MonitorAssumption
  DEF Init, SystemdInit, BaseInv, TypeOK, Shape, Stages, Reads

\* The streams keep their types whatever is sent.
LEMMA AppearType ==
  ASSUME SystemdTypeOK, NEW u \in Units, Appear(u)
  PROVE  /\ loaded' \in SUBSET Units
         /\ {unitNew', unitRemoved', jobNew', jobRemoved'} \subseteq Seq(Units)
         /\ filesChanged' \in Nat
         /\ {missedNew', missedRemoved', crossed'} \subseteq SUBSET Units
<1>1. unitNew \in Seq(Units)
  BY DEF SystemdTypeOK
<1>2. unitNew' \in Seq(Units)
  BY <1>1, SentSignal DEF Appear
<1>. QED  BY <1>2 DEF Appear, SystemdTypeOK

LEMMA TouchType ==
  ASSUME SystemdTypeOK, NEW u \in Units, Touch(u) \/ UNCHANGED <<loaded, signals, tableHistory>>,
         UNCHANGED <<state, job, up, opened>>, unannounced' \subseteq unannounced
  PROVE  SystemdTypeOK'
<1>1. CASE Appear(u)
  BY <1>1, AppearType DEF SystemdTypeOK
<1>2. CASE UNCHANGED <<loaded, signals, tableHistory>>
  BY <1>2 DEF SystemdTypeOK, signals, tableHistory
<1>. QED  BY <1>1, <1>2 DEF Touch

LEMMA SystemdType ==
  ASSUME SystemdTypeOK, SystemdNext
  PROVE  SystemdTypeOK' /\ opened' = opened
<1> USE DEF SystemdTypeOK, JobStates
<1>1. {unitNew, unitRemoved, jobNew, jobRemoved} \subseteq Seq(Units)
  OBVIOUS
<1>2. ASSUME NEW u \in Units, LoadUnit(u)
      PROVE  SystemdTypeOK' /\ opened' = opened
  BY <1>2, AppearType DEF LoadUnit
<1>3. ASSUME NEW u \in Units, UnloadUnit(u)
      PROVE  SystemdTypeOK' /\ opened' = opened
  <2>1. unitRemoved' \in Seq(Units)
    BY <1>1, <1>3, SentSignal DEF UnloadUnit
  <2>. QED  BY <1>3, <2>1 DEF UnloadUnit
<1>4. ASSUME NEW u \in Units, StartJob(u)
      PROVE  SystemdTypeOK' /\ opened' = opened
  <2>1. jobNew' \in Seq(Units)
    BY <1>1, <1>4, SentSignal DEF StartJob
  <2>. QED  BY <1>4, <2>1 DEF StartJob, historyVars, tableHistory
<1>5. ASSUME NEW u \in Units, EndJob(u)
      PROVE  SystemdTypeOK' /\ opened' = opened
  <2>1. jobRemoved' \in Seq(Units)
    BY <1>1, <1>5, SentSignal DEF EndJob
  <2>. QED  BY <1>5, <2>1 DEF EndJob, tableHistory
<1>6. ASSUME NEW u \in Units, RunJob(u) \/ ChangeByItself(u)
      PROVE  SystemdTypeOK' /\ opened' = opened
  BY <1>6 DEF RunJob, ChangeByItself, signals, historyVars, tableHistory
<1>7. CASE ChangeFiles
  <2>1. filesChanged' \in Nat
    BY <1>7 DEF ChangeFiles
  <2>. QED  BY <1>7, <2>1 DEF ChangeFiles, managerVars, historyVars, tableHistory
<1>8. CASE Disconnect
  BY <1>8 DEF Disconnect, signals, historyVars, tableHistory
<1>. QED
  BY <1>2, <1>3, <1>4, <1>5, <1>6, <1>7, <1>8 DEF SystemdNext

\* The end of the task.
LEMMA EndBase ==
  ASSUME BaseInv, End
  PROVE  BaseInv'
<1>1. SystemdTypeOK'
  BY DEF End, BaseInv, TypeOK, systemdVars, managerVars, signals, historyVars, tableHistory,
     SystemdTypeOK
<1>. QED
  BY <1>1, EmptyTable, MonitorAssumption
  DEF End, BaseInv, TypeOK, Shape, Stages, Reads

\* Steps that read a status or collect a unit's stats.
LEMMA ReadBase ==
  ASSUME BaseInv, ReadActive \/ ReadRest \/ \E u \in Monitored : CollectUnit(u)
  PROVE  BaseInv'
<1> USE DEF BaseInv, TypeOK, Shape, Stages, Reads
<1>1. CASE ReadActive
  <2>1. reading \in Monitored /\ Monitored \subseteq Units
    BY <1>1, MonitorAssumption DEF ReadActive
  <2>2. SystemdTypeOK'
    BY <1>1, <2>1, TouchType DEF ReadActive
  <2>3. half' \in UnitStates /\ "unread" \notin UnitStates
    BY <1>1, <2>1, SystemdAssumption DEF ReadActive, SystemdTypeOK
  <2>. QED  BY <1>1, <2>2, <2>3 DEF ReadActive, tables, channel
<1>2. CASE ReadRest
  <2> DEFINE status == [active |-> half, rest |-> state[reading]]
  <2>1. reading \in Monitored /\ Monitored \subseteq Units
    BY <1>2, MonitorAssumption DEF ReadRest
  <2>2. SystemdTypeOK'
    BY <1>2, <2>1, TouchType DEF ReadRest
  <2>3. status \in Statuses
    BY <1>2, <2>1 DEF ReadRest, SystemdTypeOK, Statuses
  <2>4. /\ Stored(units, reading, status) \in Tables
        /\ Stored(fresh, reading, status) \in Tables
        /\ DOMAIN Stored(fresh, reading, status) = DOMAIN fresh \union {reading}
    BY <2>1, <2>3, StoreEntry
  <2>5. NoUnit \notin Monitored /\ fresh \in Tables
    BY MonitorAssumption
  <2>6. CASE pc = "loadRead"
    <3>1. /\ fresh' = Stored(fresh, reading, status) /\ units' = units /\ pc' = "load"
          /\ UNCHANGED <<todo, hung, inbox, senderHeld, opened>>
          /\ reading' = NoUnit /\ half' = "unread"
      BY <1>2, <2>6 DEF ReadRest, channel
    <3>2. NoUnit \notin DOMAIN fresh'
      BY <2>1, <2>4, <2>5, <3>1, TableDomain
    <3>. QED  BY <2>2, <2>4, <2>5, <2>6, <3>1, <3>2
  <2>7. CASE pc # "loadRead"
    <3>1. /\ units' = Stored(units, reading, status) /\ fresh' = fresh /\ pc' = "select"
          /\ UNCHANGED <<todo, hung, inbox, senderHeld, opened>>
          /\ reading' = NoUnit /\ half' = "unread"
      BY <1>2, <2>7 DEF ReadRest, channel
    <3>. QED  BY <1>2, <2>2, <2>4, <2>7, <3>1 DEF ReadRest
  <2>. QED  BY <2>6, <2>7
<1>3. ASSUME NEW u \in Monitored, CollectUnit(u)
      PROVE  BaseInv'
  <2>1. u \in Units
    BY MonitorAssumption
  <2>2. SystemdTypeOK'
    <3>1. Touch(u) \/ UNCHANGED <<loaded, signals, tableHistory>>
      BY <1>3 DEF CollectUnit
    <3>. QED  BY <1>3, <2>1, <3>1, TouchType DEF CollectUnit
  <2>. QED  BY <1>3, <2>2 DEF CollectUnit, tables, reader, channel
<1>. QED  BY <1>1, <1>2, <1>3

\* The steps of load_all and of the subscription.
LEMMA LoadBase ==
  ASSUME BaseInv, ListUnits \/ (\E u \in Monitored : LoadNext(u)) \/ Loaded \/ Subscribe
  PROVE  BaseInv'
<1> USE MonitorAssumption DEF BaseInv, TypeOK, Shape, Stages, Reads
<1>1. CASE ListUnits
  <2>1. SystemdTypeOK'
    BY <1>1 DEF ListUnits, SystemdTypeOK, managerVars, signals
  <2>. QED  BY <1>1, <2>1, EmptyTable DEF ListUnits, managerVars, reader, channel
<1>2. ASSUME NEW u \in Monitored, LoadNext(u)
      PROVE  BaseInv'
  <2>1. SystemdTypeOK'
    BY <1>2 DEF LoadNext, SystemdTypeOK, systemdVars, managerVars, signals, historyVars, tableHistory
  <2>. QED
    BY <1>2, <2>1 DEF LoadNext, BeginRead, tables, channel, systemdVars, managerVars
<1>3. CASE Loaded
  <2>1. SystemdTypeOK'
    BY <1>3 DEF Loaded, SystemdTypeOK, managerVars, signals
  <2>2. opened # 6 => opened < 6
    BY DEF SystemdTypeOK
  <2>. QED  BY <1>3, <2>1, <2>2, EmptyTable DEF Loaded, managerVars, reader, channel
<1>4. CASE Subscribe
  <2>1. opened' \in 0 .. 6 /\ (opened' # 6 => opened' < 6)
    BY <1>4 DEF Subscribe, SystemdTypeOK
  <2>2. SystemdTypeOK'
    BY <1>4, <2>1 DEF Subscribe, SystemdTypeOK, signals, historyVars, tableHistory
  <2>. QED  BY <1>4, <2>1, <2>2 DEF Subscribe, tables, reader, channel
<1>. QED  BY <1>1, <1>2, <1>3, <1>4

\* The arms of the select! loop, and the coordinator's steps.
LEMMA ArmBase ==
  ASSUME BaseInv, SelectArm \/ Reply \/ Scrape \/ DropSender \/ Hang
  PROVE  BaseInv'
<1> USE MonitorAssumption DEF BaseInv, TypeOK, Shape, Stages, Reads
<1>1. /\ {unitNew, unitRemoved, jobNew, jobRemoved} \subseteq Seq(Units)
      /\ filesChanged \in Nat
  BY DEF SystemdTypeOK
<1>2. CASE TakeNew
  <2>1. Tail(unitNew) \in Seq(Units)
    BY <1>1, <1>2, TakeSignal DEF TakeNew
  <2>2. SystemdTypeOK'
    BY <1>2, <2>1 DEF TakeNew, SystemdTypeOK, managerVars, historyVars, tableHistory
  <2>. QED
    BY <1>2, <2>2 DEF TakeNew, BeginRead, Select, managerVars, tables, reader, channel
<1>3. CASE TakeRemoved
  <2>1. Tail(unitRemoved) \in Seq(Units)
    BY <1>1, <1>3, TakeSignal DEF TakeRemoved
  <2>2. SystemdTypeOK'
    BY <1>3, <2>1 DEF TakeRemoved, SystemdTypeOK, managerVars, historyVars, tableHistory
  <2>3. units' \in Tables
    BY <1>3, DropEntry DEF TakeRemoved
  <2>. QED
    BY <1>3, <2>2, <2>3 DEF TakeRemoved, Select, managerVars, reader, channel
<1>4. CASE TakeJobNew \/ TakeJobRemoved
  <2>1. jobNew' \in Seq(Units) /\ jobRemoved' \in Seq(Units)
    BY <1>1, <1>4, TakeSignal DEF TakeJobNew, TakeJobRemoved
  <2>2. PICK u : Refresh(u)
    BY <1>4 DEF TakeJobNew, TakeJobRemoved
  <2>3. SystemdTypeOK'
    BY <2>1, <2>2 DEF Refresh, SystemdTypeOK, managerVars, historyVars, tableHistory
  <2>4. pc = "select"
    BY <1>4 DEF TakeJobNew, TakeJobRemoved, Select
  <2>5. u \in DOMAIN units => u \in Monitored
    BY TableDomain
  <2>. QED
    BY <2>2, <2>3, <2>4, <2>5 DEF Refresh, Holds, BeginRead, managerVars, tables, reader, channel
<1>5. CASE TakeFilesChanged
  <2>1. filesChanged' \in Nat
    BY <1>1, <1>5 DEF TakeFilesChanged
  <2>2. SystemdTypeOK'
    BY <1>5, <2>1 DEF TakeFilesChanged, SystemdTypeOK, managerVars, historyVars, tableHistory
  <2>. QED
    BY <1>5, <2>2 DEF TakeFilesChanged, Select, managerVars, tables, reader, channel
<1>6. CASE TakeScrape \/ Reply \/ Scrape \/ DropSender \/ Hang
  <2>1. SystemdTypeOK' /\ opened' = opened
    BY <1>6 DEF TakeScrape, Reply, Scrape, DropSender, Hang, systemdVars, SystemdTypeOK,
       managerVars, signals, historyVars, tableHistory
  <2>2. inbox' \in 0 .. ScrapeCap
    BY <1>6 DEF TakeScrape, Reply, Scrape, DropSender, Hang, channel
  <2>3. todo' \in SUBSET Monitored
    BY <1>6, TableDomain DEF TakeScrape, Reply, Scrape, DropSender, Hang
  <2>. QED
    BY <1>6, <2>1, <2>2, <2>3
    DEF TakeScrape, Reply, Scrape, DropSender, Hang, Select, tables, reader, channel
<1>. QED  BY <1>2, <1>3, <1>4, <1>5, <1>6 DEF SelectArm

LEMMA BaseStep ==
  ASSUME BaseInv, [Next]_vars
  PROVE  BaseInv'
<1>1. CASE SystemdNext /\ UNCHANGED monitorVars
  BY <1>1, SystemdType
  DEF BaseInv, TypeOK, Shape, monitorVars, tables, reader, channel
<1>2. CASE UNCHANGED vars
  BY <1>2 DEF vars, systemdVars, monitorVars, tables, reader, channel, managerVars, signals,
     historyVars, tableHistory, BaseInv, TypeOK, SystemdTypeOK, Shape
<1>. QED
  BY <1>1, <1>2, EndBase, ReadBase, LoadBase, ArmBase
  DEF Next, Advance, SelectArm, CallFails, CollectPanics, StreamsEnded, Quiescent

LEMMA BaseAlways == Spec => []BaseInv
  BY BaseInit, BaseStep, PTL DEF Spec

\* The types.
THEOREM MonitorTypes == Spec => []TypeOK
  BY BaseAlways, PTL DEF BaseInv

-----------------------------------------------------------------------------
(* The table's units.                                                      *)

\* What may become of the loaded units, the two streams that tell of them and
\* the histories, while nothing is taken from those streams.
TableMoves ==
  /\ \A v : Unread(unitNew, v) => Unread(unitNew', v)
  /\ \A v : Unread(unitRemoved, v) => Unread(unitRemoved', v)
  /\ \A v \in loaded' \ loaded :
       /\ Unread(unitNew', v) \/ v \in missedNew'
       /\ Unread(unitRemoved', v) => v \in crossed'
  /\ \A v \in loaded \intersect loaded' :
       /\ v \in missedNew => v \in missedNew'
       /\ v \in crossed => v \in crossed'
       /\ Unread(unitRemoved', v) => Unread(unitRemoved, v)
  /\ \A v \in loaded \ loaded' : Unread(unitRemoved', v) \/ v \in missedRemoved'
  /\ \A v \in missedRemoved \ (loaded \union loaded') : v \in missedRemoved'

LEMMA NoMoves ==
  ASSUME UNCHANGED <<loaded, unitNew, unitRemoved, tableHistory>>
  PROVE  TableMoves
  BY DEF TableMoves, tableHistory

LEMMA AppearMoves ==
  ASSUME SystemdTypeOK, NEW u \in Units, u \notin loaded, Appear(u)
  PROVE  TableMoves /\ loaded' = loaded \union {u}
<1>1. unitNew \in Seq(Units)
  BY DEF SystemdTypeOK
<1>2. /\ \A v : Unread(unitNew, v) => Unread(unitNew', v)
      /\ Delivered(1) => Unread(unitNew', u)
  BY <1>1, SentSignal DEF Appear
<1>. QED  BY <1>2 DEF Appear, TableMoves

LEMMA TouchMoves ==
  ASSUME SystemdTypeOK, NEW u \in Units
  PROVE  /\ Touch(u) => TableMoves /\ u \in loaded' /\ UNCHANGED <<jobNew, jobRemoved>>
         /\ UNCHANGED <<loaded, signals, tableHistory>> =>
              TableMoves /\ UNCHANGED <<jobNew, jobRemoved>>
<1>1. UNCHANGED <<loaded, signals, tableHistory>> =>
        TableMoves /\ UNCHANGED <<jobNew, jobRemoved>>
  BY NoMoves DEF signals
<1>2. ASSUME u \notin loaded, Appear(u)
      PROVE  TableMoves /\ u \in loaded' /\ UNCHANGED <<jobNew, jobRemoved>>
  BY <1>2, AppearMoves DEF Appear
<1>. QED  BY <1>1, <1>2 DEF Touch

LEMMA SystemdMoves ==
  ASSUME SystemdTypeOK, SystemdNext
  PROVE  TableMoves
<1>1. ASSUME NEW u \in Units, LoadUnit(u)
      PROVE  TableMoves
  BY <1>1, AppearMoves DEF LoadUnit
<1>2. ASSUME NEW u \in Units, UnloadUnit(u)
      PROVE  TableMoves
  <2>1. unitRemoved \in Seq(Units)
    BY DEF SystemdTypeOK
  <2>2. /\ \A v : Unread(unitRemoved, v) => Unread(unitRemoved', v)
        /\ \A v : Unread(unitRemoved', v) => Unread(unitRemoved, v) \/ v = u
        /\ Delivered(2) => Unread(unitRemoved', u)
    BY <1>2, <2>1, SentSignal DEF UnloadUnit
  <2>3. loaded' = loaded \ {u} /\ UNCHANGED <<unitNew, missedNew, crossed>>
        /\ missedRemoved \ {u} \subseteq missedRemoved'
        /\ (Delivered(2) \/ u \in missedRemoved')
    BY <1>2 DEF UnloadUnit
  <2>. QED  BY <1>2, <2>2, <2>3 DEF TableMoves, UnloadUnit
<1>3. ASSUME NEW u \in Units, StartJob(u) \/ EndJob(u) \/ RunJob(u) \/ ChangeByItself(u)
      PROVE  TableMoves
  BY <1>3, NoMoves DEF StartJob, EndJob, RunJob, ChangeByItself, signals, historyVars
<1>4. CASE ChangeFiles \/ Disconnect
  BY <1>4, NoMoves DEF ChangeFiles, Disconnect, managerVars, signals, historyVars
<1>. QED  BY <1>1, <1>2, <1>3, <1>4 DEF SystemdNext

\* The steps that change neither streams nor tables, but for the stage.
LEMMA QuietMoves ==
  ASSUME \/ \E u \in Monitored : LoadNext(u)
         \/ Subscribe \/ TakeJobNew \/ TakeJobRemoved \/ TakeFilesChanged \/ TakeScrape
         \/ Reply \/ Scrape \/ DropSender \/ Hang \/ End
  PROVE  TableMoves
<1>1. UNCHANGED <<loaded, unitNew, unitRemoved, tableHistory>>
  BY DEF LoadNext, Subscribe, TakeJobNew, TakeJobRemoved, Refresh, TakeFilesChanged,
     TakeScrape, Reply, Scrape, DropSender, Hang, End, systemdVars, managerVars, signals,
     historyVars
<1>. QED  BY <1>1, NoMoves

\* No ghosts.
LEMMA GhostKept ==
  ASSUME GhostHasRemoval, TableMoves,
         DOMAIN units' \union DOMAIN fresh' \subseteq
           DOMAIN units \union DOMAIN fresh \union loaded'
  PROVE  GhostHasRemoval'
  BY DEF GhostHasRemoval, TableMoves

LEMMA GhostStep ==
  ASSUME BaseInv, GhostHasRemoval, [Next]_vars
  PROVE  GhostHasRemoval'
<1>1. SystemdTypeOK /\ Monitored \subseteq Units /\ units \in Tables /\ fresh \in Tables
      /\ {unitNew, unitRemoved} \subseteq Seq(Units)
  BY MonitorAssumption DEF BaseInv, TypeOK, SystemdTypeOK
<1>2. CASE End
  BY <1>2, EmptyTable DEF End, GhostHasRemoval
<1>3. CASE ReadRest
  <2> DEFINE status == [active |-> half, rest |-> state[reading]]
  <2>1. reading \in Monitored
    BY <1>3 DEF ReadRest, BaseInv, TypeOK
  <2>2. TableMoves /\ reading \in loaded'
    BY <1>1, <1>3, <2>1, TouchMoves DEF ReadRest
  <2>3. /\ units' = units \/ units' = Stored(units, reading, status)
        /\ fresh' = fresh \/ fresh' = Stored(fresh, reading, status)
    BY <1>3 DEF ReadRest
  <2>4. /\ DOMAIN Stored(units, reading, status) = DOMAIN units \union {reading}
        /\ DOMAIN Stored(fresh, reading, status) = DOMAIN fresh \union {reading}
    BY DEF Stored
  <2>. QED  BY <2>2, <2>3, <2>4, GhostKept
<1>4. CASE ReadActive \/ \E u \in Monitored : CollectUnit(u)
  <2>1. TableMoves
    BY <1>1, <1>4, TouchMoves DEF ReadActive, CollectUnit, BaseInv, TypeOK
  <2>2. units' = units /\ fresh' = fresh
    BY <1>4 DEF ReadActive, CollectUnit, tables
  <2>. QED  BY <2>1, <2>2, GhostKept
<1>5. CASE SystemdNext /\ UNCHANGED monitorVars
  BY <1>1, <1>5, SystemdMoves, GhostKept DEF monitorVars, tables
<1>6. CASE ListUnits
  <2>1. UNCHANGED <<loaded, unitRemoved, missedRemoved, units>> /\ fresh' = <<>>
    BY <1>6 DEF ListUnits, managerVars, signals
  <2>. QED  BY <2>1, EmptyTable DEF GhostHasRemoval
<1>7. CASE Loaded
  <2>1. /\ UNCHANGED <<loaded, unitRemoved>> /\ units' = fresh /\ fresh' = <<>>
        /\ missedRemoved' = missedRemoved \intersect DOMAIN fresh
    BY <1>7 DEF Loaded, managerVars, signals
  <2>. QED  BY <2>1, EmptyTable DEF GhostHasRemoval
<1>8. CASE TakeNew
  BY <1>8 DEF TakeNew, GhostHasRemoval, managerVars, historyVars, tableHistory, tables
<1>9. CASE TakeRemoved
  <2>1. \A v : Unread(unitRemoved, v) <=> Unread(Tail(unitRemoved), v) \/ v = Head(unitRemoved)
    BY <1>1, <1>9, TakeSignal DEF TakeRemoved
  <2>2. /\ DOMAIN units' = DOMAIN units \ {Head(unitRemoved)}
        /\ fresh' = <<>>
        /\ unitRemoved' = Tail(unitRemoved)
        /\ UNCHANGED <<loaded, missedRemoved>>
    BY <1>9 DEF TakeRemoved, BaseInv, Shape, Select, managerVars, historyVars, tableHistory
  <2>. QED  BY <2>1, <2>2, EmptyTable DEF GhostHasRemoval
<1>10. CASE \/ \E u \in Monitored : LoadNext(u)
            \/ Subscribe \/ TakeJobNew \/ TakeJobRemoved \/ TakeFilesChanged \/ TakeScrape
            \/ Reply \/ Scrape \/ DropSender \/ Hang
  <2>1. units' = units /\ fresh' = fresh
    BY <1>10 DEF LoadNext, Subscribe, TakeJobNew, TakeJobRemoved, Refresh, TakeFilesChanged,
       TakeScrape, Reply, Scrape, DropSender, Hang, tables
  <2>. QED  BY <1>10, <2>1, QuietMoves, GhostKept
<1>11. CASE UNCHANGED vars
  BY <1>11 DEF vars, systemdVars, managerVars, signals, historyVars, tableHistory,
     monitorVars, tables, GhostHasRemoval
<1>. QED
  BY <1>2, <1>3, <1>4, <1>5, <1>6, <1>7, <1>8, <1>9, <1>10, <1>11
  DEF Next, Advance, SelectArm, CallFails, CollectPanics, StreamsEnded, Quiescent

\* A unit of the table that is not loaded any more has its removal on the way,
\* for any units, and any number of events, reloads and scrapes
\* (service.rs:201-286).
THEOREM NoGhosts == Spec => []GhostHasRemoval
<1>1. Init => GhostHasRemoval
  BY EmptyTable DEF Init, GhostHasRemoval
<1>. QED  BY <1>1, GhostStep, BaseAlways, PTL DEF Spec

-----------------------------------------------------------------------------
(* No unit is forgotten.                                                   *)

MissingInv == CrossedKnown /\ LoadCovers /\ MissingUnitIsComing

\* Steps that take no unit off the table, and none off the list of load_all.
LEMMA MissingKept ==
  ASSUME MissingInv, TableMoves,
         DOMAIN units \subseteq DOMAIN units',
         pc' \in {"load", "loadRead"} <=> pc \in {"load", "loadRead"},
         pc \in {"load", "loadRead"} =>
           todo \union DOMAIN fresh \union {reading} \subseteq
             todo' \union DOMAIN fresh' \union {reading', NoUnit},
         pc = "newRead" => reading \in DOMAIN units' \/ (pc' = "newRead" /\ reading' = reading),
         pc # "ended"
  PROVE  MissingInv'
<1>1. CrossedKnown'
  BY DEF MissingInv, CrossedKnown, TableMoves
<1>2. NoUnit \notin Monitored
  BY MonitorAssumption
<1>3. LoadCovers'
  BY <1>2 DEF MissingInv, LoadCovers, TableMoves
<1>4. MissingUnitIsComing'
  BY <1>2 DEF MissingInv, MissingUnitIsComing, BeingLoaded, TableMoves
<1>. QED  BY <1>1, <1>3, <1>4 DEF MissingInv

LEMMA MissingStep ==
  ASSUME BaseInv, MissingInv, [Next]_vars
  PROVE  MissingInv'
<1>1. SystemdTypeOK /\ Monitored \subseteq Units /\ units \in Tables /\ fresh \in Tables
      /\ {unitNew, unitRemoved} \subseteq Seq(Units) /\ NoUnit \notin Monitored
  BY MonitorAssumption DEF BaseInv, TypeOK, SystemdTypeOK
<1>2. CASE End
  <2>1. TableMoves /\ pc' = "ended"
    BY <1>2, QuietMoves DEF End
  <2>. QED
    BY <2>1 DEF MissingInv, CrossedKnown, LoadCovers, MissingUnitIsComing, TableMoves
<1>3. CASE ReadRest
  <2> DEFINE status == [active |-> half, rest |-> state[reading]]
  <2>1. reading \in Monitored /\ pc \in Reads
    BY <1>3 DEF ReadRest, BaseInv, TypeOK
  <2>2. TableMoves
    BY <1>1, <1>3, <2>1, TouchMoves DEF ReadRest
  <2>3. /\ DOMAIN Stored(units, reading, status) = DOMAIN units \union {reading}
        /\ DOMAIN Stored(fresh, reading, status) = DOMAIN fresh \union {reading}
    BY DEF Stored
  <2>4. CASE pc = "loadRead"
    <3>1. pc' = "load" /\ todo' = todo /\ units' = units /\ fresh' = Stored(fresh, reading, status)
      BY <1>3, <2>4 DEF ReadRest
    <3>. QED  BY <2>2, <2>3, <2>4, <3>1, MissingKept
  <2>5. CASE pc # "loadRead"
    <3>1. pc' = "select" /\ units' = Stored(units, reading, status)
      BY <1>3, <2>5 DEF ReadRest
    <3>. QED  BY <2>1, <2>2, <2>3, <2>5, <3>1, MissingKept DEF Reads
  <2>. QED  BY <2>4, <2>5
<1>4. CASE ReadActive \/ \E u \in Monitored : CollectUnit(u)
  <2>1. TableMoves
    BY <1>1, <1>4, TouchMoves DEF ReadActive, CollectUnit, BaseInv, TypeOK
  <2>2. /\ UNCHANGED <<units, fresh, pc, reading>>
        /\ pc # "ended" /\ (pc # "collect" => todo' = todo)
    BY <1>4 DEF ReadActive, CollectUnit, tables, reader, Reads
  <2>. QED  BY <2>1, <2>2, MissingKept
<1>5. CASE SystemdNext /\ UNCHANGED monitorVars
  <2>1. TableMoves /\ UNCHANGED <<units, fresh, pc, reading, todo>>
    BY <1>1, <1>5, SystemdMoves DEF monitorVars, tables, reader
  <2>2. CASE pc # "ended"
    BY <2>1, <2>2, MissingKept
  <2>3. CASE pc = "ended"
    BY <2>1, <2>3 DEF MissingInv, CrossedKnown, LoadCovers, MissingUnitIsComing, TableMoves
  <2>. QED  BY <2>2, <2>3
<1>6. CASE ListUnits
  <2>1. /\ UNCHANGED <<loaded, unitNew, unitRemoved, units, reading>> /\ fresh' = <<>>
        /\ pc' = "load" /\ todo' = loaded \intersect Monitored
        /\ crossed' = {u \in crossed : u \notin loaded \/ Unread(unitRemoved, u)}
    BY <1>6 DEF ListUnits, managerVars, signals, reader
  <2>. QED
    BY <2>1 DEF MissingInv, CrossedKnown, LoadCovers, MissingUnitIsComing, BeingLoaded
<1>7. CASE Loaded
  <2>1. /\ UNCHANGED <<loaded, unitNew, unitRemoved, missedNew, crossed>> /\ units' = fresh
        /\ pc = "load" /\ todo = {} /\ pc' \in {"select", "subscribe"}
    BY <1>7 DEF Loaded, managerVars, signals
  <2>2. reading = NoUnit
    BY <2>1 DEF BaseInv, TypeOK, Reads
  <2>. QED
    BY <1>1, <2>1, <2>2 DEF MissingInv, CrossedKnown, LoadCovers, MissingUnitIsComing
<1>8. CASE TakeNew
  <2> DEFINE h == Head(unitNew)
  <2>1. \A v : Unread(unitNew, v) <=> Unread(Tail(unitNew), v) \/ v = h
    BY <1>1, <1>8, TakeSignal DEF TakeNew
  <2>2. /\ UNCHANGED <<loaded, unitRemoved, missedNew, crossed, units>>
        /\ pc = "select" /\ unitNew' = Tail(unitNew)
        /\ IF h \in Monitored THEN pc' = "newRead" /\ reading' = h ELSE pc' = "select"
    BY <1>8 DEF TakeNew, BeginRead, Select, managerVars, historyVars, tableHistory, tables
  <2>. QED
    BY <2>1, <2>2 DEF MissingInv, CrossedKnown, LoadCovers, MissingUnitIsComing, BeingLoaded
<1>9. CASE TakeRemoved
  <2> DEFINE h == Head(unitRemoved)
  <2>1. \A v : Unread(unitRemoved, v) <=> Unread(Tail(unitRemoved), v) \/ v = h
    BY <1>1, <1>9, TakeSignal DEF TakeRemoved
  <2>2. /\ DOMAIN units' = DOMAIN units \ {h}
        /\ pc = "select" /\ pc' = "select" /\ unitRemoved' = Tail(unitRemoved)
        /\ UNCHANGED <<loaded, unitNew, missedNew, crossed>>
    BY <1>9 DEF TakeRemoved, Select, managerVars, historyVars, tableHistory
  <2>. QED
    BY <2>1, <2>2 DEF MissingInv, CrossedKnown, LoadCovers, MissingUnitIsComing, BeingLoaded
<1>10. ASSUME NEW u \in Monitored, LoadNext(u)
       PROVE  MissingInv'
  <2>1. /\ UNCHANGED <<units, fresh>> /\ pc = "load" /\ pc' = "loadRead"
        /\ todo' = todo \ {u} /\ reading' = u
    BY <1>10 DEF LoadNext, BeginRead, tables
  <2>2. reading = NoUnit
    BY <2>1 DEF BaseInv, TypeOK, Reads
  <2>. QED  BY <1>10, <2>1, <2>2, QuietMoves, MissingKept
<1>11. CASE \/ Subscribe \/ TakeJobNew \/ TakeJobRemoved \/ TakeFilesChanged \/ TakeScrape
            \/ Reply
  <2>1. /\ units' = units /\ pc \in {"subscribe", "select", "collect"}
        /\ pc' \in {"subscribe", "select", "jobRead", "list", "collect"}
    BY <1>11 DEF Subscribe, TakeJobNew, TakeJobRemoved, Refresh, BeginRead,
       TakeFilesChanged, TakeScrape, Reply, Select, tables
  <2>. QED  BY <1>11, <2>1, QuietMoves, MissingKept
<1>12. CASE Scrape \/ DropSender \/ Hang \/ UNCHANGED vars
  <2>1. UNCHANGED <<units, fresh, pc, reading, todo, loaded, unitNew, unitRemoved, tableHistory>>
    BY <1>12 DEF Scrape, DropSender, Hang, vars, systemdVars, managerVars, signals, historyVars,
       monitorVars, tables, reader
  <2>. QED
    BY <2>1 DEF MissingInv, CrossedKnown, LoadCovers, MissingUnitIsComing, BeingLoaded,
       tableHistory
<1>. QED
  BY <1>2, <1>3, <1>4, <1>5, <1>6, <1>7, <1>8, <1>9, <1>10, <1>11, <1>12
  DEF Next, Advance, SelectArm, CallFails, CollectPanics, StreamsEnded, Quiescent

\* A loaded unit that passes the filters is in the table or on its way into it,
\* but for the named exceptions, for any units, and any number of events,
\* reloads and scrapes (service.rs:201-286).
THEOREM NoneForgotten == Spec => []MissingUnitIsComing
<1>1. Init => MissingInv
  <2> SUFFICES ASSUME Init PROVE MissingInv
    OBVIOUS
  <2>1. ToSet(<<>>) = {}
    BY DEF ToSet
  <2>. QED
    BY <2>1 DEF Init, SystemdInit, MissingInv, CrossedKnown, LoadCovers, MissingUnitIsComing,
       Unread
<1>2. MissingInv => MissingUnitIsComing
  BY DEF MissingInv
<1>. QED  BY <1>1, <1>2, MissingStep, BaseAlways, PTL DEF Spec

-----------------------------------------------------------------------------
(* Stale statuses.                                                         *)

\* The state of a unit moves only with notice of it.
StateMoves(v) ==
  ChangeComing(v)' \/ (state'[v] = state[v] /\ ~ChangeComing(v))

LEMMA NoStateMoves ==
  ASSUME UNCHANGED <<state, job, jobNew, jobRemoved, unannounced>>
  PROVE  \A v : StateMoves(v)
  BY DEF StateMoves, ChangeComing

LEMMA SystemdStateMoves ==
  ASSUME SystemdTypeOK, SystemdNext
  PROVE  \A v \in Units : StateMoves(v)
<1>1. /\ jobNew \in Seq(Units) /\ jobRemoved \in Seq(Units)
      /\ state \in [Units -> UnitStates] /\ job \in [Units -> JobStates]
  BY DEF SystemdTypeOK
<1>2. ASSUME NEW u \in Units, LoadUnit(u) \/ UnloadUnit(u)
      PROVE  \A v \in Units : StateMoves(v)
  BY <1>2, NoStateMoves DEF LoadUnit, UnloadUnit, Appear
<1>3. ASSUME NEW u \in Units, StartJob(u)
      PROVE  \A v \in Units : StateMoves(v)
  <2>1. \A v : Unread(jobNew, v) => Unread(jobNew', v)
    BY <1>1, <1>3, SentSignal DEF StartJob
  <2>. QED
    BY <1>1, <1>3, <2>1 DEF StartJob, StateMoves, ChangeComing, historyVars
<1>4. ASSUME NEW u \in Units, EndJob(u)
      PROVE  \A v \in Units : StateMoves(v)
  <2>1. /\ \A v : Unread(jobRemoved, v) => Unread(jobRemoved', v)
        /\ Delivered(4) => Unread(jobRemoved', u)
    BY <1>1, <1>4, SentSignal DEF EndJob
  <2>. QED
    BY <1>1, <1>4, <2>1 DEF EndJob, StateMoves, ChangeComing
<1>5. ASSUME NEW u \in Units, RunJob(u) \/ ChangeByItself(u)
      PROVE  \A v \in Units : StateMoves(v)
  BY <1>1, <1>5 DEF RunJob, ChangeByItself, StateMoves, ChangeComing, signals, historyVars
<1>6. CASE ChangeFiles \/ Disconnect
  BY <1>6, NoStateMoves DEF ChangeFiles, Disconnect, managerVars, signals, historyVars
<1>. QED  BY <1>2, <1>3, <1>4, <1>5, <1>6 DEF SystemdNext

\* Steps that store no status and stop no reading.
LEMMA StaleKept ==
  ASSUME BaseInv, StaleStatusIsRefreshed, \A v \in Monitored : StateMoves(v),
         UNCHANGED <<units, fresh>>,
         half' = half \/ half' = "unread", half' # "unread" => reading' = reading,
         pc \in Reads => pc' \in Reads /\ reading' = reading,
         \A u \in Monitored : BeingLoaded(u) => BeingLoaded(u)'
  PROVE  StaleStatusIsRefreshed'
<1>1. DOMAIN units \subseteq Monitored /\ DOMAIN fresh \subseteq Monitored
  BY TableDomain DEF BaseInv, TypeOK
<1>2. half # "unread" => reading \in Monitored
  BY DEF BaseInv, TypeOK, Shape
<1>. QED  BY <1>1, <1>2 DEF StaleStatusIsRefreshed, StateMoves, True

\* A job signal that is taken is about a unit that is read again.
LEMMA JobSignalStale ==
  ASSUME BaseInv, StaleStatusIsRefreshed, TakeJobNew \/ TakeJobRemoved
  PROVE  StaleStatusIsRefreshed'
<1>1. jobNew \in Seq(Units) /\ jobRemoved \in Seq(Units)
  BY DEF BaseInv, TypeOK, SystemdTypeOK
<1>2. PICK h :
        /\ Refresh(h)
        /\ \A v : Unread(jobNew, v) => Unread(jobNew', v) \/ v = h
        /\ \A v : Unread(jobRemoved, v) => Unread(jobRemoved', v) \/ v = h
  <2>1. CASE TakeJobNew
    <3>1. \A v : Unread(jobNew, v) => Unread(jobNew', v) \/ v = Head(jobNew)
      BY <1>1, <2>1, TakeSignal DEF TakeJobNew
    <3>. QED  BY <2>1, <3>1 DEF TakeJobNew
  <2>2. CASE TakeJobRemoved
    <3>1. \A v : Unread(jobRemoved, v) => Unread(jobRemoved', v) \/ v = Head(jobRemoved)
      BY <1>1, <2>2, TakeSignal DEF TakeJobRemoved
    <3>. QED  BY <2>2, <3>1 DEF TakeJobRemoved
  <2>. QED  BY <2>1, <2>2
<1>3. /\ pc = "select" /\ fresh = <<>> /\ half = "unread"
      /\ UNCHANGED <<state, job, unannounced, units, fresh>>
  BY <1>2 DEF TakeJobNew, TakeJobRemoved, Select, BaseInv, Shape, Reads, Refresh,
     managerVars, historyVars, tables
<1>4. h \in DOMAIN units => pc' = "jobRead" /\ reading' = h /\ half' = "unread"
  BY <1>2 DEF Refresh, Holds, BeginRead
<1>5. half' = "unread" /\ pc' \in {"select", "jobRead"}
  BY <1>2, <1>3 DEF Refresh, BeginRead, reader
<1>6. \A v : v # h /\ ChangeComing(v) => ChangeComing(v)'
  BY <1>2, <1>3 DEF ChangeComing
<1>7. \A u \in DOMAIN units :
        u # h => units[u] = True(u) \/ ChangeComing(u)
  BY <1>3 DEF StaleStatusIsRefreshed, BeingLoaded, Reads
<1>8. \A u \in DOMAIN units' :
        units'[u] = True(u)' \/ ChangeComing(u)' \/ (pc' \in Reads /\ reading' = u)
  BY <1>3, <1>4, <1>6, <1>7 DEF True, Reads
<1>. QED  BY <1>3, <1>5, <1>8, EmptyTable DEF StaleStatusIsRefreshed

\* The status that is read is true or about to be read again.
LEMMA ReadStale ==
  ASSUME BaseInv, StaleStatusIsRefreshed, ReadActive \/ ReadRest
  PROVE  StaleStatusIsRefreshed'
<1>1. /\ reading \in Monitored /\ Monitored \subseteq Units
      /\ SystemdTypeOK /\ pc \in Reads
  BY MonitorAssumption DEF ReadActive, ReadRest, BaseInv, TypeOK
<1>2. UNCHANGED <<jobNew, jobRemoved, state, job>>
  BY <1>1, TouchMoves DEF ReadActive, ReadRest
<1>3. fresh \in Tables /\ units \in Tables
  BY DEF BaseInv, TypeOK
<1>4. CASE ReadActive
  <2>1. /\ UNCHANGED <<units, fresh, pc, todo, reading>>
        /\ half' = state[reading] /\ unannounced' = unannounced \ {reading}
    BY <1>4 DEF ReadActive, tables
  <2>2. \A v : v # reading /\ ChangeComing(v) => ChangeComing(v)'
    BY <1>2, <2>1 DEF ChangeComing
  <2>3. reading \notin DOMAIN fresh
    BY <1>1, EmptyTable DEF BaseInv, Shape, Reads
  <2>. QED
    BY <1>1, <1>2, <2>1, <2>2, <2>3 DEF StaleStatusIsRefreshed, True, BeingLoaded
<1>5. CASE ReadRest
  <2> DEFINE status == [active |-> half, rest |-> state[reading]]
  <2>1. UNCHANGED unannounced /\ half # "unread" /\ half' = "unread" /\ todo' = todo
    BY <1>5 DEF ReadRest
  <2>2. \A v : (ChangeComing(v)' <=> ChangeComing(v)) /\ True(v)' = True(v)
    BY <1>2, <2>1 DEF ChangeComing, True
  <2>3. status = True(reading) \/ ChangeComing(reading)
    BY <2>1 DEF StaleStatusIsRefreshed, True
  <2>4. CASE pc = "loadRead"
    <3>1. units' = units /\ fresh' = Stored(fresh, reading, status) /\ pc' = "load"
      BY <1>5, <2>4 DEF ReadRest
    <3>2. \A u \in DOMAIN fresh' : fresh'[u] = True(u)' \/ ChangeComing(u)'
      BY <2>2, <2>3, <3>1 DEF StaleStatusIsRefreshed, Stored
    <3>3. DOMAIN fresh' = DOMAIN fresh \union {reading}
      BY <3>1 DEF Stored
    <3>4. \A u \in DOMAIN units :
            units[u] = True(u) \/ ChangeComing(u) \/ u \in todo \union DOMAIN fresh'
      BY <3>3 DEF StaleStatusIsRefreshed, BeingLoaded
    <3>. QED  BY <2>1, <2>2, <3>1, <3>2, <3>4 DEF StaleStatusIsRefreshed, BeingLoaded
  <2>5. CASE pc # "loadRead"
    <3>1. units' = Stored(units, reading, status) /\ fresh' = fresh /\ pc' = "select"
      BY <1>5, <2>5 DEF ReadRest
    <3>2. fresh = <<>>
      BY <1>1, <2>5 DEF BaseInv, Shape, Reads
    <3>3. \A u \in DOMAIN units : u # reading => units[u] = True(u) \/ ChangeComing(u)
      BY <1>1, <2>5 DEF StaleStatusIsRefreshed, BeingLoaded, Reads
    <3>4. \A u \in DOMAIN units' : units'[u] = True(u)' \/ ChangeComing(u)'
      BY <2>2, <2>3, <3>1, <3>3 DEF Stored
    <3>. QED  BY <2>1, <3>1, <3>2, <3>4, EmptyTable DEF StaleStatusIsRefreshed
  <2>. QED  BY <2>4, <2>5
<1>. QED  BY <1>4, <1>5

LEMMA StaleStep ==
  ASSUME BaseInv, StaleStatusIsRefreshed, [Next]_vars
  PROVE  StaleStatusIsRefreshed'
<1>1. SystemdTypeOK /\ Monitored \subseteq Units
  BY MonitorAssumption DEF BaseInv, TypeOK
<1>2. CASE End
  BY <1>2, EmptyTable DEF End, StaleStatusIsRefreshed
<1>3. ASSUME NEW u \in Monitored, CollectUnit(u)
      PROVE  StaleStatusIsRefreshed'
  <2>1. \A v : StateMoves(v)
    BY <1>1, <1>3, TouchMoves, NoStateMoves DEF CollectUnit
  <2>. QED
    BY <1>3, <2>1, StaleKept DEF CollectUnit, tables, reader, BeingLoaded
<1>4. CASE SystemdNext /\ UNCHANGED monitorVars
  BY <1>1, <1>4, SystemdStateMoves, StaleKept DEF monitorVars, tables, reader, BeingLoaded
<1>5. CASE ListUnits
  <2>1. /\ pc = "list" /\ fresh' = <<>> /\ UNCHANGED <<state, units, half>>
        /\ half = "unread" /\ \A v : (ChangeComing(v)' <=> ChangeComing(v)) /\ True(v)' = True(v)
    BY <1>5 DEF ListUnits, managerVars, signals, reader, ChangeComing, True, BaseInv, Shape, Reads
  <2>. QED  BY <2>1, EmptyTable DEF StaleStatusIsRefreshed, BeingLoaded, Reads
<1>6. CASE Loaded
  <2>1. /\ units' = fresh /\ fresh' = <<>> /\ half' = "unread"
        /\ \A v : (ChangeComing(v)' <=> ChangeComing(v)) /\ True(v)' = True(v)
    BY <1>6 DEF Loaded, managerVars, signals, reader, ChangeComing, True, BaseInv, Shape, Reads
  <2>. QED  BY <2>1, EmptyTable DEF StaleStatusIsRefreshed
<1>7. CASE TakeNew
  <2>1. \A v : StateMoves(v)
    BY <1>7, NoStateMoves DEF TakeNew, managerVars, historyVars
  <2>. QED
    BY <1>7, <2>1, StaleKept
    DEF TakeNew, BeginRead, Select, Reads, tables, reader, BeingLoaded
<1>8. CASE TakeRemoved
  <2>1. /\ \A v : (ChangeComing(v)' <=> ChangeComing(v)) /\ True(v)' = True(v)
        /\ DOMAIN units' \subseteq DOMAIN units /\ \A u \in DOMAIN units' : units'[u] = units[u]
        /\ UNCHANGED <<pc, fresh, todo, reading, half>> /\ pc = "select" /\ half = "unread"
    BY <1>8 DEF TakeRemoved, Select, managerVars, historyVars, reader, ChangeComing, True,
       BaseInv, Shape, Reads
  <2>. QED  BY <2>1 DEF StaleStatusIsRefreshed, BeingLoaded, Reads
<1>9. ASSUME NEW u \in Monitored, LoadNext(u)
      PROVE  StaleStatusIsRefreshed'
  <2>1. \A v : StateMoves(v)
    BY <1>9, NoStateMoves DEF LoadNext, systemdVars, managerVars, signals, historyVars
  <2>2. reading = NoUnit /\ NoUnit \notin Monitored
    BY <1>9, MonitorAssumption DEF LoadNext, BaseInv, TypeOK, Reads
  <2>3. \A v \in Monitored : BeingLoaded(v) => BeingLoaded(v)'
    BY <1>9, <2>2 DEF LoadNext, BeginRead, tables, BeingLoaded
  <2>4. UNCHANGED <<units, fresh>> /\ half' = "unread" /\ pc \notin Reads
    BY <1>9 DEF LoadNext, BeginRead, tables, Reads
  <2>. QED  BY <2>1, <2>3, <2>4, StaleKept
<1>10. CASE Subscribe \/ TakeFilesChanged \/ TakeScrape \/ Reply
  <2>1. \A v : StateMoves(v)
    BY <1>10, NoStateMoves DEF Subscribe, TakeFilesChanged, TakeScrape, Reply,
       systemdVars, managerVars, signals, historyVars
  <2>2. UNCHANGED <<units, fresh, half, reading>> /\ pc \in {"subscribe", "select", "collect"}
    BY <1>10 DEF Subscribe, TakeFilesChanged, TakeScrape, Reply, Select, tables, reader
  <2>. QED  BY <2>1, <2>2, StaleKept DEF BeingLoaded, Reads
<1>11. CASE Scrape \/ DropSender \/ Hang \/ UNCHANGED vars
  <2>1. \A v : StateMoves(v)
    BY <1>11, NoStateMoves DEF Scrape, DropSender, Hang, vars,
       systemdVars, managerVars, signals, historyVars
  <2>2. UNCHANGED <<units, fresh, half, reading, pc, todo>>
    BY <1>11 DEF Scrape, DropSender, Hang, vars, monitorVars, tables, reader
  <2>. QED  BY <2>1, <2>2, StaleKept DEF BeingLoaded
<1>. QED
  BY <1>2, <1>3, <1>4, <1>5, <1>6, <1>7, <1>8, <1>9, <1>10, <1>11, JobSignalStale, ReadStale
  DEF Next, Advance, SelectArm, CallFails, CollectPanics, StreamsEnded, Quiescent

\* A status that is out of date, or torn by a change between its two reads, is
\* about to be read again, unless the unit changed without a job, for any units
\* and any number of events, reloads and scrapes (service.rs:243-286).
THEOREM StaleIsRefreshed == Spec => []StaleStatusIsRefreshed
<1>1. Init => StaleStatusIsRefreshed
  BY EmptyTable DEF Init, StaleStatusIsRefreshed
<1>. QED  BY <1>1, StaleStep, BaseAlways, PTL DEF Spec

-----------------------------------------------------------------------------
(* The task that the coordinator sees.                                     *)

LEMMA TaskInit == Init => Task!Init
  BY DEF Init, SystemdInit, Task!Init, TaskPhase

LEMMA TaskStep ==
  ASSUME BaseInv, BaseInv', [Next]_vars
  PROVE  [Task!Next]_(Task!taskVars)
<1> USE DEF TaskPhase, Task!taskVars, Task!Next
<1>1. CASE pc # "ended" /\ End
  BY <1>1 DEF End, Task!End
<1>2. CASE \/ ListUnits \/ Loaded \/ (\E u \in Monitored : LoadNext(u) \/ CollectUnit(u))
           \/ ReadActive \/ ReadRest \/ TakeNew \/ TakeRemoved \/ TakeJobNew
           \/ TakeJobRemoved \/ TakeFilesChanged
  <2>1. UNCHANGED <<opened, inbox, senderHeld>>
    BY <1>2 DEF ListUnits, Loaded, LoadNext, CollectUnit, ReadActive, ReadRest, TakeNew,
       TakeRemoved, TakeJobNew, TakeJobRemoved, Refresh, TakeFilesChanged, channel,
       systemdVars, managerVars
  <2>2. TaskPhase' = TaskPhase
    BY <1>2, <2>1 DEF ListUnits, Loaded, LoadNext, CollectUnit, ReadActive, ReadRest, TakeNew,
       TakeRemoved, TakeJobNew, TakeJobRemoved, Refresh, TakeFilesChanged, BeginRead, Select,
       Reads, BaseInv, Shape, TypeOK, SystemdTypeOK
  <2>. QED  BY <2>1, <2>2
<1>3. CASE Subscribe
  BY <1>3 DEF Subscribe, channel, BaseInv, Shape, Task!Load
<1>4. CASE TakeScrape
  BY <1>4 DEF TakeScrape, Select, Task!Take, BaseInv, TypeOK
<1>5. CASE Reply
  BY <1>5 DEF Reply, channel, systemdVars, managerVars, Task!Answer
<1>6. CASE Scrape
  BY <1>6 DEF Scrape, systemdVars, managerVars, Task!Request
<1>7. CASE DropSender
  BY <1>7 DEF DropSender, systemdVars, managerVars, Task!Close
<1>8. CASE (SystemdNext /\ UNCHANGED monitorVars) \/ Hang
  BY <1>8, SystemdType
  DEF Hang, systemdVars, managerVars, BaseInv, TypeOK, monitorVars, channel
<1>9. CASE UNCHANGED vars
  BY <1>9 DEF vars, systemdVars, managerVars, monitorVars, channel
<1>. QED
  BY <1>1, <1>2, <1>3, <1>4, <1>5, <1>6, <1>7, <1>8, <1>9
  DEF Next, Advance, SelectArm, CallFails, CollectPanics, StreamsEnded, Quiescent, Select, Reads

\* monitor_units is the task that the coordinator's model takes it for: requests
\* are taken one by one once the table is loaded, and only the task's end loses
\* one (service.rs:193-291).
THEOREM MonitorActsAsTask == Spec => ActsAsTask
  BY TaskInit, TaskStep, BaseAlways, PTL DEF Spec, ActsAsTask, Task!Spec

=============================================================================
