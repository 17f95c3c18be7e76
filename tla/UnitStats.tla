------------------------------ MODULE UnitStats ------------------------------
(***************************************************************************)
(* One unit of the table: what UnitParser::parse makes of it, its          *)
(* accounting flags, and the collection of its statistics for a scrape     *)
(* (src/service/unit.rs, src/cgroup/cgroup.rs, systemd_readers.rs).        *)
(*                                                                         *)
(* Every file and every D-Bus property is an await of its own, between     *)
(* which the unit may stop, start again elsewhere in the cgroup tree, or   *)
(* be given other accounting settings.                                     *)
(***************************************************************************)
EXTENDS Naturals, FiniteSets, SequencesExt

CONSTANTS
  Kinds,       \* kinds of unit that are looked at
  FlagSets,    \* what a unit's accounting settings may be: sets of groups
  Kernels,     \* kernels: the cgroup files they have, what io.stat may hold
  U64Max,      \* what systemd replies for a number it does not have
  MaxLives     \* bound: how often the unit runs

ASSUME StatsAssumption ==
  /\ Kinds \subseteq {"service", "slice", "root slice", "timer"}
  /\ FlagSets \subseteq SUBSET {"ip", "io", "cpu", "memory", "tasks"}
  /\ MaxLives \in Nat \ {0} /\ U64Max \in Nat \ {0}

IoStats == UNION {k.iostats : k \in Kernels}

\* The lines of io.stat, their words and the numbers of the words.
ASSUME IoStatsAssumption ==
  \A lines \in IoStats :
    /\ IsFiniteSet(DOMAIN lines)
    /\ \A i \in DOMAIN lines :
         /\ IsFiniteSet(DOMAIN lines[i])
         /\ \A j \in DOMAIN lines[i] : Len(lines[i][j]) = 2 => lines[i][j][2] \in Nat

VARIABLES
  kernel,
  kind,
  state,       \* the unit's state in systemd
  lives,       \* how often it has run; the number of its present or last run
  place,       \* its ControlGroup
  iostat,      \* its io.stat: a line for each device, of words after the device
  enabled,     \* its accounting settings
  cgroup,      \* Unit.cgroup
  status,      \* Unit.status
  accounting,  \* Unit.accounting
  pc,          \* where the task's future is suspended
  todo,        \* groups of the scrape in hand still to be collected
  left,        \* files, properties or flags still to be read for the first of them
  got,         \* what has been read for it
  stats,       \* what has been collected
  asked,       \* history: the groups the latest scrape set out to collect
  disturbed,   \* history: it started from an old status, a call failed, or the
               \* unit stopped or started since
  reloaded     \* history: settings changed since the flags were last stored
               \* ("stored"), or since they were last begun to be read ("begun")

systemVars == <<kernel, kind, state, lives, place, iostat, enabled>>
unitVars   == <<cgroup, status, accounting>>
callVars   == <<pc, todo, left, got, stats>>
vars == <<systemVars, unitVars, callVars, asked, disturbed, reloaded>>

-----------------------------------------------------------------------------
(* What is read, and where.                                                *)

\* D-Bus properties, which are the fields of the structures.
Properties ==
  [ip     |-> <<"egress_bytes", "ingress_bytes", "egress_packets", "ingress_packets">>,
   io     |-> <<"read_bytes", "write_bytes", "read_ops", "write_ops">>,
   cpu    |-> <<"usage_nsec">>,
   memory |-> <<"current", "available", "peak", "swap", "swap_peak">>,
   tasks  |-> <<"count", "main_pid", "start_ts", "stop_ts">>]

Files ==
  [io     |-> <<"io.stat">>,
   cpu    |-> <<"cpu.stat">>,
   memory |-> <<"memory.current", "memory.peak", "memory.swap.current", "memory.swap.peak">>]

Flags == <<"cpu", "memory", "io", "ip", "tasks">>

\* The order of collection: resource statistics, then those of tasks.
Groups == <<"ip", "io", "cpu", "memory", "tasks">>

Fields(g) == ToSet(Properties[g])

\* cpu.stat of the kernel: words in pairs.
CpuStat == <<<<"usage_usec", 1>>, <<"user_usec", 1>>, <<"system_usec", 0>>>>

\* A word of io.stat is <<key, value>>; one without "=" is a tuple of one.
Splits(lines) ==
  \A i \in DOMAIN lines : \A j \in DOMAIN lines[i] : Len(lines[i][j]) = 2

IoKeys == [rbytes |-> "read_bytes", wbytes |-> "write_bytes",
           rios |-> "read_ops", wios |-> "write_ops"]

KeyOf(f) == CHOOSE key \in DOMAIN IoKeys : IoKeys[key] = f

\* The sum of the values of a function.
Total(a) == Cardinality(UNION {{x} \X (1 .. a[x]) : x \in DOMAIN a})

\* What a word adds to the number of a key.
Amount(word, key) == IF Len(word) = 2 /\ word[1] = key THEN word[2] ELSE 0

\* The words of all the lines, by line and place in it.
Positions(lines) == UNION {{i} \X DOMAIN lines[i] : i \in DOMAIN lines}

SumOfWords(lines, key) ==
  Total([p \in Positions(lines) |-> Amount(lines[p[1]][p[2]], key)])

SumOfDevice(line, key) == Total([j \in DOMAIN line |-> Amount(line[j], key)])

\* Every key is a field.
ParseIoStatRaw(lines) ==
  [key \in {lines[p[1]][p[2]][1] : p \in Positions(lines)} |-> SumOfWords(lines, key)]

\* Only the last device counts.
ParseIoStatLast(lines) == [f \in Fields("io") |-> SumOfDevice(Last(lines), KeyOf(f))]

ParseIoStat(lines) == [f \in Fields("io") |-> SumOfWords(lines, KeyOf(f))]

\* The value after the key where it comes first, or 0.
ParseCpuStat ==
  LET found == {i \in DOMAIN CpuStat : CpuStat[i][1] = "usage_nsec"}
  IN  [usage_nsec |->
         IF found = {} THEN 0
         ELSE CpuStat[CHOOSE i \in found : \A j \in found : i <= j][2]]

\* A unit's memory, to the kernel and to systemd.
Memory == [current |-> 3, available |-> 6, peak |-> 4, swap |-> 1, swap_peak |-> 2]

\* The numbers that a file holds.
Parse(file) ==
  CASE file = "io.stat"             -> ParseIoStat(iostat)
    [] file = "cpu.stat"            -> ParseCpuStat
    [] file = "memory.current"      -> [current |-> Memory.current]
    [] file = "memory.peak"         -> [peak |-> Memory.peak]
    [] file = "memory.swap.current" -> [swap |-> Memory.swap]
    [] file = "memory.swap.peak"    -> [swap_peak |-> Memory.swap_peak]

\* What systemd replies.  Of a unit that does not run it has no numbers but
\* those of the main process; the I/O is that of all devices together.
True(g, f) ==
  CASE g = "tasks" -> IF f = "main_pid" /\ state # "running" THEN 0 ELSE 1
    [] g # "tasks" /\ state # "running" -> U64Max
    [] g = "io" /\ state = "running" ->
         Total([i \in DOMAIN iostat |-> SumOfDevice(iostat[i], KeyOf(f))])
    [] g = "memory" /\ state = "running" -> Memory[f]
    [] OTHER -> 1

\* A number that was read: where, in which life of the unit, and how much.
Reading(src, n) == [src |-> src, life |-> lives, n |-> n]
NotRead == [src |-> "default", life |-> 0, n |-> 0]
Default(g) == [f \in Fields(g) |-> NotRead]
Defaults == [g \in ToSet(Groups) |-> Default(g)]

\* Fields that are assigned, and the others as they were.
Assigned(new, old) ==
  [f \in DOMAIN new \union DOMAIN old |-> IF f \in DOMAIN new THEN new[f] ELSE old[f]]

-----------------------------------------------------------------------------
(* The unit in systemd.                                                    *)

States == {"running", "inactive", "exited", "failed"}
Places == {"none", "root", "here", "there"}

\* Where a unit of this kind runs; a timer has no processes.
Homes == CASE kind = "root slice" -> {"root"}
           [] kind = "timer" -> {"none"}
           [] OTHER -> {"here", "there"}

Mortal == kind \in {"service", "slice"}

StartUnit ==
  /\ state # "running" /\ lives < MaxLives
  /\ state' = "running" /\ lives' = lives + 1
  /\ place' \in Homes /\ iostat' \in kernel.iostats
  /\ disturbed' = TRUE
  /\ UNCHANGED <<kernel, kind, enabled, unitVars, callVars, asked, reloaded>>

StopUnit ==
  /\ state = "running" /\ Mortal
  /\ state' \in States \ {"running"} /\ place' = "none"
  /\ disturbed' = TRUE
  /\ UNCHANGED <<kernel, kind, lives, iostat, enabled, unitVars, callVars, asked,
                 reloaded>>

\* systemctl daemon-reload or set-property.
ChangeSettings ==
  /\ enabled' \in FlagSets \ {enabled}
  /\ reloaded' = {"stored", "begun"}
  /\ UNCHANGED <<kernel, kind, state, lives, place, iostat, unitVars, callVars, asked,
                 disturbed>>

-----------------------------------------------------------------------------
(* parse and update_unit_status.                                           *)

HasResources == kind # "timer"
HasTasks == kind = "service"

\* The ControlGroup is read once.  One that is the root of cgroupfs, as that
\* of a unit without a cgroup would be, is not kept.
ParseUnit ==
  /\ pc = "parse"
  /\ cgroup' = IF HasResources /\ place \notin {"none", "root"} THEN place ELSE "none"
  /\ pc' = "status"
  /\ UNCHANGED <<systemVars, status, accounting, todo, left, got, stats, asked,
                 disturbed, reloaded>>

ReadStatus ==
  /\ pc = "status"
  /\ status' = state
  /\ pc' = IF HasResources THEN "flags" ELSE "idle"
  /\ left' = IF HasResources THEN Flags ELSE <<>>
  /\ got' = <<>>
  /\ reloaded' = reloaded \ {"begun"}
  /\ UNCHANGED <<systemVars, cgroup, accounting, todo, stats, asked, disturbed>>

\* The flags are stored once the last of them has been read.
ReadFlag ==
  /\ pc = "flags"
  /\ LET flag == Head(left)
         read == Assigned([f \in {flag} |-> f \in enabled], got)
     IN  IF Len(left) > 1
         THEN got' = read /\ UNCHANGED <<pc, accounting, reloaded>>
         ELSE /\ got' = <<>>
              /\ accounting' = {f \in DOMAIN read : read[f]}
              /\ reloaded' = IF "begun" \in reloaded THEN reloaded ELSE {}
              /\ pc' = "idle"
  /\ left' = Tail(left)
  /\ UNCHANGED <<systemVars, cgroup, status, todo, stats, asked, disturbed>>

\* A flag that cannot be read leaves the flags off.
FlagFailsToDefault ==
  /\ pc = "flags"
  /\ pc' = "idle" /\ left' = <<>> /\ got' = <<>>
  /\ accounting' = {}
  /\ UNCHANGED <<systemVars, cgroup, status, todo, stats, asked, disturbed, reloaded>>

\* A flag that cannot be read leaves all of them as they are.
FlagFails ==
  /\ pc = "flags"
  /\ pc' = "idle" /\ left' = <<>> /\ got' = <<>>
  /\ UNCHANGED <<systemVars, unitVars, todo, stats, asked, disturbed, reloaded>>

\* A job signal: the status again.  What was collected has been sent before.
Refresh ==
  /\ pc = "idle" /\ pc' = "status"
  /\ stats' = Defaults /\ asked' = {} /\ disturbed' = TRUE
  /\ UNCHANGED <<systemVars, unitVars, todo, left, got, reloaded>>

\* The task ends: an error in parse or read_status, or a panic.
End ==
  /\ pc' = "ended"
  /\ todo' = {} /\ left' = <<>> /\ got' = <<>> /\ stats' = Defaults
  /\ UNCHANGED <<systemVars, unitVars, asked, disturbed, reloaded>>

CallFails == pc \in {"parse", "status"} /\ End

-----------------------------------------------------------------------------
(* collect_resource_stats and collect_task_stats.                          *)

RunningByStatus == status \notin {"inactive", "exited"}

Wanted(g) ==
  /\ g \in accounting
  /\ IF g = "tasks" THEN HasTasks ELSE HasResources /\ RunningByStatus

FromCgroup(g) == g \in DOMAIN Files /\ cgroup # "none"

\* The group of a set that is collected first.
First(groups) ==
  CHOOSE g \in groups : \A h \in groups :
    \E i, j \in DOMAIN Groups : g = Groups[i] /\ h = Groups[j] /\ i <= j

\* The first of the groups is begun, in its cgroup if it can be.
Begin(groups) ==
  /\ todo' = groups /\ got' = <<>>
  /\ IF groups = {} THEN pc' = "idle" /\ left' = <<>>
     ELSE IF FromCgroup(First(groups))
     THEN pc' = "cgroup" /\ left' = Files[First(groups)]
     ELSE pc' = "bus" /\ left' = Properties[First(groups)]

Scrape ==
  /\ pc = "idle"
  /\ asked' = {g \in ToSet(Groups) : Wanted(g)}
  /\ stats' = Defaults
  /\ disturbed' = (status # state)
  /\ Begin(asked')
  /\ UNCHANGED <<systemVars, unitVars, reloaded>>

\* What has been read is added to the group; the last of it completes it.
Take(numbers, src) ==
  LET g == First(todo)
      read == Assigned([f \in DOMAIN numbers |-> Reading(src, numbers[f])], got)
  IN  IF Len(left) > 1
      THEN got' = read /\ left' = Tail(left) /\ UNCHANGED <<pc, todo, stats>>
      ELSE stats' = [stats EXCEPT ![g] = Assigned(read, @)] /\ Begin(todo \ {g})

\* A file that is there: those of the root of cgroupfs are the machine's.
FileExists(file) == file \in kernel.files /\ state = "running" /\ place = cgroup

ReadFile ==
  /\ pc = "cgroup" /\ FileExists(Head(left))
  /\ Head(left) = "io.stat" => Splits(iostat)
  /\ Take(Parse(Head(left)), IF cgroup = "root" THEN "machine" ELSE "cgroup")
  /\ UNCHANGED <<systemVars, unitVars, asked, disturbed, reloaded>>

\* A word without "=" in io.stat: the unwrap panics.
Panic ==
  /\ pc = "cgroup" /\ FileExists(Head(left))
  /\ Head(left) = "io.stat" /\ ~Splits(iostat)
  /\ End

\* Whatever files were read, systemd is asked for the whole group.
FileMissing ==
  /\ pc = "cgroup" /\ ~FileExists(Head(left))
  /\ pc' = "bus"
  /\ left' = Properties[First(todo)] /\ got' = <<>>
  /\ UNCHANGED <<systemVars, unitVars, todo, stats, asked, disturbed, reloaded>>

ReadProperty ==
  /\ pc = "bus"
  /\ Take([f \in {Head(left)} |-> True(First(todo), f)], "bus")
  /\ UNCHANGED <<systemVars, unitVars, asked, disturbed, reloaded>>

\* A failed property costs the group it belongs to.
PropertyFailsAlone ==
  /\ pc = "bus"
  /\ Begin(todo \ {First(todo)})
  /\ disturbed' = TRUE
  /\ UNCHANGED <<systemVars, unitVars, stats, asked, reloaded>>

\* `?`, then unwrap_or_default: all resource statistics are lost, or those of tasks.
PropertyFails ==
  /\ pc = "bus"
  /\ IF First(todo) = "tasks"
     THEN Begin({}) /\ stats' = stats
     ELSE Begin(todo \intersect {"tasks"}) /\ stats' = Defaults
  /\ disturbed' = TRUE
  /\ UNCHANGED <<systemVars, unitVars, asked, reloaded>>

-----------------------------------------------------------------------------
Init ==
  /\ kernel \in Kernels
  /\ kind \in Kinds
  /\ state \in IF Mortal THEN States ELSE {"running"}
  /\ place \in IF state = "running" THEN Homes ELSE {"none"}
  /\ lives = 1
  /\ iostat \in kernel.iostats
  /\ enabled \in FlagSets
  /\ cgroup = "none" /\ status = "inactive" /\ accounting = {}
  /\ pc = "parse"
  /\ todo = {} /\ left = <<>> /\ got = <<>> /\ stats = Defaults
  /\ asked = {} /\ disturbed = TRUE /\ reloaded = {"stored"}

Ended == pc = "ended" /\ UNCHANGED vars

Next ==
  \/ StartUnit \/ StopUnit \/ ChangeSettings
  \/ ParseUnit \/ ReadStatus \/ ReadFlag \/ FlagFails \/ CallFails \/ Refresh
  \/ Scrape \/ ReadFile \/ FileMissing \/ Panic \/ ReadProperty \/ PropertyFails
  \/ Ended

Spec == Init /\ [][Next]_vars

-----------------------------------------------------------------------------
TypeOK ==
  /\ kernel \in Kernels /\ kind \in Kinds
  /\ {state, status} \subseteq States /\ {place, cgroup} \subseteq Places
  /\ lives \in 1 .. MaxLives /\ iostat \in kernel.iostats
  /\ enabled \in FlagSets
  /\ accounting \subseteq ToSet(Flags)
  /\ pc \in {"parse", "status", "flags", "idle", "cgroup", "bus", "ended"}
  /\ todo \union asked \subseteq ToSet(Groups)
  /\ pc \in {"cgroup", "bus"} <=> todo # {}
  /\ DOMAIN stats = ToSet(Groups)
  /\ \A g \in DOMAIN stats : DOMAIN stats[g] = Fields(g)

\* The fields of a group that a source has values for.
Provided(g, src) == IF src = "bus" THEN Fields(g) ELSE Fields(g) \ {"available"}

\* The group is complete, and all of it comes from one source.
Whole(g) ==
  \E src \in {"cgroup", "bus"} : \A f \in Fields(g) :
    stats[g][f].src = IF f \in Provided(g, src) THEN src ELSE "default"

\* Whatever files are missing, calls fail and units stop midway: of the groups
\* that are accounted for, the resource statistics are reported all or none,
\* each from files of its own cgroup alone or from systemd alone, and those of
\* tasks likewise; a group that is not accounted for is never reported
\* (unit.rs:58-64, 85-162).
WholeOrNothing ==
  pc = "idle" =>
    LET reported == {g \in DOMAIN stats : stats[g] # Default(g)}
        resources == asked \ {"tasks"}
    IN  /\ \A g \in reported : g \in asked /\ Whole(g)
        /\ reported \intersect resources \in {{}, resources}

\* The numbers of a file that the code does not find: the kernel has no
\* usage_nsec in cpu.stat, and cgroups no counterpart of MemoryAvailable.
Gap(g, f) ==
  LET r == stats[g][f]
  IN  \/ g = "cpu" /\ r.src = "cgroup" /\ r.n = 0
      \/ f = "available" /\ r.src = "default"

\* A scrape that starts from the unit's present status, and during which no
\* D-Bus call fails and the unit neither stops nor starts, reports what systemd
\* would of every group it accounts for: a stale cgroup path, or a kernel
\* without one of the files, costs nothing (unit.rs:104-157, cgroup.rs:23-92).
TrueWhenUndisturbed ==
  pc = "idle" /\ ~disturbed =>
    \A g \in asked : \A f \in Fields(g) :
      \/ stats[g][f].n = True(g, f) /\ stats[g][f].life = lives
      \/ Gap(g, f)

\* The flags are those the unit has in systemd, unless its settings changed
\* since the flags were last begun to be read and stored: a read that fails
\* does not lose them, and one that is overtaken is not taken for the new ones
\* (unit.rs:70-83).
FlagsTrueUnlessReloaded ==
  pc = "idle" /\ HasResources /\ "stored" \notin reloaded => accounting = enabled

\* "The total CPU time used by the unit" (src/metrics/unit.rs:155).
CpuTimeReported ==
  pc = "idle" /\ ~disturbed /\ "cpu" \in asked =>
    stats["cpu"]["usage_nsec"].n = True("cpu", "usage_nsec")

=============================================================================
