--------------------------- MODULE UnitStatsProofs ---------------------------
(***************************************************************************)
(* Proofs about UnitStats, for any settings, files, numbers and lives of a *)
(* unit: what a scrape collects of it, and whose numbers and flags those   *)
(* are.                                                                    *)
(***************************************************************************)
EXTENDS UnitStats, FiniteSetTheorems, TLAPS

LEMMA EmptyDomain == DOMAIN <<>> = {}
  OBVIOUS

-----------------------------------------------------------------------------
(* Groups, fields and files.                                               *)

LEMMA GroupsAre == ToSet(Groups) = {"ip", "io", "cpu", "memory", "tasks"}
<1>1. DOMAIN Groups = 1 .. 5
  BY DEF Groups
<1>. QED  BY <1>1 DEF Groups, ToSet

LEMMA FlagsAre == ToSet(Flags) = {"cpu", "memory", "io", "ip", "tasks"}
<1>1. DOMAIN Flags = 1 .. 5
  BY DEF Flags
<1>. QED  BY <1>1 DEF Flags, ToSet

\* Groups are collected in order, tasks last.
LEMMA FirstOf ==
  ASSUME NEW groups, groups \subseteq ToSet(Groups), groups # {}
  PROVE  First(groups) \in groups /\ (First(groups) = "tasks" => groups = {"tasks"})
<1>. DEFINE Earliest(g) == \A h \in groups :
              \E i, j \in DOMAIN Groups : g = Groups[i] /\ h = Groups[j] /\ i <= j
<1>1. /\ DOMAIN Groups = 1 .. 5
      /\ Groups[1] = "ip" /\ Groups[2] = "io" /\ Groups[3] = "cpu"
      /\ Groups[4] = "memory" /\ Groups[5] = "tasks"
  BY DEF Groups
<1>2. \E g \in groups : Earliest(g)
  <2>1. CASE "ip" \in groups
    BY <2>1, <1>1, GroupsAre
  <2>2. CASE "ip" \notin groups /\ "io" \in groups
    BY <2>2, <1>1, GroupsAre
  <2>3. CASE groups \subseteq {"cpu", "memory", "tasks"} /\ "cpu" \in groups
    BY <2>3, <1>1
  <2>4. CASE groups \subseteq {"memory", "tasks"} /\ "memory" \in groups
    BY <2>4, <1>1
  <2>5. CASE groups = {"tasks"}
    BY <2>5, <1>1
  <2>. QED  BY <2>1, <2>2, <2>3, <2>4, <2>5, GroupsAre
<1>3. First(groups) \in groups /\ Earliest(First(groups))
  BY <1>2 DEF First
<1>4. ASSUME First(groups) = "tasks", NEW h \in groups
      PROVE  h = "tasks"
  <2>1. PICK i \in 1 .. 5, j \in 1 .. 5 : "tasks" = Groups[i] /\ h = Groups[j] /\ i <= j
    BY <1>1, <1>3, <1>4
  <2>2. i = 5
    BY <1>1, <2>1
  <2>. QED  BY <1>1, <2>1, <2>2
<1>. QED  BY <1>3, <1>4

\* The fields that a file gives numbers for.
FieldsOf(file) ==
  CASE file = "io.stat"             -> {"read_bytes", "write_bytes", "read_ops", "write_ops"}
    [] file = "cpu.stat"            -> {"usage_nsec"}
    [] file = "memory.current"      -> {"current"}
    [] file = "memory.peak"         -> {"peak"}
    [] file = "memory.swap.current" -> {"swap"}
    [] file = "memory.swap.peak"    -> {"swap_peak"}

\* The fields that an item of left gives numbers for, and all of left.
Covers(src, item) == IF src = "bus" THEN {item} ELSE FieldsOf(item)
Ahead(src, l) == UNION {Covers(src, l[i]) : i \in DOMAIN l}

\* What left may have.
Items(src, g) == IF src = "bus" THEN Fields(g) ELSE ToSet(Files[g])

InFiles == {"io", "cpu", "memory"}

LEMMA AheadIs ==
  ASSUME NEW src, NEW l, NEW f
  PROVE  f \in Ahead(src, l) <=> \E i \in DOMAIN l : f \in Covers(src, l[i])
  BY DEF Ahead

LEMMA AheadOfOne ==
  ASSUME NEW src, NEW l, DOMAIN l = {1}
  PROVE  Ahead(src, l) = Covers(src, l[1])
<1>1. \A f : f \in Ahead(src, l) <=> f \in Covers(src, l[1])
  BY AheadIs
<1>. QED  BY <1>1

LEMMA FieldsAre ==
  /\ Fields("ip") = {"egress_bytes", "ingress_bytes", "egress_packets", "ingress_packets"}
  /\ Fields("io") = {"read_bytes", "write_bytes", "read_ops", "write_ops"}
  /\ Fields("cpu") = {"usage_nsec"}
  /\ Fields("memory") = {"current", "available", "peak", "swap", "swap_peak"}
  /\ Fields("tasks") = {"count", "main_pid", "start_ts", "stop_ts"}
<1>1. /\ DOMAIN Properties["ip"] = 1 .. 4 /\ DOMAIN Properties["io"] = 1 .. 4
      /\ DOMAIN Properties["cpu"] = 1 .. 1 /\ DOMAIN Properties["memory"] = 1 .. 5
      /\ DOMAIN Properties["tasks"] = 1 .. 4
  BY DEF Properties
<1>2. Fields("ip") = {"egress_bytes", "ingress_bytes", "egress_packets", "ingress_packets"}
  BY <1>1 DEF Fields, Properties, ToSet
<1>3. Fields("io") = {"read_bytes", "write_bytes", "read_ops", "write_ops"}
  BY <1>1 DEF Fields, Properties, ToSet
<1>4. Fields("cpu") = {"usage_nsec"}
  BY <1>1 DEF Fields, Properties, ToSet
<1>5. Fields("memory") = {"current", "available", "peak", "swap", "swap_peak"}
  BY <1>1 DEF Fields, Properties, ToSet
<1>6. Fields("tasks") = {"count", "main_pid", "start_ts", "stop_ts"}
  BY <1>1 DEF Fields, Properties, ToSet
<1>. QED  BY <1>2, <1>3, <1>4, <1>5, <1>6

LEMMA FilesAre ==
  /\ ToSet(Files["io"]) = {"io.stat"}
  /\ ToSet(Files["cpu"]) = {"cpu.stat"}
  /\ ToSet(Files["memory"]) =
       {"memory.current", "memory.peak", "memory.swap.current", "memory.swap.peak"}
<1>1. /\ DOMAIN Files["io"] = 1 .. 1 /\ DOMAIN Files["cpu"] = 1 .. 1
      /\ DOMAIN Files["memory"] = 1 .. 4
  BY DEF Files
<1>. QED  BY <1>1 DEF Files, ToSet

LEMMA PropertiesFirst ==
  ASSUME NEW g \in ToSet(Groups)
  PROVE  /\ Properties[g] \in Seq(Fields(g)) /\ Properties[g] # <<>>
         /\ Ahead("bus", Properties[g]) = Provided(g, "bus")
<1>1. Properties[g] \in Seq(Fields(g)) /\ Properties[g] # <<>>
  <2>1. CASE g = "ip"
    BY <2>1, FieldsAre DEF Properties
  <2>2. CASE g = "io"
    BY <2>2, FieldsAre DEF Properties
  <2>3. CASE g = "cpu"
    BY <2>3, FieldsAre DEF Properties
  <2>4. CASE g = "memory"
    BY <2>4, FieldsAre DEF Properties
  <2>5. CASE g = "tasks"
    BY <2>5, FieldsAre DEF Properties
  <2>. QED  BY <2>1, <2>2, <2>3, <2>4, <2>5, GroupsAre
<1>2. Ahead("bus", Properties[g]) = Fields(g)
  BY DEF Ahead, Covers, Fields, ToSet
<1>. QED  BY <1>1, <1>2 DEF Provided

LEMMA FilesFirst ==
  ASSUME NEW g \in InFiles
  PROVE  /\ Files[g] \in Seq(Items("cgroup", g)) /\ Files[g] # <<>>
         /\ Ahead("cgroup", Files[g]) = Provided(g, "cgroup")
<1>1. CASE g = "io"
  <2>1. Files["io"] = <<"io.stat">> /\ DOMAIN Files["io"] = {1}
    BY DEF Files
  <2>2. Ahead("cgroup", Files["io"]) = FieldsOf("io.stat")
    BY <2>1, AheadOfOne DEF Covers
  <2>3. Provided("io", "cgroup") = FieldsOf("io.stat")
    BY FieldsAre DEF Provided, FieldsOf
  <2>4. Items("cgroup", "io") = {"io.stat"}
    BY FilesAre DEF Items
  <2>5. Files["io"] \in Seq(Items("cgroup", "io")) /\ Files["io"] # <<>>
    BY <2>1, <2>4
  <2>. QED  BY <1>1, <2>2, <2>3, <2>5
<1>2. CASE g = "cpu"
  <2>1. Files["cpu"] = <<"cpu.stat">> /\ DOMAIN Files["cpu"] = {1}
    BY DEF Files
  <2>2. Ahead("cgroup", Files["cpu"]) = FieldsOf("cpu.stat")
    BY <2>1, AheadOfOne DEF Covers
  <2>3. Provided("cpu", "cgroup") = FieldsOf("cpu.stat")
    BY FieldsAre DEF Provided, FieldsOf
  <2>4. Items("cgroup", "cpu") = {"cpu.stat"}
    BY FilesAre DEF Items
  <2>5. Files["cpu"] \in Seq(Items("cgroup", "cpu")) /\ Files["cpu"] # <<>>
    BY <2>1, <2>4
  <2>. QED  BY <1>2, <2>2, <2>3, <2>5
<1>3. CASE g = "memory"
  <2>1. /\ Files["memory"] =
             <<"memory.current", "memory.peak", "memory.swap.current", "memory.swap.peak">>
        /\ DOMAIN Files["memory"] = 1 .. 4
    BY DEF Files
  <2>2. \A i \in 1 .. 4 : i = 1 \/ i = 2 \/ i = 3 \/ i = 4
    OBVIOUS
  <2>3. Ahead("cgroup", Files["memory"]) =
          FieldsOf("memory.current") \union FieldsOf("memory.peak")
            \union FieldsOf("memory.swap.current") \union FieldsOf("memory.swap.peak")
    BY <2>1, <2>2, AheadIs DEF Covers
  <2>4. /\ FieldsOf("memory.current") = {"current"} /\ FieldsOf("memory.peak") = {"peak"}
        /\ FieldsOf("memory.swap.current") = {"swap"}
        /\ FieldsOf("memory.swap.peak") = {"swap_peak"}
    BY DEF FieldsOf
  <2>5. Provided("memory", "cgroup") = {"current", "peak", "swap", "swap_peak"}
    BY FieldsAre DEF Provided
  <2>6. Ahead("cgroup", Files["memory"]) = Provided("memory", "cgroup")
    BY <2>3, <2>4, <2>5
  <2>7. Files["memory"] \in Seq(Items("cgroup", "memory")) /\ Files["memory"] # <<>>
    BY <2>1, FilesAre DEF Items
  <2>. QED  BY <1>3, <2>6, <2>7
<1>. QED  BY <1>1, <1>2, <1>3 DEF InFiles

LEMMA AheadOfHead ==
  ASSUME NEW src, NEW S, NEW l \in Seq(S), l # <<>>
  PROVE  /\ Head(l) \in S /\ Tail(l) \in Seq(S)
         /\ Len(l) > 1 => /\ Tail(l) # <<>>
                          /\ Ahead(src, l) = Covers(src, Head(l)) \union Ahead(src, Tail(l))
         /\ ~(Len(l) > 1) => Ahead(src, l) = Covers(src, Head(l))
<1>0. /\ DOMAIN l = 1 .. Len(l) /\ Len(l) \in Nat /\ Len(l) > 0
      /\ Head(l) = l[1] /\ Tail(l) \in Seq(S) /\ Len(Tail(l)) = Len(l) - 1
  OBVIOUS
<1>1. /\ DOMAIN l = 1 .. Len(l) /\ Len(l) \in Nat \ {0} /\ Head(l) = l[1]
      /\ Tail(l) \in Seq(S) /\ Len(Tail(l)) = Len(l) - 1
      /\ DOMAIN Tail(l) = 1 .. (Len(l) - 1)
      /\ \A i \in 1 .. (Len(l) - 1) : Tail(l)[i] = l[i + 1]
  <2>1. DOMAIN Tail(l) = 1 .. Len(Tail(l))
    BY <1>0
  <2>2. \A i \in 1 .. (Len(l) - 1) : Tail(l)[i] = l[i + 1]
    BY <1>0
  <2>. QED  BY <1>0, <2>1, <2>2
<1>2. Head(l) \in S
  BY <1>0
<1>3. ASSUME Len(l) > 1
      PROVE  Ahead(src, l) = Covers(src, Head(l)) \union Ahead(src, Tail(l))
  <2>1. ASSUME NEW f \in Ahead(src, l)
        PROVE  f \in Covers(src, Head(l)) \union Ahead(src, Tail(l))
    <3>1. PICK i \in 1 .. Len(l) : f \in Covers(src, l[i])
      BY <1>1, <2>1, AheadIs
    <3>2. CASE i = 1
      BY <1>1, <3>1, <3>2
    <3>3. CASE i # 1
      <4>1. i - 1 \in DOMAIN Tail(l) /\ Tail(l)[i - 1] = l[i]
        BY <1>1, <3>1, <3>3
      <4>. QED  BY <3>1, <4>1, AheadIs
    <3>. QED  BY <3>2, <3>3
  <2>2. ASSUME NEW f \in Ahead(src, Tail(l))
        PROVE  f \in Ahead(src, l)
    <3>1. PICK i \in 1 .. (Len(l) - 1) : f \in Covers(src, Tail(l)[i])
      BY <1>1, <2>2, AheadIs
    <3>2. i + 1 \in DOMAIN l /\ Tail(l)[i] = l[i + 1]
      BY <1>1, <3>1
    <3>. QED  BY <3>1, <3>2, AheadIs
  <2>3. \A f \in Covers(src, Head(l)) : f \in Ahead(src, l)
    BY <1>1, AheadIs
  <2>. QED  BY <2>1, <2>2, <2>3
<1>4. ASSUME ~(Len(l) > 1)
      PROVE  Ahead(src, l) = Covers(src, Head(l))
  <2>1. DOMAIN l = {1}
    BY <1>1, <1>4
  <2>2. Ahead(src, l) = Covers(src, l[1])
    BY <2>1, AheadOfOne
  <2>. QED  BY <1>1, <2>2
<1>5. Len(l) > 1 => Tail(l) # <<>>
  <2>1. Len(<<>>) = 0
    OBVIOUS
  <2>2. Len(l) > 1 => Len(Tail(l)) # 0
    BY <1>0
  <2>. QED  BY <2>1, <2>2
<1>. QED  BY <1>1, <1>2, <1>3, <1>4, <1>5

LEMMA ParsedFields ==
  ASSUME NEW g \in InFiles, NEW file \in Items("cgroup", g)
  PROVE  DOMAIN Parse(file) = Covers("cgroup", file)
<1>1. file \in {"io.stat", "cpu.stat", "memory.current", "memory.peak",
                "memory.swap.current", "memory.swap.peak"}
  BY FilesAre DEF Items, InFiles
<1>2. CASE file = "io.stat"
  <2>1. Parse(file) = ParseIoStat(iostat)
    BY <1>2 DEF Parse
  <2>2. DOMAIN ParseIoStat(iostat) = Fields("io")
    BY DEF ParseIoStat
  <2>. QED  BY <1>2, <2>1, <2>2, FieldsAre DEF Covers, FieldsOf
<1>3. CASE file = "cpu.stat"
  <2>1. Parse(file) = ParseCpuStat
    BY <1>3 DEF Parse
  <2>2. DOMAIN ParseCpuStat = {"usage_nsec"}
    BY DEF ParseCpuStat
  <2>. QED  BY <1>3, <2>1, <2>2 DEF Covers, FieldsOf
<1>4. CASE file = "memory.current"
  BY <1>4 DEF Parse, Covers, FieldsOf
<1>5. CASE file = "memory.peak"
  BY <1>5 DEF Parse, Covers, FieldsOf
<1>6. CASE file = "memory.swap.current"
  BY <1>6 DEF Parse, Covers, FieldsOf
<1>7. CASE file = "memory.swap.peak"
  BY <1>7 DEF Parse, Covers, FieldsOf
<1>. QED  BY <1>1, <1>2, <1>3, <1>4, <1>5, <1>6, <1>7

-----------------------------------------------------------------------------
(* Whose flags.                                                            *)

\* What is left of Flags to be read: one of its ends.
FlagsLeft ==
  {<<"cpu", "memory", "io", "ip", "tasks">>, <<"memory", "io", "ip", "tasks">>,
   <<"io", "ip", "tasks">>, <<"ip", "tasks">>, <<"tasks">>}

AllFlags == {"cpu", "memory", "io", "ip", "tasks"}

Unread(l) == {l[i] : i \in DOMAIN l}

\* Settings are of known groups.  Flags that have been read are the present
\* ones, unless the settings changed since the first of them was read, in which
\* case they have changed since the flags were stored, too.
FlagsInv ==
  /\ enabled \subseteq AllFlags /\ accounting \subseteq AllFlags
  /\ reloaded \subseteq {"stored", "begun"}
  /\ "begun" \in reloaded => "stored" \in reloaded
  /\ "stored" \notin reloaded => accounting = enabled
  /\ pc = "flags" =>
       /\ left \in FlagsLeft
       /\ DOMAIN got = AllFlags \ Unread(left)
       /\ "begun" \notin reloaded => \A f \in DOMAIN got : got[f] = (f \in enabled)

LEMMA UnreadOf ==
  /\ Unread(<<"cpu", "memory", "io", "ip", "tasks">>) = {"cpu", "memory", "io", "ip", "tasks"}
  /\ Unread(<<"memory", "io", "ip", "tasks">>) = {"memory", "io", "ip", "tasks"}
  /\ Unread(<<"io", "ip", "tasks">>) = {"io", "ip", "tasks"}
  /\ Unread(<<"ip", "tasks">>) = {"ip", "tasks"}
  /\ Unread(<<"tasks">>) = {"tasks"}
  BY DEF Unread

LEMMA FlagsInOrder ==
  ASSUME NEW l \in FlagsLeft
  PROVE  /\ Head(l) \in AllFlags /\ Head(l) \in Unread(l)
         /\ Len(l) > 1 =>
              Tail(l) \in FlagsLeft /\ Unread(Tail(l)) = Unread(l) \ {Head(l)}
         /\ ~(Len(l) > 1) => Unread(l) = {Head(l)}
<1>1. CASE l = <<"cpu", "memory", "io", "ip", "tasks">>
  BY <1>1, UnreadOf DEF FlagsLeft, AllFlags
<1>2. CASE l = <<"memory", "io", "ip", "tasks">>
  BY <1>2, UnreadOf DEF FlagsLeft, AllFlags
<1>3. CASE l = <<"io", "ip", "tasks">>
  BY <1>3, UnreadOf DEF FlagsLeft, AllFlags
<1>4. CASE l = <<"ip", "tasks">>
  BY <1>4, UnreadOf DEF FlagsLeft, AllFlags
<1>5. CASE l = <<"tasks">>
  BY <1>5, UnreadOf DEF FlagsLeft, AllFlags
<1>. QED  BY <1>1, <1>2, <1>3, <1>4, <1>5 DEF FlagsLeft

LEMMA ReadFlagStep == FlagsInv /\ ReadFlag => FlagsInv'
<1> SUFFICES ASSUME FlagsInv, ReadFlag PROVE FlagsInv'
  OBVIOUS
<1> DEFINE flag == Head(left)
           read == Assigned([f \in {flag} |-> f \in enabled], got)
<1>1. pc = "flags" /\ left \in FlagsLeft /\ enabled' = enabled
  BY DEF ReadFlag, FlagsInv, systemVars
<1>2. /\ DOMAIN read = {flag} \union DOMAIN got
      /\ "begun" \notin reloaded => \A f \in DOMAIN read : read[f] = (f \in enabled)
  BY <1>1 DEF Assigned, FlagsInv
<1>3. CASE Len(left) > 1
  <2>1. left' = Tail(left) /\ got' = read /\ UNCHANGED <<pc, accounting, reloaded>>
    BY <1>3 DEF ReadFlag
  <2>2. /\ Tail(left) \in FlagsLeft
        /\ Unread(Tail(left)) = Unread(left) \ {flag}
        /\ flag \in AllFlags /\ flag \in Unread(left)
    BY <1>1, <1>3, FlagsInOrder
  <2>3. DOMAIN got' = AllFlags \ Unread(left')
    BY <1>1, <1>2, <2>1, <2>2 DEF FlagsInv
  <2>. QED  BY <1>1, <1>2, <2>1, <2>2, <2>3 DEF FlagsInv
<1>4. CASE ~(Len(left) > 1)
  <2>1. /\ accounting' = {f \in DOMAIN read : read[f]} /\ pc' = "idle"
        /\ reloaded' = IF "begun" \in reloaded THEN reloaded ELSE {}
    BY <1>4 DEF ReadFlag
  <2>2. DOMAIN read = AllFlags
    BY <1>1, <1>2, <1>4, FlagsInOrder DEF FlagsInv
  <2>3. "begun" \notin reloaded => accounting' = enabled
    BY <1>2, <2>1, <2>2 DEF FlagsInv
  <2>. QED  BY <1>1, <2>1, <2>2, <2>3 DEF FlagsInv
<1>. QED  BY <1>3, <1>4

LEMMA FlagsStep == FlagsInv /\ [Next]_vars => FlagsInv'
<1> SUFFICES ASSUME FlagsInv, [Next]_vars PROVE FlagsInv'
  OBVIOUS
<1>1. CASE UNCHANGED vars
  BY <1>1 DEF vars, systemVars, unitVars, callVars, FlagsInv
<1>2. CASE StartUnit \/ StopUnit \/ Ended
  BY <1>2 DEF StartUnit, StopUnit, Ended, vars, systemVars, unitVars, callVars, FlagsInv
<1>3. CASE ChangeSettings
  <2>1. enabled' \subseteq AllFlags
    BY <1>3, StatsAssumption DEF ChangeSettings, AllFlags
  <2>. QED  BY <1>3, <2>1 DEF ChangeSettings, unitVars, callVars, FlagsInv
<1>4. CASE ReadStatus
  <2>1. Flags \in FlagsLeft /\ Unread(Flags) = AllFlags
    BY UnreadOf DEF Flags, FlagsLeft, AllFlags
  <2>2. pc' = "flags" => left' = Flags /\ got' = <<>>
    BY <1>4 DEF ReadStatus
  <2>3. UNCHANGED <<enabled, accounting>> /\ reloaded' = reloaded \ {"begun"}
    BY <1>4 DEF ReadStatus, systemVars
  <2>. QED  BY <2>1, <2>2, <2>3, EmptyDomain DEF FlagsInv
<1>5. CASE ReadFlag
  BY <1>5, ReadFlagStep
<1>6. CASE FlagFails \/ Refresh \/ CallFails \/ Panic
  BY <1>6 DEF FlagFails, Refresh, CallFails, Panic, End, FlagsInv, unitVars, systemVars
<1>7. CASE ParseUnit
  BY <1>7 DEF ParseUnit, FlagsInv, systemVars
<1>8. CASE Scrape \/ ReadFile \/ FileMissing \/ ReadProperty \/ PropertyFails
  <2>1. UNCHANGED <<enabled, accounting, reloaded>>
    BY <1>8 DEF Scrape, ReadFile, FileMissing, ReadProperty, PropertyFails, systemVars,
                unitVars
  <2>2. pc # "flags" /\ pc' # "flags"
    BY <1>8 DEF Scrape, ReadFile, FileMissing, ReadProperty, PropertyFails, Begin, Take
  <2>. QED  BY <2>1, <2>2 DEF FlagsInv
<1>. QED
  BY <1>1, <1>2, <1>3, <1>4, <1>5, <1>6, <1>7, <1>8 DEF Next

LEMMA FlagsInit == Init => FlagsInv
  BY StatsAssumption DEF Init, FlagsInv, AllFlags

\* The flags that the exporter goes by are those that the unit has, unless its
\* settings changed since it began to read them (unit.rs:70-83).
THEOREM FlagsOfOneMoment == Spec => []FlagsTrueUnlessReloaded
<1>1. Init => FlagsInv
  BY FlagsInit
<1>2. FlagsInv => FlagsTrueUnlessReloaded
  BY DEF FlagsInv, FlagsTrueUnlessReloaded
<1>. QED  BY <1>1, <1>2, FlagsStep, PTL DEF Spec

-----------------------------------------------------------------------------
(* What a scrape collects.                                                 *)

\* The system, and the unit as the exporter knows it, which is never believed
\* to live in the root of cgroupfs.
UnitInv ==
  /\ kernel \in Kernels /\ kind \in Kinds /\ {state, status} \subseteq States
  /\ place \in Places /\ cgroup \in Places \ {"root"}
  /\ lives \in 1 .. MaxLives /\ iostat \in kernel.iostats /\ enabled \in FlagSets
  /\ pc \in {"parse", "status", "flags", "idle", "cgroup", "bus", "ended"}

Resources == asked \ {"tasks"}
Collected == asked \ todo

\* Of the groups asked for, the resource statistics that are done with are all
\* whole, or all of them were given up; those of tasks come last.
RoundInv ==
  /\ todo \subseteq asked /\ asked \subseteq ToSet(Groups)
  /\ pc \in {"cgroup", "bus"} <=> todo # {}
  /\ DOMAIN stats = ToSet(Groups)
  /\ \A g \in ToSet(Groups) : DOMAIN stats[g] = Fields(g)
  /\ \A g \in ToSet(Groups) \ Collected : stats[g] = Default(g)
  /\ \/ \A g \in Resources \intersect Collected : Whole(g)
     \/ todo \subseteq {"tasks"} /\ \A g \in Resources : stats[g] = Default(g)
  /\ "tasks" \in Collected => Whole("tasks") \/ stats["tasks"] = Default("tasks")

\* What has been read of the group in hand is from one source, which has
\* numbers for what has been read and what is left to be read, and no others.
ReadInv ==
  pc \in {"cgroup", "bus"} =>
    LET g == First(todo)
    IN  /\ pc = "cgroup" => g \in InFiles
        /\ left \in Seq(Items(pc, g)) /\ left # <<>>
        /\ DOMAIN got \union Ahead(pc, left) = Provided(g, pc)
        /\ \A f \in DOMAIN got : got[f].src = pc

CollectInv == UnitInv /\ FlagsInv /\ RoundInv /\ ReadInv

LEMMA LivesBound == MaxLives \in Nat /\ MaxLives >= 1
<1>1. MaxLives \in Nat \ {0}
  BY StatsAssumption
<1>. QED  BY <1>1

LEMMA UnitInit == ASSUME Init PROVE UnitInv
<1>1. 1 \in 1 .. MaxLives
  BY LivesBound
<1>2. Homes \subseteq Places
  BY DEF Homes, Places
<1>3. state \in States /\ place \in Places
  BY <1>2 DEF Init, States, Places
<1>. QED  BY <1>1, <1>3 DEF Init, UnitInv, States, Places

LEMMA UnitStep == ASSUME UnitInv, [Next]_vars PROVE UnitInv'
<1>1. CASE UNCHANGED vars
  BY <1>1 DEF vars, systemVars, unitVars, callVars, UnitInv
<1>2. CASE StartUnit
  <2>1. Homes \subseteq Places
    BY DEF Homes, Places
  <2>2. lives' \in 1 .. MaxLives
    BY <1>2, LivesBound DEF StartUnit, UnitInv
  <2>. QED  BY <1>2, <2>1, <2>2 DEF StartUnit, UnitInv, States, unitVars, callVars
<1>3. CASE StopUnit \/ ChangeSettings \/ Ended
  BY <1>3 DEF StopUnit, ChangeSettings, Ended, vars, systemVars, unitVars, callVars, UnitInv,
              Places
<1>4. CASE ParseUnit \/ ReadStatus
  BY <1>4 DEF ParseUnit, ReadStatus, systemVars, UnitInv, Places
<1>5. CASE ReadFlag \/ FlagFails \/ CallFails \/ Panic \/ Refresh
  BY <1>5 DEF ReadFlag, FlagFails, CallFails, Panic, End, Refresh, systemVars, unitVars,
              UnitInv
<1>6. CASE Scrape \/ ReadFile \/ FileMissing \/ ReadProperty \/ PropertyFails
  <2>1. UNCHANGED <<systemVars, unitVars>>
    BY <1>6 DEF Scrape, ReadFile, FileMissing, ReadProperty, PropertyFails
  <2>2. pc' \in {"idle", "cgroup", "bus"} \/ pc' = pc
    BY <1>6 DEF Scrape, ReadFile, FileMissing, ReadProperty, PropertyFails, Take, Begin
  <2>. QED  BY <2>1, <2>2 DEF systemVars, unitVars, UnitInv
<1>. QED  BY <1>1, <1>2, <1>3, <1>4, <1>5, <1>6 DEF Next

\* Where a source has numbers, it has some.
LEMMA WholeIsReported ==
  ASSUME NEW g \in ToSet(Groups), Whole(g)
  PROVE  stats[g] # Default(g)
<1>1. PICK src \in {"cgroup", "bus"} : \A f \in Fields(g) :
        stats[g][f].src = IF f \in Provided(g, src) THEN src ELSE "default"
  BY DEF Whole
<1>2. PICK f \in Fields(g) : f \in Provided(g, src)
  BY GroupsAre, FieldsAre DEF Provided
<1>3. stats[g][f].src # "default"
  BY <1>1, <1>2
<1>4. Default(g)[f].src = "default"
  BY <1>2 DEF Default, NotRead
<1>. QED  BY <1>3, <1>4

LEMMA DefaultsAre ==
  /\ DOMAIN Defaults = ToSet(Groups)
  /\ \A g \in ToSet(Groups) : Defaults[g] = Default(g) /\ DOMAIN Defaults[g] = Fields(g)
  BY DEF Defaults, Default

\* A group, or nothing, is in hand.
LEMMA BeginReads ==
  ASSUME NEW groups, groups \subseteq ToSet(Groups), Begin(groups)
  PROVE  /\ todo' = groups /\ pc' \in {"idle", "cgroup", "bus"}
         /\ pc' \in {"cgroup", "bus"} <=> groups # {}
         /\ got' = <<>> /\ ReadInv'
<1>1. CASE groups = {}
  BY <1>1 DEF Begin, ReadInv
<1>2. CASE groups # {}
  <2>. DEFINE g == First(groups)
  <2>1. g \in groups /\ g \in ToSet(Groups) /\ todo' = groups /\ got' = <<>>
    BY <1>2, FirstOf DEF Begin
  <2>2. CASE FromCgroup(g)
    <3>1. pc' = "cgroup" /\ left' = Files[g]
      BY <1>2, <2>2 DEF Begin
    <3>2. g \in InFiles
      BY <2>2 DEF FromCgroup, Files, InFiles
    <3>. HIDE DEF g
    <3>3. /\ left' \in Seq(Items("cgroup", g)) /\ left' # <<>>
          /\ DOMAIN got' \union Ahead("cgroup", left') = Provided(g, "cgroup")
      BY <2>1, <3>1, <3>2, FilesFirst, EmptyDomain
    <3>4. \A f \in DOMAIN got' : got'[f].src = pc'
      BY <2>1, EmptyDomain
    <3>5. First(todo') = g
      BY <2>1 DEF g
    <3>. QED  BY <1>2, <2>1, <3>1, <3>2, <3>3, <3>4, <3>5 DEF ReadInv
  <2>3. CASE ~FromCgroup(g)
    <3>1. pc' = "bus" /\ left' = Properties[g]
      BY <1>2, <2>3 DEF Begin
    <3>. HIDE DEF g
    <3>2. /\ left' \in Seq(Items("bus", g)) /\ left' # <<>>
          /\ DOMAIN got' \union Ahead("bus", left') = Provided(g, "bus")
      BY <2>1, <3>1, PropertiesFirst, EmptyDomain DEF Items
    <3>3. \A f \in DOMAIN got' : got'[f].src = pc'
      BY <2>1, EmptyDomain
    <3>4. First(todo') = g
      BY <2>1 DEF g
    <3>. QED  BY <1>2, <2>1, <3>1, <3>2, <3>3, <3>4 DEF ReadInv
  <2>. QED  BY <2>2, <2>3
<1>. QED  BY <1>1, <1>2

\* What is read for an item of the group in hand, and what it completes.
LEMMA TakeReads ==
  ASSUME RoundInv, ReadInv, pc \in {"cgroup", "bus"}, asked' = asked,
         NEW numbers, DOMAIN numbers = Covers(pc, Head(left)), Take(numbers, pc)
  PROVE  RoundInv' /\ ReadInv'
<1>0. PICK g \in todo : g = First(todo)
  BY FirstOf DEF RoundInv
<1>. DEFINE new == [f \in DOMAIN numbers |-> Reading(pc, numbers[f])]
            read == Assigned(new, got)
<1>1. /\ todo # {} /\ g \in todo /\ g \in asked /\ g \in ToSet(Groups)
      /\ g = "tasks" => todo = {"tasks"}
  BY <1>0, FirstOf DEF RoundInv
<1>2. /\ pc = "cgroup" => g \in InFiles
      /\ left \in Seq(Items(pc, g)) /\ left # <<>>
      /\ DOMAIN got \union Ahead(pc, left) = Provided(g, pc)
      /\ \A f \in DOMAIN got : got[f].src = pc
  BY <1>0 DEF ReadInv
<1>3. DOMAIN new = Covers(pc, Head(left)) /\ \A f \in DOMAIN new : new[f].src = pc
  BY DEF Reading
<1>4. /\ DOMAIN read = Covers(pc, Head(left)) \union DOMAIN got
      /\ \A f \in DOMAIN read : read[f].src = pc
  <2>. HIDE DEF new
  <2>. QED  BY <1>2, <1>3 DEF Assigned
<1>5. CASE Len(left) > 1
  <2>1. got' = read /\ left' = Tail(left) /\ pc' = pc /\ todo' = todo /\ stats' = stats
    BY <1>5 DEF Take
  <2>. HIDE DEF new, read
  <2>2. /\ Tail(left) \in Seq(Items(pc, g)) /\ Tail(left) # <<>>
        /\ Ahead(pc, left) = Covers(pc, Head(left)) \union Ahead(pc, Tail(left))
    BY <1>2, <1>5, AheadOfHead
  <2>3. DOMAIN got' \union Ahead(pc, Tail(left)) = Provided(g, pc)
    BY <1>2, <1>4, <2>1, <2>2
  <2>4. ReadInv'
    BY <1>0, <1>2, <1>4, <2>1, <2>2, <2>3 DEF ReadInv
  <2>5. RoundInv'
    BY <2>1 DEF RoundInv, Resources, Collected, Whole
  <2>. QED  BY <2>4, <2>5
<1>6. CASE ~(Len(left) > 1)
  <2>1. stats' = [stats EXCEPT ![g] = Assigned(read, stats[g])] /\ Begin(todo \ {g})
    BY <1>0, <1>6 DEF Take
  <2>. HIDE DEF new, read
  <2>2. /\ todo' = todo \ {g} /\ ReadInv'
        /\ pc' \in {"cgroup", "bus"} <=> todo \ {g} # {}
    BY <2>1, BeginReads DEF RoundInv
  <2>3. DOMAIN read = Provided(g, pc)
    BY <1>2, <1>4, <1>6, AheadOfHead
  <2>4. stats[g] = Default(g)
    BY <1>1 DEF RoundInv, Collected
  <2>5. stats'[g] = Assigned(read, Default(g))
    BY <1>1, <2>1, <2>4 DEF RoundInv
  <2>6. /\ Provided(g, pc) \subseteq Fields(g)
        /\ DOMAIN Default(g) = Fields(g)
        /\ \A f \in Fields(g) : Default(g)[f].src = "default"
    BY DEF Provided, Default, NotRead
  <2>7. DOMAIN stats'[g] = Fields(g)
    BY <2>3, <2>5, <2>6 DEF Assigned
  <2>8. \A f \in Fields(g) :
          stats'[g][f].src = IF f \in Provided(g, pc) THEN pc ELSE "default"
    BY <1>4, <2>3, <2>5, <2>6 DEF Assigned
  <2>9. Whole(g)'
    BY <2>8 DEF Whole
  <2>10. DOMAIN stats' = ToSet(Groups) /\ \A h \in ToSet(Groups) \ {g} : stats'[h] = stats[h]
    BY <2>1 DEF RoundInv
  <2>11. \A h \in ToSet(Groups) \ {g} : Whole(h)' <=> Whole(h)
    BY <2>10 DEF Whole
  <2>12. Collected' = Collected \union {g} /\ Resources' = Resources
    BY <1>1, <2>2 DEF Collected, Resources, RoundInv
  <2>13. \A h \in ToSet(Groups) : DOMAIN stats'[h] = Fields(h)
    BY <2>7, <2>10 DEF RoundInv
  <2>14. \A h \in ToSet(Groups) \ Collected' : stats'[h] = Default(h)
    BY <2>10, <2>12 DEF RoundInv
  <2>15. \/ \A h \in Resources' \intersect Collected' : Whole(h)'
         \/ todo' \subseteq {"tasks"} /\ \A h \in Resources' : stats'[h] = Default(h)
    <3>1. CASE \A h \in Resources \intersect Collected : Whole(h)
      BY <2>9, <2>11, <2>12, <3>1 DEF RoundInv, Resources
    <3>2. CASE todo \subseteq {"tasks"} /\ \A h \in Resources : stats[h] = Default(h)
      BY <1>1, <2>2, <2>10, <2>12, <3>2 DEF RoundInv, Resources
    <3>. QED  BY <3>1, <3>2 DEF RoundInv
  <2>16. "tasks" \in Collected' => Whole("tasks")' \/ stats'["tasks"] = Default("tasks")
    <3>1. CASE g = "tasks"
      BY <2>9, <3>1
    <3>2. CASE g # "tasks"
      BY <2>10, <2>11, <2>12, <3>2, GroupsAre DEF RoundInv
    <3>. QED  BY <3>1, <3>2
  <2>. QED  BY <2>2, <2>10, <2>13, <2>14, <2>15, <2>16 DEF RoundInv
<1>. QED  BY <1>5, <1>6

\* What every other step of the task leaves in hand.
LEMMA RoundKept ==
  ASSUME RoundInv, ReadInv, todo' = todo, asked' = asked, stats' = stats,
         pc \in {"cgroup", "bus"} <=> pc' \in {"cgroup", "bus"},
         pc \in {"cgroup", "bus"} => UNCHANGED <<pc, left, got>>
  PROVE  RoundInv' /\ ReadInv'
<1>1. RoundInv'
  BY DEF RoundInv, Resources, Collected, Whole
<1>2. ReadInv'
  BY DEF ReadInv
<1>. QED  BY <1>1, <1>2

\* Nothing is in hand and nothing was collected.
LEMMA RoundEmpty ==
  ASSUME stats' = Defaults, todo' = {}, asked' \subseteq ToSet(Groups),
         pc' \notin {"cgroup", "bus"}
  PROVE  RoundInv' /\ ReadInv'
  BY DefaultsAre, GroupsAre DEF RoundInv, ReadInv, Resources, Collected

LEMMA RoundStep == ASSUME CollectInv, [Next]_vars PROVE RoundInv' /\ ReadInv'
<1>0. UnitInv /\ RoundInv /\ ReadInv
  BY DEF CollectInv
<1>1. CASE UNCHANGED vars
  BY <1>0, <1>1, RoundKept DEF vars, callVars
<1>2. CASE StartUnit \/ StopUnit \/ ChangeSettings \/ Ended
  <2>1. UNCHANGED <<callVars, asked>>
    BY <1>2 DEF StartUnit, StopUnit, ChangeSettings, Ended, vars
  <2>. QED  BY <1>0, <2>1, RoundKept DEF callVars
<1>3. CASE ParseUnit \/ ReadStatus \/ ReadFlag \/ FlagFails
  <2>1. /\ UNCHANGED <<todo, stats, asked>>
        /\ pc \notin {"cgroup", "bus"} /\ pc' \notin {"cgroup", "bus"}
    BY <1>3 DEF ParseUnit, ReadStatus, ReadFlag, FlagFails
  <2>. QED  BY <1>0, <2>1, RoundKept
<1>4. CASE Refresh \/ CallFails \/ Panic
  <2>1. stats' = Defaults /\ todo' = {} /\ pc' \notin {"cgroup", "bus"}
    BY <1>0, <1>4 DEF Refresh, CallFails, Panic, End, RoundInv
  <2>2. asked' \subseteq ToSet(Groups)
    BY <1>0, <1>4 DEF Refresh, CallFails, Panic, End, RoundInv
  <2>. QED  BY <2>1, <2>2, RoundEmpty
<1>5. CASE Scrape
  <2>1. /\ asked' \subseteq ToSet(Groups) /\ stats' = Defaults /\ Begin(asked')
    BY <1>5 DEF Scrape
  <2>2. /\ todo' = asked' /\ ReadInv'
        /\ pc' \in {"cgroup", "bus"} <=> asked' # {}
    BY <2>1, BeginReads
  <2>3. RoundInv'
    BY <2>1, <2>2, DefaultsAre DEF RoundInv, Resources, Collected
  <2>. QED  BY <2>2, <2>3
<1>6. CASE ReadFile
  <2>1. /\ pc = "cgroup" /\ asked' = asked
        /\ Take(Parse(Head(left)), "cgroup")
    BY <1>0, <1>6 DEF ReadFile, UnitInv
  <2>2. First(todo) \in InFiles /\ left \in Seq(Items("cgroup", First(todo))) /\ left # <<>>
    BY <1>0, <2>1 DEF ReadInv
  <2>3. Head(left) \in Items("cgroup", First(todo))
    BY <2>2, AheadOfHead
  <2>4. DOMAIN Parse(Head(left)) = Covers("cgroup", Head(left))
    BY <2>2, <2>3, ParsedFields
  <2>. QED  BY <1>0, <2>1, <2>4, TakeReads
<1>7. CASE FileMissing
  <2>1. /\ pc = "cgroup" /\ pc' = "bus" /\ UNCHANGED <<todo, stats, asked>>
        /\ left' = Properties[First(todo)] /\ got' = <<>>
    BY <1>7 DEF FileMissing
  <2>2. First(todo) \in ToSet(Groups)
    BY <1>0, <2>1, FirstOf DEF RoundInv
  <2>3. RoundInv'
    BY <1>0, <2>1 DEF RoundInv, Resources, Collected, Whole
  <2>4. /\ left' \in Seq(Items("bus", First(todo))) /\ left' # <<>>
        /\ DOMAIN got' \union Ahead("bus", left') = Provided(First(todo), "bus")
    BY <2>1, <2>2, PropertiesFirst, EmptyDomain DEF Items
  <2>5. ReadInv'
    BY <2>1, <2>4, EmptyDomain DEF ReadInv
  <2>. QED  BY <2>3, <2>5
<1>8. CASE ReadProperty
  <2>1. /\ pc = "bus" /\ asked' = asked
        /\ Take([f \in {Head(left)} |-> True(First(todo), f)], "bus")
    BY <1>8 DEF ReadProperty
  <2>2. DOMAIN [f \in {Head(left)} |-> True(First(todo), f)] = Covers("bus", Head(left))
    BY DEF Covers
  <2>. QED  BY <1>0, <2>1, <2>2, TakeReads
<1>9. CASE PropertyFails /\ First(todo) = "tasks"
  <2>1. pc = "bus" /\ Begin({}) /\ stats' = stats /\ asked' = asked
    BY <1>9 DEF PropertyFails
  <2>2. todo = {"tasks"} /\ stats["tasks"] = Default("tasks")
    BY <1>0, <1>9, <2>1, FirstOf, GroupsAre DEF RoundInv, Collected
  <2>3. todo' = {} /\ pc' \notin {"cgroup", "bus"} /\ ReadInv'
    BY <2>1, BeginReads
  <2>4. RoundInv'
    BY <1>0, <2>1, <2>2, <2>3 DEF RoundInv, Resources, Collected, Whole
  <2>. QED  BY <2>3, <2>4
<1>10. CASE PropertyFails /\ First(todo) # "tasks"
  <2>1. pc = "bus" /\ Begin(todo \intersect {"tasks"}) /\ stats' = Defaults /\ asked' = asked
    BY <1>10 DEF PropertyFails
  <2>2. /\ todo' = todo \intersect {"tasks"}
        /\ pc' \in {"cgroup", "bus"} <=> todo \intersect {"tasks"} # {}
        /\ ReadInv'
    BY <1>0, <2>1, BeginReads DEF RoundInv
  <2>3. RoundInv'
    BY <1>0, <2>1, <2>2, DefaultsAre, GroupsAre DEF RoundInv, Resources, Collected
  <2>. QED  BY <2>2, <2>3
<1>. QED
  BY <1>1, <1>2, <1>3, <1>4, <1>5, <1>6, <1>7, <1>8, <1>9, <1>10 DEF Next

LEMMA CollectInit == ASSUME Init PROVE CollectInv
<1>1. RoundInv /\ ReadInv
  BY DefaultsAre, GroupsAre DEF Init, RoundInv, ReadInv, Resources, Collected
<1>. QED  BY <1>1, UnitInit, FlagsInit DEF CollectInv

LEMMA CollectStep == ASSUME CollectInv, [Next]_vars PROVE CollectInv'
  BY UnitStep, FlagsStep, RoundStep DEF CollectInv

\* A group that was collected is whole or was given up.
LEMMA CollectedGroups ==
  ASSUME RoundInv, NEW g \in ToSet(Groups)
  PROVE  stats[g] = Default(g) \/ (g \in asked /\ Whole(g))
  BY DEF RoundInv, Resources, Collected

\* Type correctness: a scrape collects numbers for the fields of the groups it
\* accounts for, and is in hand of a group exactly while some are left.
THEOREM UnitTypes == Spec => []TypeOK
<1>1. Init => CollectInv
  BY CollectInit
<1>2. CollectInv /\ [Next]_vars => CollectInv'
  BY CollectStep
<1>3. CollectInv => TypeOK
  BY FlagsAre DEF CollectInv, UnitInv, FlagsInv, AllFlags, RoundInv, TypeOK, Places, States
<1>. QED  BY <1>1, <1>2, <1>3, PTL DEF Spec

\* Whatever files are missing, calls fail and units stop midway: the resource
\* statistics of a unit are reported all or none, each group of them from one
\* source, and those of tasks likewise (unit.rs:85-162).
THEOREM GroupsAreWhole == Spec => []WholeOrNothing
<1>1. Init => CollectInv
  BY CollectInit
<1>2. CollectInv /\ [Next]_vars => CollectInv'
  BY CollectStep
<1>3. CollectInv => WholeOrNothing
  <2>. SUFFICES ASSUME RoundInv, pc = "idle"
                PROVE  LET reported == {g \in DOMAIN stats : stats[g] # Default(g)}
                           resources == asked \ {"tasks"}
                       IN  /\ \A g \in reported : g \in asked /\ Whole(g)
                           /\ reported \intersect resources \in {{}, resources}
    BY DEF CollectInv, WholeOrNothing
  <2>. DEFINE reported == {g \in DOMAIN stats : stats[g] # Default(g)}
              resources == asked \ {"tasks"}
  <2>1. todo = {} /\ DOMAIN stats = ToSet(Groups) /\ asked \subseteq ToSet(Groups)
    BY DEF RoundInv
  <2>2. \A g \in reported : g \in asked /\ Whole(g)
    BY <2>1, CollectedGroups
  <2>3. CASE \A g \in resources : Whole(g)
    <3>1. reported \intersect resources = resources
      BY <2>1, <2>3, WholeIsReported
    <3>. QED  BY <2>2, <3>1
  <2>4. CASE \A g \in resources : stats[g] = Default(g)
    <3>1. reported \intersect resources = {}
      BY <2>4
    <3>. QED  BY <2>2, <3>1
  <2>. QED  BY <2>1, <2>3, <2>4 DEF RoundInv, Resources, Collected
<1>. QED  BY <1>1, <1>2, <1>3, PTL DEF Spec

-----------------------------------------------------------------------------
(* Sums.                                                                   *)

\* The pairs that Total counts.
Units(a) == UNION {{x} \X (1 .. a[x]) : x \in DOMAIN a}

LEMMA UnitIs ==
  ASSUME NEW a, NEW p
  PROVE  p \in Units(a) <=>
           \E x \in DOMAIN a : \E n \in 1 .. a[x] : p = <<x, n>>
  BY DEF Units

LEMMA UnitParts ==
  ASSUME NEW a, NEW p \in Units(a)
  PROVE  p = <<p[1], p[2]>> /\ p[1] \in DOMAIN a /\ p[2] \in 1 .. a[p[1]]
<1>1. PICK x \in DOMAIN a : \E n \in 1 .. a[x] : p = <<x, n>>
  BY UnitIs
<1>2. PICK n \in 1 .. a[x] : p = <<x, n>>
  BY <1>1
<1>3. p[1] = x /\ p[2] = n
  BY <1>2
<1>. QED  BY <1>2, <1>3

LEMMA UnionFinite ==
  ASSUME NEW D, IsFiniteSet(D), NEW a, \A x \in D : IsFiniteSet(a[x])
  PROVE  IsFiniteSet(UNION {a[x] : x \in D})
<1>. DEFINE T == {a[x] : x \in D}
            f == [x \in D |-> a[x]]
<1>1. f \in Surjection(D, T)
  BY DEF Surjection
<1>2. IsFiniteSet(T)
  BY <1>1, FS_Surjection DEF ExistsSurjection
<1>. QED  BY <1>2, FS_UNION

LEMMA TotalCounts ==
  ASSUME NEW a, IsFiniteSet(DOMAIN a), \A x \in DOMAIN a : a[x] \in Nat
  PROVE  /\ IsFiniteSet(Units(a)) /\ Total(a) = Cardinality(Units(a))
         /\ Total(a) \in Nat
         /\ \E f : f \in Bijection(1 .. Total(a), Units(a))
<1>. DEFINE row == [x \in DOMAIN a |-> {x} \X (1 .. a[x])]
<1>1. ASSUME NEW x \in DOMAIN a
      PROVE  IsFiniteSet(row[x])
  <2>1. IsFiniteSet({x}) /\ IsFiniteSet(1 .. a[x])
    <3>1. 1 \in Int /\ a[x] \in Int
      OBVIOUS
    <3>2. IsFiniteSet(1 .. a[x])
      BY <3>1, FS_Interval
    <3>. QED  BY <3>2, FS_Singleton
  <2>2. IsFiniteSet({x} \X (1 .. a[x]))
    BY <2>1, FS_Product
  <2>. QED  BY <2>2
<1>2. Units(a) = UNION {row[x] : x \in DOMAIN a}
  BY DEF Units
<1>. HIDE DEF row
<1>3. IsFiniteSet(Units(a))
  BY <1>1, <1>2, UnionFinite
<1>4. Total(a) = Cardinality(Units(a))
  BY DEF Total, Units
<1>5. Total(a) \in Nat /\ ExistsBijection(1 .. Total(a), Units(a))
  BY <1>3, <1>4, FS_CardinalityType
<1>. QED  BY <1>3, <1>4, <1>5 DEF ExistsBijection

\* A sum over pairs is the sum, over the first of the pair, of sums over the
\* second.
LEMMA SumOfSums ==
  ASSUME NEW D, IsFiniteSet(D), NEW E, \A i \in D : IsFiniteSet(E[i]),
         NEW a, DOMAIN a = UNION {{i} \X E[i] : i \in D}, \A p \in DOMAIN a : a[p] \in Nat
  PROVE  Total(a) = Total([i \in D |-> Total([j \in E[i] |-> a[<<i, j>>]])])
<1>. DEFINE Row == [i \in D |-> [j \in E[i] |-> a[<<i, j>>]]]
            b == [i \in D |-> Total(Row[i])]
            F == [i \in D |-> CHOOSE f : f \in Bijection(1 .. Total(Row[i]), Units(Row[i]))]
<1>1. \A i \in D : DOMAIN Row[i] = E[i] /\ \A j \in E[i] : Row[i][j] = a[<<i, j>>]
  OBVIOUS
<1>2. \A i \in D : \A j \in E[i] : <<i, j>> \in DOMAIN a /\ a[<<i, j>>] \in Nat
  OBVIOUS
<1>3. [i \in D |-> Total([j \in E[i] |-> a[<<i, j>>]])] = b
  OBVIOUS
<1>4. DOMAIN b = D /\ \A i \in D : b[i] = Total(Row[i])
  OBVIOUS
<1>5. \A i \in D : F[i] = CHOOSE f : f \in Bijection(1 .. Total(Row[i]), Units(Row[i]))
  OBVIOUS
<1>. HIDE DEF Row, b, F
<1>6. ASSUME NEW i \in D
      PROVE  /\ Total(Row[i]) \in Nat
             /\ F[i] \in Bijection(1 .. Total(Row[i]), Units(Row[i]))
  <2>1. IsFiniteSet(DOMAIN Row[i])
    BY <1>1
  <2>2. ASSUME NEW j \in DOMAIN Row[i]
        PROVE  Row[i][j] \in Nat
    <3>1. j \in E[i] /\ Row[i][j] = a[<<i, j>>]
      BY <1>1
    <3>2. a[<<i, j>>] \in Nat
      BY <1>2, <3>1
    <3>. QED  BY <3>1, <3>2
  <2>3. Total(Row[i]) \in Nat /\ \E f : f \in Bijection(1 .. Total(Row[i]), Units(Row[i]))
    BY <2>1, <2>2, TotalCounts
  <2>. QED  BY <2>3, <1>5
<1>7. ASSUME NEW i \in D
      PROVE  /\ \A n \in 1 .. Total(Row[i]) : F[i][n] \in Units(Row[i])
             /\ \A n, r \in 1 .. Total(Row[i]) : F[i][n] = F[i][r] => n = r
             /\ \A u \in Units(Row[i]) : \E n \in 1 .. Total(Row[i]) : F[i][n] = u
  <2>. DEFINE S == 1 .. Total(Row[i])
              T == Units(Row[i])
  <2>1. F[i] \in Bijection(S, T)
    BY <1>6
  <2>. HIDE DEF S, T
  <2>2. /\ \A n \in S : F[i][n] \in T
        /\ \A n, r \in S : F[i][n] = F[i][r] => n = r
        /\ \A u \in T : \E n \in S : F[i][n] = u
    BY <2>1 DEF Bijection, Injection, Surjection, IsInjective
  <2>. QED  BY <2>2 DEF S, T
<1>8. /\ IsFiniteSet(Units(b)) /\ Total(b) = Cardinality(Units(b))
  BY <1>4, <1>6, TotalCounts
<1>. DEFINE G == [p \in Units(b) |-> <<<<p[1], F[p[1]][p[2]][1]>>, F[p[1]][p[2]][2]>>]
<1>9. ASSUME NEW p \in Units(b)
      PROVE  /\ p = <<p[1], p[2]>> /\ p[1] \in D /\ p[2] \in 1 .. Total(Row[p[1]])
             /\ F[p[1]][p[2]] \in Units(Row[p[1]])
  <2>1. p = <<p[1], p[2]>> /\ p[1] \in DOMAIN b /\ p[2] \in 1 .. b[p[1]]
    BY UnitParts
  <2>. QED  BY <2>1, <1>4, <1>7
<1>10. ASSUME NEW i \in D, NEW q \in Units(Row[i])
       PROVE  /\ q = <<q[1], q[2]>> /\ <<i, q[1]>> \in DOMAIN a
              /\ q[2] \in 1 .. a[<<i, q[1]>>]
  <2>1. q = <<q[1], q[2]>> /\ q[1] \in DOMAIN Row[i] /\ q[2] \in 1 .. Row[i][q[1]]
    BY UnitParts
  <2>2. q[1] \in E[i] /\ Row[i][q[1]] = a[<<i, q[1]>>]
    BY <1>1, <2>1
  <2>. QED  BY <1>2, <2>1, <2>2
<1>11. ASSUME NEW p \in Units(b)
       PROVE  G[p] \in Units(a)
  <2>. DEFINE i == p[1]
              q == F[p[1]][p[2]]
  <2>1. i \in D /\ q \in Units(Row[i])
    BY <1>9
  <2>2. G[p] = <<<<i, q[1]>>, q[2]>>
    OBVIOUS
  <2>. HIDE DEF i, q, G
  <2>3. <<i, q[1]>> \in DOMAIN a /\ q[2] \in 1 .. a[<<i, q[1]>>]
    BY <1>10, <2>1
  <2>. DEFINE x == <<i, q[1]>>
  <2>4. x \in DOMAIN a /\ q[2] \in 1 .. a[x] /\ G[p] = <<x, q[2]>>
    BY <2>2, <2>3
  <2>. HIDE DEF x
  <2>. QED  BY <2>4, UnitIs
<1>12. ASSUME NEW p \in Units(b), NEW r \in Units(b), G[p] = G[r]
       PROVE  p = r
  <2>. DEFINE q == F[p[1]][p[2]]
              s == F[r[1]][r[2]]
  <2>1. G[p] = <<<<p[1], q[1]>>, q[2]>> /\ G[r] = <<<<r[1], s[1]>>, s[2]>>
    OBVIOUS
  <2>2. p[1] = r[1] /\ q[1] = s[1] /\ q[2] = s[2]
    <3>. HIDE DEF q, s, G
    <3>. QED  BY <2>1, <1>12
  <2>3. q = <<q[1], q[2]>> /\ s = <<s[1], s[2]>>
    <3>1. /\ p[1] \in D /\ q \in Units(Row[p[1]])
          /\ r[1] \in D /\ s \in Units(Row[r[1]])
      BY <1>9
    <3>. HIDE DEF q, s, G
    <3>. QED  BY <1>10, <3>1
  <2>4. q = s
    <3>. HIDE DEF q, s, G
    <3>. QED  BY <2>2, <2>3
  <2>5. F[p[1]][p[2]] = F[p[1]][r[2]]
    BY <2>2, <2>4
  <2>. HIDE DEF q, s, G
  <2>6. /\ p[1] \in D /\ p[2] \in 1 .. Total(Row[p[1]]) /\ r[2] \in 1 .. Total(Row[p[1]])
        /\ p = <<p[1], p[2]>> /\ r = <<r[1], r[2]>>
    BY <1>9, <2>2
  <2>7. p[2] = r[2]
    BY <1>7, <2>5, <2>6
  <2>. QED  BY <2>2, <2>6, <2>7
<1>13. ASSUME NEW u \in Units(a)
       PROVE  \E p \in Units(b) : G[p] = u
  <2>. DEFINE x == u[1]
              m == u[2]
  <2>1. u = <<x, m>> /\ x \in DOMAIN a /\ m \in 1 .. a[x]
    BY UnitParts
  <2>. HIDE DEF x, m
  <2>2. PICK i \in D : \E j \in E[i] : x = <<i, j>>
    BY <2>1
  <2>3. PICK j \in E[i] : x = <<i, j>>
    BY <2>2
  <2>4. j \in DOMAIN Row[i] /\ m \in 1 .. Row[i][j]
    BY <1>1, <2>1, <2>3
  <2>5. <<j, m>> \in Units(Row[i])
    BY <2>4, UnitIs
  <2>6. PICK n \in 1 .. Total(Row[i]) : F[i][n] = <<j, m>>
    BY <1>7, <2>5
  <2>7. i \in DOMAIN b /\ n \in 1 .. b[i]
    BY <1>4, <2>6
  <2>. DEFINE p == <<i, n>>
  <2>8. p \in Units(b)
    BY <2>7, UnitIs
  <2>9. p[1] = i /\ p[2] = n
    OBVIOUS
  <2>. HIDE DEF p
  <2>10. G[p] = <<<<i, F[i][n][1]>>, F[i][n][2]>>
    BY <2>8, <2>9
  <2>11. F[i][n][1] = j /\ F[i][n][2] = m
    BY <2>6
  <2>12. G[p] = u
    BY <2>1, <2>3, <2>10, <2>11
  <2>. QED  BY <2>8, <2>12
<1>. HIDE DEF G
<1>14. DOMAIN G = Units(b) /\ G = [p \in DOMAIN G |-> G[p]]
  BY DEF G
<1>15. G \in Bijection(Units(b), Units(a))
  BY <1>11, <1>12, <1>13, <1>14 DEF Bijection, Injection, Surjection, IsInjective
<1>16. Cardinality(Units(a)) = Cardinality(Units(b))
  BY <1>8, <1>15, FS_Bijection DEF ExistsBijection
<1>17. Total(a) = Total(b)
  BY <1>8, <1>16 DEF Total, Units
<1>. QED  BY <1>17, <1>3

-----------------------------------------------------------------------------
(* Whether the numbers are true.                                           *)

\* The sum over the words of a file is the sum over its devices of the sums
\* over their words.
LEMMA SumByDevice ==
  ASSUME NEW lines \in IoStats, NEW key
  PROVE  SumOfWords(lines, key) =
           Total([i \in DOMAIN lines |-> SumOfDevice(lines[i], key)])
<1>. DEFINE D == DOMAIN lines
            E == [i \in D |-> DOMAIN lines[i]]
            a == [p \in Positions(lines) |-> Amount(lines[p[1]][p[2]], key)]
<1>1. IsFiniteSet(D) /\ \A i \in D : IsFiniteSet(E[i])
  BY IoStatsAssumption
<1>2. DOMAIN a = UNION {{i} \X E[i] : i \in D}
  BY DEF Positions
<1>3. ASSUME NEW i \in D, NEW j \in E[i]
      PROVE  a[<<i, j>>] = Amount(lines[i][j], key)
  <2>. DEFINE p == <<i, j>>
  <2>1. p \in Positions(lines) /\ p[1] = i /\ p[2] = j
    BY DEF Positions
  <2>. HIDE DEF p
  <2>2. a[p] = Amount(lines[i][j], key)
    BY <2>1
  <2>. QED  BY <2>2 DEF p
<1>4. ASSUME NEW p \in DOMAIN a
      PROVE  a[p] \in Nat
  <2>1. PICK i \in D : \E j \in E[i] : p = <<i, j>>
    BY <1>2
  <2>2. PICK j \in E[i] : p = <<i, j>>
    BY <2>1
  <2>3. a[p] = Amount(lines[i][j], key)
    <3>. HIDE DEF a
    <3>. QED  BY <1>3, <2>2
  <2>4. j \in DOMAIN lines[i] /\ i \in DOMAIN lines
    BY <2>2
  <2>5. Len(lines[i][j]) = 2 => lines[i][j][2] \in Nat
    BY <2>4, IoStatsAssumption
  <2>. HIDE DEF a
  <2>. QED  BY <2>3, <2>5 DEF Amount
<1>5. [i \in D |-> Total([j \in E[i] |-> a[<<i, j>>]])] =
        [i \in D |-> SumOfDevice(lines[i], key)]
  <2>1. ASSUME NEW i \in D
        PROVE  Total([j \in E[i] |-> a[<<i, j>>]]) = SumOfDevice(lines[i], key)
    <3>1. E[i] = DOMAIN lines[i]
      OBVIOUS
    <3>2. \A j \in E[i] : a[<<i, j>>] = Amount(lines[i][j], key)
      BY <1>3
    <3>. HIDE DEF a, E
    <3>3. [j \in E[i] |-> a[<<i, j>>]] = [j \in DOMAIN lines[i] |-> Amount(lines[i][j], key)]
      BY <3>1, <3>2
    <3>. QED  BY <3>3 DEF SumOfDevice
  <2>. HIDE DEF a, E, D
  <2>. QED  BY <2>1
<1>6. Total(a) = Total([i \in D |-> Total([j \in E[i] |-> a[<<i, j>>]])])
  <2>. HIDE DEF a, E, D
  <2>. QED  BY <1>1, <1>2, <1>4, SumOfSums
<1>7. SumOfWords(lines, key) = Total(a)
  BY DEF SumOfWords
<1>. HIDE DEF a, E
<1>. QED  BY <1>5, <1>6, <1>7

\* What was read is what systemd would say of the present run, or is not found.
Exact(g, f, r) ==
  \/ r.n = True(g, f) /\ r.life = lives
  \/ g = "cpu" /\ r.src = "cgroup" /\ r.n = 0
  \/ f = "available" /\ r.src = "default"

\* Unless the scrape was disturbed, all that it has collected and read so far
\* is exact.
TrueInv ==
  ~disturbed /\ pc # "ended" =>
    /\ \A g \in Collected : \A f \in Fields(g) : Exact(g, f, stats[g][f])
    /\ pc \in {"cgroup", "bus"} => \A f \in DOMAIN got : Exact(First(todo), f, got[f])

LEMMA NoCpuTime == ParseCpuStat = [usage_nsec |-> 0]
<1>1. DOMAIN CpuStat = 1 .. 3 /\ \A i \in 1 .. 3 : CpuStat[i][1] # "usage_nsec"
  BY DEF CpuStat
<1>2. {i \in DOMAIN CpuStat : CpuStat[i][1] = "usage_nsec"} = {}
  BY <1>1
<1>. QED  BY <1>2 DEF ParseCpuStat

\* The files of a unit that runs tell what systemd tells.
LEMMA FilesAreExact ==
  ASSUME iostat \in IoStats, state = "running",
         NEW g \in InFiles, NEW file \in Items("cgroup", g), NEW f \in DOMAIN Parse(file)
  PROVE  Exact(g, f, Reading("cgroup", Parse(file)[f]))
<1>. DEFINE n == Parse(file)[f]
<1>1. /\ Reading("cgroup", n).n = n /\ Reading("cgroup", n).life = lives
      /\ Reading("cgroup", n).src = "cgroup"
  BY DEF Reading
<1>2. CASE g = "io"
  <2>1. file = "io.stat" /\ Parse(file) = ParseIoStat(iostat)
    BY <1>2, FilesAre DEF Items, Parse
  <2>2. n = SumOfWords(iostat, KeyOf(f))
    BY <2>1 DEF ParseIoStat
  <2>3. True(g, f) = Total([i \in DOMAIN iostat |-> SumOfDevice(iostat[i], KeyOf(f))])
    BY <1>2 DEF True
  <2>. HIDE DEF n
  <2>4. n = True(g, f)
    BY <2>2, <2>3, SumByDevice
  <2>. QED  BY <1>1, <2>4 DEF Exact, n
<1>3. CASE g = "cpu"
  <2>1. file = "cpu.stat"
    BY <1>3, FilesAre DEF Items
  <2>2. Parse(file) = [usage_nsec |-> 0]
    BY <2>1, NoCpuTime DEF Parse
  <2>3. n = 0
    BY <2>2
  <2>. HIDE DEF n
  <2>. QED  BY <1>1, <1>3, <2>3 DEF Exact, n
<1>4. CASE g = "memory"
  <2>1. file \in {"memory.current", "memory.peak", "memory.swap.current", "memory.swap.peak"}
    BY <1>4, FilesAre DEF Items
  <2>2. n = Memory[f]
    BY <2>1 DEF Parse, Memory
  <2>3. True(g, f) = Memory[f]
    BY <1>4 DEF True
  <2>. HIDE DEF n
  <2>. QED  BY <1>1, <2>2, <2>3 DEF Exact, n
<1>. QED  BY <1>2, <1>3, <1>4 DEF InFiles

\* What is taken is exact if what has been read is.
LEMMA TakeIsExact ==
  ASSUME RoundInv, ReadInv, TrueInv, pc \in {"cgroup", "bus"}, asked' = asked,
         disturbed' = disturbed, UNCHANGED <<state, iostat, lives>>,
         NEW numbers, DOMAIN numbers = Covers(pc, Head(left)), Take(numbers, pc),
         ~disturbed => \A f \in DOMAIN numbers :
           Exact(First(todo), f, Reading(pc, numbers[f]))
  PROVE  TrueInv'
<1>0. PICK g \in todo : g = First(todo)
  BY FirstOf DEF RoundInv
<1>. DEFINE new == [f \in DOMAIN numbers |-> Reading(pc, numbers[f])]
            read == Assigned(new, got)
<1>. SUFFICES ASSUME ~disturbed
              PROVE  TrueInv'
  BY DEF TrueInv
<1>1. /\ todo # {} /\ g \in asked /\ g \in ToSet(Groups)
      /\ left \in Seq(Items(pc, g)) /\ left # <<>>
      /\ DOMAIN got \union Ahead(pc, left) = Provided(g, pc)
  BY <1>0 DEF RoundInv, ReadInv
<1>2. /\ \A h \in Collected : \A f \in Fields(h) : Exact(h, f, stats[h][f])
      /\ \A f \in DOMAIN got : Exact(g, f, got[f])
  BY <1>0 DEF TrueInv
<1>3. DOMAIN new = Covers(pc, Head(left)) /\ \A f \in DOMAIN new : Exact(g, f, new[f])
  BY <1>0
<1>4. /\ DOMAIN read = Covers(pc, Head(left)) \union DOMAIN got
      /\ \A f \in DOMAIN read : Exact(g, f, read[f])
  <2>. HIDE DEF new
  <2>. QED  BY <1>2, <1>3 DEF Assigned
<1>5. \A h, f : True(h, f)' = True(h, f)
  BY DEF True
<1>6. CASE Len(left) > 1
  <2>1. got' = read /\ pc' = pc /\ todo' = todo /\ stats' = stats
    BY <1>6 DEF Take
  <2>. HIDE DEF new, read
  <2>2. Collected' = Collected /\ First(todo') = g
    BY <1>0, <2>1 DEF Collected
  <2>. QED  BY <1>2, <1>4, <1>5, <2>1, <2>2 DEF TrueInv, Exact
<1>7. CASE ~(Len(left) > 1)
  <2>1. stats' = [stats EXCEPT ![g] = Assigned(read, stats[g])] /\ Begin(todo \ {g})
    BY <1>0, <1>7 DEF Take
  <2>. HIDE DEF new, read
  <2>2. todo' = todo \ {g} /\ got' = <<>>
    BY <2>1, BeginReads DEF RoundInv
  <2>3. Collected' = Collected \union {g}
    BY <1>0, <1>1, <2>2 DEF Collected
  <2>4. DOMAIN read = Provided(g, pc)
    BY <1>1, <1>4, <1>7, AheadOfHead
  <2>5. /\ stats'[g] = Assigned(read, stats[g])
        /\ \A h \in Collected : stats'[h] = stats[h]
    BY <1>0, <1>1, <2>1 DEF RoundInv, Collected
  <2>6. stats[g] = Default(g)
    BY <1>0, <1>1 DEF RoundInv, Collected
  <2>7. /\ Provided(g, pc) \subseteq Fields(g) /\ Fields(g) \ Provided(g, pc) \subseteq {"available"}
        /\ DOMAIN Default(g) = Fields(g)
        /\ \A f \in Fields(g) : Default(g)[f].src = "default"
    BY DEF Provided, Default, NotRead
  <2>8. \A f \in Fields(g) : Exact(g, f, stats'[g][f])
    <3>1. ASSUME NEW f \in Provided(g, pc)
          PROVE  Exact(g, f, stats'[g][f])
      <4>1. stats'[g][f] = read[f]
        BY <2>4, <2>5, <2>6, <2>7 DEF Assigned
      <4>. QED  BY <1>4, <2>4, <4>1
    <3>2. ASSUME NEW f \in Fields(g) \ Provided(g, pc)
          PROVE  Exact(g, f, stats'[g][f])
      <4>1. stats'[g][f] = Default(g)[f]
        BY <2>4, <2>5, <2>6, <2>7 DEF Assigned
      <4>. QED  BY <2>7, <4>1 DEF Exact
    <3>. QED  BY <3>1, <3>2
  <2>9. \A h \in Collected' : \A f \in Fields(h) : Exact(h, f, stats'[h][f])
    BY <1>2, <2>3, <2>5, <2>8
  <2>. QED  BY <1>5, <2>2, <2>9, EmptyDomain DEF TrueInv, Exact
<1>. QED  BY <1>6, <1>7

\* What every other step leaves of it.
LEMMA TrueKept ==
  ASSUME TrueInv, UNCHANGED <<state, iostat, lives, todo, asked, stats, disturbed>>,
         pc = "ended" <=> pc' = "ended",
         pc' \in {"cgroup", "bus"} => UNCHANGED <<pc, got>> \/ got' = <<>>
  PROVE  TrueInv'
<1>1. \A h, f : True(h, f)' = True(h, f)
  BY DEF True
<1>2. Collected' = Collected
  BY DEF Collected
<1>. QED  BY <1>1, <1>2, EmptyDomain DEF TrueInv, Exact

LEMMA TrueStep == ASSUME CollectInv, TrueInv, [Next]_vars PROVE TrueInv'
<1>0. UnitInv /\ RoundInv /\ ReadInv
  BY DEF CollectInv
<1>1. CASE UNCHANGED vars
  BY <1>1, TrueKept DEF vars, systemVars, callVars
<1>2. CASE StartUnit \/ StopUnit \/ Refresh
  BY <1>2 DEF StartUnit, StopUnit, Refresh, TrueInv
<1>3. CASE CallFails \/ Panic
  BY <1>3 DEF CallFails, Panic, End, TrueInv
<1>4. CASE ChangeSettings \/ Ended
  BY <1>4, TrueKept DEF ChangeSettings, Ended, vars, systemVars, callVars
<1>5. CASE ParseUnit \/ ReadStatus \/ ReadFlag \/ FlagFails
  <2>1. UNCHANGED <<state, iostat, lives, todo, asked, stats, disturbed>>
    BY <1>5 DEF ParseUnit, ReadStatus, ReadFlag, FlagFails, systemVars
  <2>2. pc # "ended" /\ pc' \notin {"ended", "cgroup", "bus"}
    BY <1>5 DEF ParseUnit, ReadStatus, ReadFlag, FlagFails
  <2>. QED  BY <2>1, <2>2, TrueKept
<1>6. CASE Scrape
  <2>1. Begin(asked') /\ asked' \subseteq ToSet(Groups)
    BY <1>6 DEF Scrape
  <2>2. todo' = asked' /\ got' = <<>>
    BY <2>1, BeginReads
  <2>. QED  BY <2>2, EmptyDomain DEF TrueInv, Collected
<1>7. CASE ReadFile
  <2>1. /\ pc = "cgroup" /\ asked' = asked /\ disturbed' = disturbed
        /\ UNCHANGED <<state, iostat, lives>> /\ state = "running"
        /\ Take(Parse(Head(left)), "cgroup")
    BY <1>0, <1>7 DEF ReadFile, FileExists, UnitInv, systemVars
  <2>2. First(todo) \in InFiles /\ left \in Seq(Items("cgroup", First(todo))) /\ left # <<>>
    BY <1>0, <2>1 DEF ReadInv
  <2>3. Head(left) \in Items("cgroup", First(todo))
    BY <2>2, AheadOfHead
  <2>4. DOMAIN Parse(Head(left)) = Covers("cgroup", Head(left))
    BY <2>2, <2>3, ParsedFields
  <2>5. \A f \in DOMAIN Parse(Head(left)) :
          Exact(First(todo), f, Reading("cgroup", Parse(Head(left))[f]))
    BY <1>0, <2>1, <2>2, <2>3, FilesAreExact DEF UnitInv, IoStats
  <2>. QED  BY <1>0, <2>1, <2>4, <2>5, TakeIsExact
<1>8. CASE FileMissing
  <2>1. /\ UNCHANGED <<state, iostat, lives, todo, asked, stats, disturbed>>
        /\ pc # "ended" /\ pc' # "ended" /\ got' = <<>>
    BY <1>8 DEF FileMissing, systemVars
  <2>. QED  BY <2>1, TrueKept
<1>9. CASE ReadProperty
  <2>. DEFINE numbers == [f \in {Head(left)} |-> True(First(todo), f)]
  <2>1. /\ pc = "bus" /\ asked' = asked /\ disturbed' = disturbed
        /\ UNCHANGED <<state, iostat, lives>> /\ Take(numbers, "bus")
    BY <1>9 DEF ReadProperty, systemVars
  <2>2. DOMAIN numbers = Covers("bus", Head(left))
    BY DEF Covers
  <2>3. \A f \in DOMAIN numbers : Exact(First(todo), f, Reading("bus", numbers[f]))
    BY DEF Exact, Reading
  <2>. HIDE DEF numbers
  <2>. QED  BY <1>0, <2>1, <2>2, <2>3, TakeIsExact
<1>10. CASE PropertyFails
  BY <1>10 DEF PropertyFails, TrueInv
<1>. QED
  BY <1>1, <1>2, <1>3, <1>4, <1>5, <1>6, <1>7, <1>8, <1>9, <1>10 DEF Next

\* A scrape that nothing disturbs reports what systemd would of every group it
\* accounts for, whichever files the kernel has and wherever the unit is: the
\* numbers of io.stat, added up word by word, are the sums over the devices
\* (unit.rs:104-157, cgroup.rs:23-92).
THEOREM NumbersAreTrue == Spec => []TrueWhenUndisturbed
<1>1. Init => CollectInv /\ TrueInv
  BY CollectInit DEF Init, TrueInv
<1>2. CollectInv /\ TrueInv /\ [Next]_vars => CollectInv' /\ TrueInv'
  BY CollectStep, TrueStep
<1>3. CollectInv /\ TrueInv => TrueWhenUndisturbed
  <2>. SUFFICES ASSUME RoundInv, TrueInv, pc = "idle", ~disturbed,
                       NEW g \in asked, NEW f \in Fields(g)
                PROVE  \/ stats[g][f].n = True(g, f) /\ stats[g][f].life = lives
                       \/ Gap(g, f)
    BY DEF CollectInv, TrueWhenUndisturbed
  <2>1. g \in Collected
    BY DEF RoundInv, Collected
  <2>. QED  BY <2>1 DEF TrueInv, Exact, Gap
<1>. QED  BY <1>1, <1>2, <1>3, PTL DEF Spec

=============================================================================
