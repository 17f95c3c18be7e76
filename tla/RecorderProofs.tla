--------------------------- MODULE RecorderProofs ---------------------------
(***************************************************************************)
(* Proofs about ScrapeRecorder, for any number of handlers, any batches    *)
(* and any set of tracked families: what the body of a scrape holds.       *)
(***************************************************************************)
EXTENDS ScrapeRecorder, FiniteSetTheorems, TLAPS

-----------------------------------------------------------------------------
(* The numbers of a group and where they stand.                            *)

\* Group and position of a family.
Slot ==
  [start_ts |-> <<1, 1>>, stop_ts |-> <<1, 2>>, main_pid |-> <<1, 3>>, task_count |-> <<1, 4>>,
   io_read_bytes |-> <<2, 1>>, io_write_bytes |-> <<2, 2>>, io_read_ops |-> <<2, 3>>, io_write_ops |-> <<2, 4>>,
   ip_egress_bytes |-> <<3, 1>>, ip_ingress_bytes |-> <<3, 2>>, ip_egress_packets |-> <<3, 3>>, ip_ingress_packets |-> <<3, 4>>,
   cpu_usage_nsec |-> <<4, 1>>,
   mem_current |-> <<5, 1>>, mem_available |-> <<5, 2>>, mem_peak |-> <<5, 3>>,
   mem_swap |-> <<6, 1>>, mem_swap_peak |-> <<6, 2>>]

LEMMA UnitFamiliesAre ==
  UnitFamilies =
    {"active_state", "sub_state", "active_ts", "inactive_ts", "start_ts", "stop_ts",
     "main_pid", "job_id", "io_read_bytes", "io_write_bytes", "io_read_ops",
     "io_write_ops", "ip_egress_bytes", "ip_ingress_bytes", "ip_egress_packets",
     "ip_ingress_packets", "cpu_usage_nsec", "mem_current", "mem_available",
     "mem_peak", "mem_swap", "mem_swap_peak", "task_count"}
<1>1. DOMAIN Cleared = 1 .. 23
  BY DEF Cleared
<1>. QED  BY <1>1, SMTT(60) DEF Cleared, UnitFamilies, ToSet

LEMMA GroupForm ==
  ASSUME NEW j \in DOMAIN Groups, NEW n \in DOMAIN Groups[j].of
  PROVE  LET f == Groups[j].of[n]
         IN  /\ f \in UnitFamilies \ {"job_id", "active_state", "sub_state"}
             /\ Groups[j].counter <=> f \in Counters
             /\ Slot[f][1] = j /\ Slot[f][2] = n
<1>. DEFINE Good(f, c, i, m) ==
              /\ f \in UnitFamilies \ {"job_id", "active_state", "sub_state"}
              /\ c <=> f \in Counters
              /\ Slot[f][1] = i /\ Slot[f][2] = m
<1>0. j \in 1 .. 6
  BY DEF Groups
<1>1. ASSUME j = 1
     PROVE  Good(Groups[j].of[n], Groups[j].counter, j, n)
  <2>1. Groups[1].of = <<"start_ts", "stop_ts", "main_pid", "task_count">> /\ Groups[1].counter = FALSE
    BY DEF Groups
  <2>2. n \in 1 .. 4
    BY <1>1, <2>1
  <2>3. /\ Good("start_ts", FALSE, 1, 1)
        /\ Good("stop_ts", FALSE, 1, 2)
        /\ Good("main_pid", FALSE, 1, 3)
        /\ Good("task_count", FALSE, 1, 4)
    BY UnitFamiliesAre DEF Counters, Slot
  <2>4. n = 1 \/ n = 2 \/ n = 3 \/ n = 4
    BY <2>2
  <2>5. /\ n = 1 => Groups[j].of[n] = "start_ts"
        /\ n = 2 => Groups[j].of[n] = "stop_ts"
        /\ n = 3 => Groups[j].of[n] = "main_pid"
        /\ n = 4 => Groups[j].of[n] = "task_count"
    BY <1>1, <2>1
  <2>. HIDE DEF Good
  <2>. QED  BY <1>1, <2>1, <2>3, <2>4, <2>5
<1>2. ASSUME j = 2
     PROVE  Good(Groups[j].of[n], Groups[j].counter, j, n)
  <2>1. Groups[2].of = <<"io_read_bytes", "io_write_bytes", "io_read_ops", "io_write_ops">> /\ Groups[2].counter = TRUE
    BY DEF Groups
  <2>2. n \in 1 .. 4
    BY <1>2, <2>1
  <2>3. /\ Good("io_read_bytes", TRUE, 2, 1)
        /\ Good("io_write_bytes", TRUE, 2, 2)
        /\ Good("io_read_ops", TRUE, 2, 3)
        /\ Good("io_write_ops", TRUE, 2, 4)
    BY UnitFamiliesAre DEF Counters, Slot
  <2>4. n = 1 \/ n = 2 \/ n = 3 \/ n = 4
    BY <2>2
  <2>5. /\ n = 1 => Groups[j].of[n] = "io_read_bytes"
        /\ n = 2 => Groups[j].of[n] = "io_write_bytes"
        /\ n = 3 => Groups[j].of[n] = "io_read_ops"
        /\ n = 4 => Groups[j].of[n] = "io_write_ops"
    BY <1>2, <2>1
  <2>. HIDE DEF Good
  <2>. QED  BY <1>2, <2>1, <2>3, <2>4, <2>5
<1>3. ASSUME j = 3
     PROVE  Good(Groups[j].of[n], Groups[j].counter, j, n)
  <2>1. Groups[3].of = <<"ip_egress_bytes", "ip_ingress_bytes", "ip_egress_packets", "ip_ingress_packets">> /\ Groups[3].counter = TRUE
    BY DEF Groups
  <2>2. n \in 1 .. 4
    BY <1>3, <2>1
  <2>3. /\ Good("ip_egress_bytes", TRUE, 3, 1)
        /\ Good("ip_ingress_bytes", TRUE, 3, 2)
        /\ Good("ip_egress_packets", TRUE, 3, 3)
        /\ Good("ip_ingress_packets", TRUE, 3, 4)
    BY UnitFamiliesAre DEF Counters, Slot
  <2>4. n = 1 \/ n = 2 \/ n = 3 \/ n = 4
    BY <2>2
  <2>5. /\ n = 1 => Groups[j].of[n] = "ip_egress_bytes"
        /\ n = 2 => Groups[j].of[n] = "ip_ingress_bytes"
        /\ n = 3 => Groups[j].of[n] = "ip_egress_packets"
        /\ n = 4 => Groups[j].of[n] = "ip_ingress_packets"
    BY <1>3, <2>1
  <2>. HIDE DEF Good
  <2>. QED  BY <1>3, <2>1, <2>3, <2>4, <2>5
<1>4. ASSUME j = 4
     PROVE  Good(Groups[j].of[n], Groups[j].counter, j, n)
  <2>1. Groups[4].of = <<"cpu_usage_nsec">> /\ Groups[4].counter = TRUE
    BY DEF Groups
  <2>2. n \in 1 .. 1
    BY <1>4, <2>1
  <2>3. /\ Good("cpu_usage_nsec", TRUE, 4, 1)
    BY UnitFamiliesAre DEF Counters, Slot
  <2>4. n = 1
    BY <2>2
  <2>5. /\ n = 1 => Groups[j].of[n] = "cpu_usage_nsec"
    BY <1>4, <2>1
  <2>. HIDE DEF Good
  <2>. QED  BY <1>4, <2>1, <2>3, <2>4, <2>5
<1>5. ASSUME j = 5
     PROVE  Good(Groups[j].of[n], Groups[j].counter, j, n)
  <2>1. Groups[5].of = <<"mem_current", "mem_available", "mem_peak">> /\ Groups[5].counter = FALSE
    BY DEF Groups
  <2>2. n \in 1 .. 3
    BY <1>5, <2>1
  <2>3. /\ Good("mem_current", FALSE, 5, 1)
        /\ Good("mem_available", FALSE, 5, 2)
        /\ Good("mem_peak", FALSE, 5, 3)
    BY UnitFamiliesAre DEF Counters, Slot
  <2>4. n = 1 \/ n = 2 \/ n = 3
    BY <2>2
  <2>5. /\ n = 1 => Groups[j].of[n] = "mem_current"
        /\ n = 2 => Groups[j].of[n] = "mem_available"
        /\ n = 3 => Groups[j].of[n] = "mem_peak"
    BY <1>5, <2>1
  <2>. HIDE DEF Good
  <2>. QED  BY <1>5, <2>1, <2>3, <2>4, <2>5
<1>6. ASSUME j = 6
     PROVE  Good(Groups[j].of[n], Groups[j].counter, j, n)
  <2>1. Groups[6].of = <<"mem_swap", "mem_swap_peak">> /\ Groups[6].counter = FALSE
    BY DEF Groups
  <2>2. n \in 1 .. 2
    BY <1>6, <2>1
  <2>3. /\ Good("mem_swap", FALSE, 6, 1)
        /\ Good("mem_swap_peak", FALSE, 6, 2)
    BY UnitFamiliesAre DEF Counters, Slot
  <2>4. n = 1 \/ n = 2
    BY <2>2
  <2>5. /\ n = 1 => Groups[j].of[n] = "mem_swap"
        /\ n = 2 => Groups[j].of[n] = "mem_swap_peak"
    BY <1>6, <2>1
  <2>. HIDE DEF Good
  <2>. QED  BY <1>6, <2>1, <2>3, <2>4, <2>5
<1>. HIDE DEF Good
<1>7. Good(Groups[j].of[n], Groups[j].counter, j, n)
  BY <1>0, <1>1, <1>2, <1>3, <1>4, <1>5, <1>6
<1>. QED  BY <1>7 DEF Good

-----------------------------------------------------------------------------
(* What a handler does with a batch.                                       *)

LEMMA Bounds == I64Max \in Nat \ {0} /\ U64Max \in Nat \ {0} /\ I64Max < U64Max
  BY RecorderAssumption DEF RecorderAssumption

LEMMA ValueType ==
  ASSUME NEW b \in Batches, NEW i \in DOMAIN b, NEW f
  PROVE  Value(b[i], f) \in 0 .. U64Max
<1>1. \A g \in DOMAIN b[i].stat : b[i].stat[g] \in 0 .. U64Max
  BY BatchAssumption DEF BatchAssumption
<1>. QED  BY <1>1, Bounds DEF Value

LEMMA ItemFields ==
  ASSUME NEW at, NEW op, NEW f, NEW label, NEW v
  PROVE  LET x == Item(at, op, f, label, v)
         IN  /\ x.at = at /\ x.op = op /\ x.family = f /\ x.label = label
             /\ x.value = v
  BY DEF Item

\* An item that records a number or a state of the i-th unit, whose data is d.
Recording(x, i, d) ==
  /\ x.at[1] = 2 /\ x.op \in {"set", "inc"}
  /\ x.family \in UnitFamilies /\ x.label[1] = d.name
  /\ x.op = "inc" => x.family \in Counters /\ x.value \in 0 .. U64Max
  /\ x.op = "set" =>
       /\ x.family \in Gauges /\ x.value \in 0 .. I64Max
       /\ \/ x.value = Value(d, x.family)
          \/ x.value = I64Max /\ Value(d, x.family) = U64Max

\* The items of the states, of which none is of a family of a group.
StateItems(i, d) ==
  {Item(<<2, i, 0, 1>>, "set", "job_id", <<d.name>>, Value(d, "job_id")),
   Item(<<2, i, 0, 2>>, "inc", "active_state", <<d.name, d.active>>, 1),
   Item(<<2, i, 0, 3>>, "inc", "sub_state", <<d.name, d.active>>, 1)}

LEMMA UnitItems ==
  ASSUME NEW i, NEW d, NEW x \in RecordUnit(i, d)
  PROVE  \/ x \in StateItems(i, d)
         \/ \E j \in DOMAIN Groups : \E n \in DOMAIN Groups[j].of :
              x \in RecordNumber(i, d, j, n)
<1>1. CASE x \in StateItems(i, d)
  BY <1>1
<1>2. CASE x \notin StateItems(i, d)
  <2>1. PICK j \in DOMAIN Groups : x \in RecordGroup(i, d, j)
    BY <1>2 DEF RecordUnit, StateItems
  <2>2. x \in UNION {RecordNumber(i, d, j, n) : n \in DOMAIN Groups[j].of}
    BY <2>1 DEF RecordGroup
  <2>. QED  BY <2>1, <2>2
<1>. QED  BY <1>1, <1>2

LEMMA NumberItem ==
  ASSUME NEW i, NEW d, NEW j \in DOMAIN Groups, NEW n \in DOMAIN Groups[j].of,
         NEW x \in RecordNumber(i, d, j, n), Value(d, Groups[j].of[n]) \in 0 .. U64Max
  PROVE  /\ Recording(x, i, d)
         /\ x.family = Groups[j].of[n]
         /\ RecordNumber(i, d, j, n) = {x}
<1>. DEFINE f == Groups[j].of[n]
            at == <<2, i, j, n>>
            label == <<d.name>>
<1>1. /\ f \in UnitFamilies \ {"job_id", "active_state", "sub_state"}
      /\ Groups[j].counter <=> f \in Counters
  BY GroupForm
<1>2. f \in Gauges <=> f \notin Counters
  BY <1>1 DEF Gauges, Families
<1>3. at[1] = 2 /\ label[1] = d.name
  OBVIOUS
<1>4. CASE Groups[j].counter
  <2>1. RecordNumber(i, d, j, n) = {Item(at, "inc", f, label, Value(d, f))}
    BY <1>4 DEF RecordNumber, RecordCounter
  <2>. HIDE DEF f, at, label
  <2>2. x = Item(at, "inc", f, label, Value(d, f))
    BY <2>1
  <2>3. x.at = at /\ x.op = "inc" /\ x.family = f /\ x.label = label /\ x.value = Value(d, f)
    BY <2>2, ItemFields
  <2>4. Value(d, f) \in 0 .. U64Max
    BY DEF f
  <2>5. Recording(x, i, d)
    BY <2>3, <2>4, <1>1, <1>3, <1>4 DEF Recording
  <2>. QED  BY <2>1, <2>2, <2>3, <2>5 DEF f
<1>5. CASE ~Groups[j].counter
  <2>1. RecordNumber(i, d, j, n) = RecordGauge(at, f, label, Value(d, f))
    BY <1>5 DEF RecordNumber
  <2>2. Value(d, f) \in 0 .. U64Max
    OBVIOUS
  <2>. HIDE DEF f, at, label
  <2>3. \E v \in 0 .. I64Max :
          /\ RecordGauge(at, f, label, Value(d, f)) = {Item(at, "set", f, label, v)}
          /\ v = Value(d, f) \/ (v = I64Max /\ Value(d, f) = U64Max)
    <3>1. CASE Value(d, f) <= I64Max
      BY <3>1, <2>2, Bounds DEF RecordGauge
    <3>2. CASE ~(Value(d, f) <= I64Max) /\ Value(d, f) = U64Max
      BY <3>2, <2>2, Bounds DEF RecordGauge
    <3>3. CASE ~(Value(d, f) <= I64Max) /\ Value(d, f) # U64Max
      <4>1. RecordGauge(at, f, label, Value(d, f)) = {}
        BY <3>3 DEF RecordGauge
      <4>. QED  BY <4>1, <2>1
    <3>. QED  BY <3>1, <3>2, <3>3
  <2>4. PICK v \in 0 .. I64Max :
          /\ RecordGauge(at, f, label, Value(d, f)) = {Item(at, "set", f, label, v)}
          /\ v = Value(d, f) \/ (v = I64Max /\ Value(d, f) = U64Max)
    BY <2>3
  <2>5. x = Item(at, "set", f, label, v)
    BY <2>1, <2>4
  <2>6. x.at = at /\ x.op = "set" /\ x.family = f /\ x.label = label /\ x.value = v
    BY <2>5, ItemFields
  <2>7. f \in UnitFamilies /\ f \in Gauges
    BY <1>1, <1>2, <1>5 DEF f
  <2>8. Recording(x, i, d)
    BY <2>4, <2>6, <2>7, <1>3 DEF Recording
  <2>. QED  BY <2>1, <2>4, <2>5, <2>6, <2>8 DEF f
<1>. QED  BY <1>4, <1>5

LEMMA NumberSlot ==
  ASSUME NEW i, NEW d, NEW j \in DOMAIN Groups, NEW n \in DOMAIN Groups[j].of,
         NEW x \in RecordNumber(i, d, j, n), Value(d, Groups[j].of[n]) \in 0 .. U64Max
  PROVE  /\ x.family \notin {"job_id", "active_state", "sub_state"}
         /\ Slot[x.family][1] = j /\ Slot[x.family][2] = n
<1>1. x.family = Groups[j].of[n]
  BY NumberItem
<1>. QED  BY <1>1, GroupForm

LEMMA StateItem ==
  ASSUME NEW i, NEW d, NEW x \in StateItems(i, d), Value(d, "job_id") \in 0 .. I64Max
  PROVE  Recording(x, i, d) /\ x.family \in {"job_id", "active_state", "sub_state"}
<1>1. {"job_id", "active_state", "sub_state"} \subseteq UnitFamilies
  BY UnitFamiliesAre
<1>2. "job_id" \in Gauges /\ {"active_state", "sub_state"} \subseteq Counters
  BY <1>1 DEF Gauges, Families, Counters
<1>3. 1 \in 0 .. U64Max
  BY Bounds
<1>. QED  BY <1>1, <1>2, <1>3 DEF StateItems, Item, Recording

LEMMA UnitRecording ==
  ASSUME NEW b \in Batches, NEW i \in DOMAIN b, NEW x \in RecordUnit(i, b[i])
  PROVE  Recording(x, i, b[i])
<1>1. Value(b[i], "job_id") \in 0 .. I64Max
  BY ValueType, Bounds, BatchAssumption DEF BatchAssumption
<1>. QED  BY <1>1, UnitItems, StateItem, NumberItem, ValueType

\* A unit is recorded in a family once.
LEMMA UnitOnce ==
  ASSUME NEW b \in Batches, NEW i \in DOMAIN b,
         NEW x \in RecordUnit(i, b[i]), NEW y \in RecordUnit(i, b[i]),
         x.family = y.family
  PROVE  x = y
<1>. DEFINE d == b[i]
<1>1. Value(d, "job_id") \in 0 .. I64Max
  BY ValueType, Bounds, BatchAssumption DEF BatchAssumption
<1>2. \A f : Value(d, f) \in 0 .. U64Max
  BY ValueType
<1>. HIDE DEF d
<1>3. CASE x \in StateItems(i, d) /\ y \in StateItems(i, d)
  BY <1>3 DEF StateItems, Item
<1>5. ASSUME NEW j \in DOMAIN Groups, NEW n \in DOMAIN Groups[j].of,
             NEW k \in DOMAIN Groups, NEW m \in DOMAIN Groups[k].of,
             x \in RecordNumber(i, d, j, n), y \in RecordNumber(i, d, k, m)
      PROVE  x = y
  <2>1. j = Slot[x.family][1] /\ n = Slot[x.family][2]
    BY <1>2, <1>5, NumberSlot
  <2>2. k = Slot[y.family][1] /\ m = Slot[y.family][2]
    BY <1>2, <1>5, NumberSlot
  <2>3. j = k /\ n = m
    BY <2>1, <2>2
  <2>4. RecordNumber(i, d, j, n) = {x} /\ RecordNumber(i, d, j, n) = {y}
    BY <2>3, <1>2, <1>5, NumberItem
  <2>. QED  BY <2>4
<1>6. \A z \in {x, y} : z \in StateItems(i, d) => z.family \in {"job_id", "active_state", "sub_state"}
  BY <1>1, StateItem
<1>7. \A z \in {x, y} : \/ z \in StateItems(i, d)
                        \/ \E j \in DOMAIN Groups : \E n \in DOMAIN Groups[j].of :
                             z \in RecordNumber(i, d, j, n)
  BY UnitItems DEF d
<1>8. \A z \in {x, y}, j \in DOMAIN Groups : \A n \in DOMAIN Groups[j].of :
        z \in RecordNumber(i, d, j, n) => z.family \notin {"job_id", "active_state", "sub_state"}
  BY <1>2, NumberSlot
<1>. QED  BY <1>3, <1>5, <1>6, <1>7, <1>8

LEMMA ScrapeItem ==
  /\ RecordScrape.at[1] = 3 /\ RecordScrape.op = "inc" /\ RecordScrape.label = <<>>
  /\ RecordScrape.family = "scrape_count" /\ RecordScrape.value = 1
  BY DEF RecordScrape, Item

LEMMA ScrapeCountApart == "scrape_count" \notin UnitFamilies /\ "scrape_count" \in Counters
  BY UnitFamiliesAre DEF Counters

IsWrite(x) == x.op \in {"set", "inc"}

LEMMA HandlingItems ==
  ASSUME NEW b \in Batches, NEW x
  PROVE  x \in Handlings[b] <=>
           /\ x.family \in Tracked
           /\ \/ x \in NewBatch \/ x = RecordScrape \/ x \in Encode
              \/ \E i \in DOMAIN b : x \in RecordUnit(i, b[i])
<1>. DEFINE units == UNION {RecordUnit(i, b[i]) : i \in DOMAIN b}
<1>1. x \in units <=> \E i \in DOMAIN b : x \in RecordUnit(i, b[i])
  OBVIOUS
<1>2. Handlings[b] =
        {item \in NewBatch \union units \union {RecordScrape} \union Encode :
           item.family \in Tracked}
  BY DEF Handlings, Handling
<1>. HIDE DEF units
<1>. QED  BY <1>1, <1>2

\* What the items of a batch are.
LEMMA ItemKinds ==
  ASSUME NEW b \in Batches, NEW x \in Handlings[b]
  PROVE  /\ x.family \in Tracked \intersect Families
         /\ x.op \in {"clear", "set", "inc", "encode"}
         /\ x.op = "clear" => x.at[1] = 1 /\ x.family \in UnitFamilies
         /\ x.op = "encode" => x.at[1] = 4 /\ x.family \in Registered
         /\ IsWrite(x) =>
              \/ x = RecordScrape
              \/ \E i \in DOMAIN b : x \in RecordUnit(i, b[i]) /\ Recording(x, i, b[i])
<1>1. /\ x.family \in Tracked
      /\ \/ x \in NewBatch \/ x = RecordScrape \/ x \in Encode
         \/ \E i \in DOMAIN b : x \in RecordUnit(i, b[i])
  BY HandlingItems
<1>2. CASE x \in NewBatch
  <2>1. PICK k \in DOMAIN Cleared : x = Clear(k)
    BY <1>2 DEF NewBatch
  <2>2. x.at[1] = 1 /\ x.op = "clear" /\ x.family = Cleared[k]
    BY <2>1 DEF Clear, Item
  <2>3. x.family \in UnitFamilies
    BY <2>2 DEF UnitFamilies, ToSet
  <2>. QED  BY <1>1, <2>2, <2>3 DEF Families, IsWrite
<1>3. CASE x = RecordScrape
  BY <1>1, <1>3, ScrapeItem DEF Families, IsWrite
<1>4. CASE x \in Encode
  <2>1. PICK f \in Registered : \E k : x = Item(<<4, 0, 0, k>>, "encode", f, <<>>, 0)
    <3>1. "scrape_count" \in Registered
      BY DEF Registered, Families
    <3>. QED  BY <1>4, <3>1 DEF Encode
  <2>2. x.at[1] = 4 /\ x.op = "encode" /\ x.family = f
    BY <2>1 DEF Item
  <2>. QED  BY <1>1, <2>2 DEF Registered, IsWrite
<1>5. CASE \E i \in DOMAIN b : x \in RecordUnit(i, b[i])
  <2>1. PICK i \in DOMAIN b : x \in RecordUnit(i, b[i])
    BY <1>5
  <2>2. Recording(x, i, b[i])
    BY <2>1, UnitRecording
  <2>. QED  BY <1>1, <2>1, <2>2 DEF Recording, Families, IsWrite
<1>. QED  BY <1>1, <1>2, <1>3, <1>4, <1>5

\* Nothing is left out.
LEMMA ItemsPresent ==
  ASSUME NEW b \in Batches
  PROVE  /\ \A f \in UnitFamilies \intersect Tracked :
              \E x \in Handlings[b] : x.op = "clear" /\ x.family = f
         /\ \A f \in Registered \intersect Tracked :
              \E x \in Handlings[b] : x.op = "encode" /\ x.family = f
         /\ "scrape_count" \in Tracked => RecordScrape \in Handlings[b]
<1>1. ASSUME NEW f \in UnitFamilies \intersect Tracked
      PROVE  \E x \in Handlings[b] : x.op = "clear" /\ x.family = f
  <2>1. PICK k \in DOMAIN Cleared : f = Cleared[k]
    BY DEF UnitFamilies, ToSet
  <2>2. Clear(k) \in NewBatch /\ Clear(k).op = "clear" /\ Clear(k).family = f
    BY <2>1 DEF NewBatch, Clear, Item
  <2>. QED  BY <2>2, HandlingItems
<1>2. ASSUME NEW f \in Registered \intersect Tracked
      PROVE  \E x \in Handlings[b] : x.op = "encode" /\ x.family = f
  <2>1. \E x \in Encode : x.op = "encode" /\ x.family = f
    <3>1. CASE f = "scrape_count"
      <4>1. Item(<<4, 0, 0, 0>>, "encode", "scrape_count", <<>>, 0) \in Encode
        BY DEF Encode
      <4>. QED  BY <3>1, <4>1, ItemFields
    <3>2. CASE f # "scrape_count"
      <4>1. PICK k \in DOMAIN Cleared : f = Cleared[k]
        BY <3>2 DEF Registered, Families, UnitFamilies, ToSet
      <4>2. Item(<<4, 0, 0, k>>, "encode", Cleared[k], <<>>, 0) \in Encode
        BY <4>1 DEF Encode
      <4>. QED  BY <4>1, <4>2, ItemFields
    <3>. QED  BY <3>1, <3>2
  <2>. QED  BY <2>1, HandlingItems
<1>3. "scrape_count" \in Tracked => RecordScrape \in Handlings[b]
  BY ScrapeItem, HandlingItems
<1>. QED  BY <1>1, <1>2, <1>3

\* A handler records in a family with a label once.
LEMMA WrittenOnce ==
  ASSUME NEW b \in Batches, NEW x \in Handlings[b], NEW y \in Handlings[b],
         IsWrite(x), IsWrite(y), x.family = y.family, x.label = y.label
  PROVE  x = y
<1>1. CASE x = RecordScrape \/ y = RecordScrape
  BY <1>1, ItemKinds, ScrapeItem, ScrapeCountApart DEF Recording
<1>2. CASE x # RecordScrape /\ y # RecordScrape
  <2>1. PICK i \in DOMAIN b : x \in RecordUnit(i, b[i]) /\ Recording(x, i, b[i])
    BY <1>2, ItemKinds
  <2>2. PICK j \in DOMAIN b : y \in RecordUnit(j, b[j]) /\ Recording(y, j, b[j])
    BY <1>2, ItemKinds
  <2>3. b[i].name = b[j].name
    BY <2>1, <2>2 DEF Recording
  <2>4. i = j
    BY <2>3, BatchAssumption DEF BatchAssumption
  <2>. QED  BY <2>1, <2>2, <2>4, UnitOnce
<1>. QED  BY <1>1, <1>2

\* The stages of a handler: clear, record, count, encode.
LEMMA ItemStages ==
  ASSUME NEW b \in Batches, NEW x \in Handlings[b]
  PROVE  /\ x.at[1] \in 1 .. 4
         /\ x.op = "clear" <=> x.at[1] = 1
         /\ IsWrite(x) <=> x.at[1] \in {2, 3}
         /\ x.op = "encode" <=> x.at[1] = 4
  BY ItemKinds, ScrapeItem DEF Recording, IsWrite

LEMMA BeforeByStage ==
  ASSUME NEW p, NEW q, p[1] < q[1]
  PROVE  Before(p, q)
  BY DEF Before

LEMMA AppliedCases ==
  ASSUME NEW x, NEW family
  PROVE  /\ x.op = "clear" => Applied(x, family) = NoValues
         /\ x.op = "encode" => Applied(x, family) = family
         /\ x.op = "set" => Applied(x, family) = Stored(family, x.label, x.value)
         /\ x.op = "inc" =>
              Applied(x, family) =
                Stored(family, x.label,
                       ((IF x.label \in DOMAIN family THEN family[x.label] ELSE 0) + x.value)
                         % (U64Max + 1))
  BY DEF Applied

LEMMA StoredValues ==
  ASSUME NEW family, NEW label, NEW v
  PROVE  LET new == Stored(family, label, v)
         IN  /\ DOMAIN new = DOMAIN family \union {label}
             /\ new = [l \in DOMAIN new |-> new[l]]
             /\ new[label] = v
             /\ \A l \in DOMAIN family : l # label => new[l] = family[l]
  BY DEF Stored

LEMMA NoValuesEmpty == DOMAIN NoValues = {} /\ NoValues = [l \in DOMAIN NoValues |-> NoValues[l]]
  BY DEF NoValues

-----------------------------------------------------------------------------
(* The shape of the state.                                                 *)

IsFamily(m) == m = [l \in DOMAIN m |-> m[l]]

\* Widths included; a handler that has started has something left of what its
\* batch asks for.
TypeInv ==
  /\ DOMAIN metrics = Families /\ \A f \in Families : IsFamily(metrics[f])
  /\ \A f \in Gauges : \A l \in DOMAIN metrics[f] : metrics[f][l] \in 0 .. I64Max
  /\ \A f \in Counters : \A l \in DOMAIN metrics[f] : metrics[f][l] \in 0 .. U64Max
  /\ batch \in [Handlers -> Batches \union {<<>>}]
  /\ mates \in [Handlers -> SUBSET Handlers]
  /\ before \in [Handlers -> SUBSET Handlers]
  /\ DOMAIN todo = Handlers /\ DOMAIN body = Handlers
  /\ \A h \in Handlers : DOMAIN body[h] = Families /\ \A f \in Families : IsFamily(body[h][f])
  /\ \A h \in Handlers :
       IF Started(h) THEN batch[h] \in Batches /\ todo[h] \subseteq Handlings[batch[h]]
                     ELSE todo[h] = {}

\* Overlapping is mutual, and those that run now overlap.
MatesInv ==
  /\ \A h \in Handlers : Started(h) => h \in mates[h]
  /\ \A h \in Handlers : \A k \in mates[h] : Started(k) /\ h \in mates[k]
  /\ \A h, k \in Handlers : Running(h) /\ Running(k) => k \in mates[h]

\* A stage is done when a later one begins.
OrderInv ==
  \A h \in Handlers : Started(h) =>
    \A x \in todo[h], y \in Handlings[batch[h]] : x.at[1] < y.at[1] => y \in todo[h]

ShapeInv == TypeInv /\ MatesInv /\ OrderInv

\* Receive, with the batch that came: no other handler is disturbed, and those
\* that run become its mates.
Begins(h, b) ==
  /\ ~Started(h) /\ ~Running(h) /\ \A k \in Handlers : h \notin mates[k]
  /\ Started(h)' /\ batch'[h] = b /\ todo'[h] = Handlings[b]
  /\ mates'[h] = {h} \union {j \in Handlers : Running(j)}
  /\ \A k \in Handlers \ {h} :
       /\ batch'[k] = batch[k] /\ todo'[k] = todo[k]
       /\ mates'[k] = IF Running(k) THEN mates[k] \union {h} ELSE mates[k]
       /\ Started(k)' <=> Started(k)
       /\ Running(k)' <=> Running(k)
  /\ metrics' = metrics /\ body' = body /\ DOMAIN todo' = Handlers
  /\ batch' \in [Handlers -> Batches \union {<<>>}]
  /\ mates' \in [Handlers -> SUBSET Handlers]
  /\ before' \in [Handlers -> SUBSET Handlers]
  /\ before'[h] = {j \in Handlers : Done(j)}
  /\ \A k \in Handlers \ {h} : before'[k] = before[k]

\* Proceed, with the item that is done, of which the stage is the earliest left.
Does(h, x) ==
  /\ \A y \in todo[h] : ~(y.at[1] < x.at[1])
  /\ Started(h) /\ Running(h) /\ h \in mates[h]
  /\ batch[h] \in Batches /\ x \in Handlings[batch[h]] /\ x.family \in Families
  /\ DOMAIN metrics' = Families
  /\ \A f \in Families :
       metrics'[f] = IF f = x.family THEN Applied(x, metrics[f]) ELSE metrics[f]
  /\ DOMAIN body' = Handlers
  /\ \A k \in Handlers : DOMAIN body'[k] = Families
  /\ \A k \in Handlers, f \in Families :
       body'[k][f] = IF x.op = "encode" /\ k = h /\ f = x.family
                     THEN metrics[f] ELSE body[k][f]
  /\ DOMAIN todo' = Handlers
  /\ \A k \in Handlers : todo'[k] = IF k = h THEN todo[h] \ {x} ELSE todo[k]
  /\ batch' = batch /\ mates' = mates /\ before' = before

LEMMA ReceiveBegins ==
  ASSUME TypeInv, MatesInv, NEW h \in Handlers, Receive(h)
  PROVE  \E b \in Batches : Begins(h, b)
<1>1. PICK b \in Batches : batch' = [batch EXCEPT ![h] = b] /\ todo' = [todo EXCEPT ![h] = Handlings[b]]
  BY DEF Receive
<1>2. /\ ~Started(h) /\ metrics' = metrics /\ body' = body
      /\ mates' = [k \in Handlers |->
                     IF k = h THEN {h} \union {j \in Handlers : Running(j)}
                     ELSE IF Running(k) THEN mates[k] \union {h} ELSE mates[k]]
  BY DEF Receive
<1>3. batch'[h] = b /\ \A k \in Handlers \ {h} : batch'[k] = batch[k]
  BY <1>1 DEF TypeInv
<1>4. /\ todo'[h] = Handlings[b] /\ DOMAIN todo' = Handlers
      /\ \A k \in Handlers \ {h} : todo'[k] = todo[k]
  BY <1>1 DEF TypeInv
<1>5. /\ mates'[h] = {h} \union {j \in Handlers : Running(j)}
      /\ \A k \in Handlers \ {h} :
           mates'[k] = IF Running(k) THEN mates[k] \union {h} ELSE mates[k]
  BY <1>2
<1>6. batch' \in [Handlers -> Batches \union {<<>>}]
  BY <1>1 DEF TypeInv
<1>7. mates' \in [Handlers -> SUBSET Handlers]
  <2>1. \A k \in Handlers : mates[k] \subseteq Handlers
    BY DEF TypeInv
  <2>. QED  BY <1>2, <2>1
<1>8. ~Running(h) /\ \A k \in Handlers : h \notin mates[k]
  BY <1>2 DEF TypeInv, MatesInv, Running
<1>9. \A k \in Handlers \ {h} : (Started(k)' <=> Started(k)) /\ (Running(k)' <=> Running(k))
  <2>1. \A k \in Handlers \ {h} : Running(k) => Started(k)
    BY DEF TypeInv, Running
  <2>. QED  BY <2>1, <1>4, <1>5 DEF Started, Running
<1>10. Started(h)'
  BY <1>5 DEF Started
<1>11. /\ before' \in [Handlers -> SUBSET Handlers]
       /\ before'[h] = {j \in Handlers : Done(j)}
       /\ \A k \in Handlers \ {h} : before'[k] = before[k]
  BY DEF Receive, TypeInv
<1>. QED  BY <1>2, <1>3, <1>4, <1>5, <1>6, <1>7, <1>8, <1>9, <1>10, <1>11 DEF Begins

LEMMA ProceedDoes ==
  ASSUME TypeInv, MatesInv, NEW h \in Handlers, Proceed(h)
  PROVE  \E x \in todo[h] : Does(h, x)
<1>1. PICK x \in todo[h] :
        /\ \A y \in todo[h] : ~Before(y.at, x.at)
        /\ metrics' = [metrics EXCEPT ![x.family] = Applied(x, metrics[x.family])]
        /\ body' = IF x.op = "encode"
                   THEN [body EXCEPT ![h][x.family] = metrics[x.family]] ELSE body
        /\ todo' = [todo EXCEPT ![h] = todo[h] \ {x}]
        /\ UNCHANGED <<batch, mates, before>>
  BY DEF Proceed
<1>2. \A y \in todo[h] : ~(y.at[1] < x.at[1])
  BY <1>1, BeforeByStage
<1>3. Running(h) /\ Started(h) /\ h \in mates[h]
  BY DEF Running, TypeInv, MatesInv
<1>4. batch[h] \in Batches /\ x \in Handlings[batch[h]]
  BY <1>3 DEF TypeInv
<1>5. x.family \in Families
  BY <1>4, ItemKinds
<1>6. /\ DOMAIN metrics' = Families
      /\ \A f \in Families :
           metrics'[f] = IF f = x.family THEN Applied(x, metrics[f]) ELSE metrics[f]
  BY <1>1, <1>5 DEF TypeInv
<1>7. /\ DOMAIN body' = Handlers
      /\ \A k \in Handlers : DOMAIN body'[k] = Families
      /\ \A k \in Handlers, f \in Families :
           body'[k][f] = IF x.op = "encode" /\ k = h /\ f = x.family
                         THEN metrics[f] ELSE body[k][f]
  BY <1>1, <1>5 DEF TypeInv
<1>8. /\ DOMAIN todo' = Handlers
      /\ \A k \in Handlers : todo'[k] = IF k = h THEN todo[h] \ {x} ELSE todo[k]
  BY <1>1 DEF TypeInv
<1>. QED  BY <1>1, <1>2, <1>3, <1>4, <1>5, <1>6, <1>7, <1>8 DEF Does

LEMMA Steps ==
  ASSUME ShapeInv, [Next]_vars
  PROVE  \/ \E h \in Handlers, b \in Batches : Begins(h, b)
         \/ \E h \in Handlers : \E x \in todo[h] : Does(h, x)
         \/ UNCHANGED vars
<1>1. TypeInv /\ MatesInv
  BY DEF ShapeInv
<1>. QED  BY <1>1, ReceiveBegins, ProceedDoes DEF Next, AllDone

\* What started handlers record does not change.
LEMMA WritesKept ==
  ASSUME ShapeInv, [Next]_vars, NEW k \in Handlers, Started(k)
  PROVE  /\ Started(k)' /\ batch'[k] = batch[k] /\ mates[k] \subseteq mates'[k]
         /\ \A f : Writes(k, f)' = Writes(k, f)
<1>1. ASSUME NEW h \in Handlers, NEW b \in Batches, Begins(h, b)
      PROVE  Started(k)' /\ batch'[k] = batch[k] /\ mates[k] \subseteq mates'[k]
  BY <1>1 DEF Begins
<1>2. ASSUME NEW h \in Handlers, NEW x \in todo[h], Does(h, x)
      PROVE  Started(k)' /\ batch'[k] = batch[k] /\ mates[k] \subseteq mates'[k]
  BY <1>2 DEF Does, Started
<1>3. ASSUME UNCHANGED vars
      PROVE  Started(k)' /\ batch'[k] = batch[k] /\ mates[k] \subseteq mates'[k]
  <2>1. batch' = batch /\ mates' = mates
    BY <1>3 DEF vars
  <2>2. Started(k)' <=> Started(k)
    BY <2>1 DEF Started
  <2>3. batch'[k] = batch[k] /\ mates'[k] = mates[k]
    BY <2>1
  <2>. QED  BY <2>2, <2>3
<1>4. Started(k)' /\ batch'[k] = batch[k] /\ mates[k] \subseteq mates'[k]
  BY <1>1, <1>2, <1>3, Steps
<1>. QED  BY <1>4 DEF Writes

-----------------------------------------------------------------------------
LEMMA ShapeInit == ASSUME Init PROVE ShapeInv
<1>1. TypeInv
  <2>1. DOMAIN Nothing = Families /\ \A f \in Families : Nothing[f] = NoValues
    BY DEF Nothing
  <2>2. IsFamily(NoValues) /\ DOMAIN NoValues = {}
    BY NoValuesEmpty DEF IsFamily
  <2>3. Gauges \subseteq Families /\ Counters \subseteq Families
    BY UnitFamiliesAre DEF Gauges, Counters, Families
  <2>. QED  BY <2>1, <2>2, <2>3 DEF Init, TypeInv, Started
<1>2. MatesInv
  BY DEF Init, MatesInv, Started, Running
<1>3. OrderInv
  BY DEF Init, OrderInv, Started
<1>. QED  BY <1>1, <1>2, <1>3 DEF ShapeInv

LEMMA ModInRange ==
  ASSUME NEW n \in Nat
  PROVE  n % (U64Max + 1) \in 0 .. U64Max
  BY Bounds

\* An item keeps the widths of its family.
LEMMA AppliedType ==
  ASSUME NEW b \in Batches, NEW x \in Handlings[b], NEW family, IsFamily(family),
         x.family \in Gauges => \A l \in DOMAIN family : family[l] \in 0 .. I64Max,
         x.family \in Counters => \A l \in DOMAIN family : family[l] \in 0 .. U64Max
  PROVE  LET new == Applied(x, family)
         IN  /\ IsFamily(new)
             /\ x.family \in Gauges => \A l \in DOMAIN new : new[l] \in 0 .. I64Max
             /\ x.family \in Counters => \A l \in DOMAIN new : new[l] \in 0 .. U64Max
<1>. DEFINE new == Applied(x, family)
<1>1. CASE x.op = "clear"
  BY <1>1, AppliedCases, NoValuesEmpty DEF IsFamily
<1>2. CASE x.op = "encode"
  BY <1>2, AppliedCases
<1>3. CASE x.op = "set"
  <2>1. new = Stored(family, x.label, x.value)
    BY <1>3, AppliedCases
  <2>2. x.family \in Gauges /\ x.value \in 0 .. I64Max
    BY <1>3, ItemKinds, ScrapeItem DEF IsWrite, Recording
  <2>3. x.family \notin Counters
    BY <2>2 DEF Gauges
  <2>4. IsFamily(new) /\ \A l \in DOMAIN new : new[l] = x.value \/ (l \in DOMAIN family /\ new[l] = family[l])
    BY <2>1 DEF Stored, IsFamily
  <2>. HIDE DEF new
  <2>5. \A l \in DOMAIN new : new[l] \in 0 .. I64Max
    BY <2>2, <2>4
  <2>. QED  BY <2>2, <2>3, <2>4, <2>5 DEF new
<1>4. CASE x.op = "inc"
  <2>. DEFINE old == IF x.label \in DOMAIN family THEN family[x.label] ELSE 0
  <2>1. new = Stored(family, x.label, (old + x.value) % (U64Max + 1))
    BY <1>4, AppliedCases
  <2>2. x.family \in Counters /\ x.value \in 0 .. U64Max
    BY <1>4, ItemKinds, ScrapeItem, ScrapeCountApart, Bounds DEF IsWrite, Recording
  <2>3. x.family \notin Gauges
    BY <2>2 DEF Gauges
  <2>4. old \in 0 .. U64Max
    BY <2>2, Bounds
  <2>5. old + x.value \in Nat
    BY <2>2, <2>4, Bounds
  <2>6. (old + x.value) % (U64Max + 1) \in 0 .. U64Max
    BY <2>5, ModInRange
  <2>. HIDE DEF old
  <2>7. /\ IsFamily(new)
        /\ \A l \in DOMAIN new : \/ new[l] = (old + x.value) % (U64Max + 1)
                                 \/ l \in DOMAIN family /\ new[l] = family[l]
    BY <2>1 DEF Stored, IsFamily
  <2>. HIDE DEF new
  <2>8. \A l \in DOMAIN new : new[l] \in 0 .. U64Max
    BY <2>2, <2>6, <2>7
  <2>. QED  BY <2>2, <2>3, <2>7, <2>8 DEF new
<1>. QED  BY <1>1, <1>2, <1>3, <1>4, ItemKinds

LEMMA FamilyKinds == Gauges \subseteq Families /\ Counters \subseteq Families
  BY UnitFamiliesAre DEF Gauges, Counters, Families

LEMMA TypeStep == ASSUME ShapeInv, [Next]_vars PROVE TypeInv'
<1>0. TypeInv
  BY DEF ShapeInv
<1>1. ASSUME NEW h \in Handlers, NEW b \in Batches, Begins(h, b)
      PROVE  TypeInv'
  <2>1. ASSUME NEW k \in Handlers
        PROVE  (IF Started(k) THEN batch[k] \in Batches /\ todo[k] \subseteq Handlings[batch[k]]
                ELSE todo[k] = {})'
    <3>1. CASE k = h
      BY <1>1, <3>1 DEF Begins
    <3>2. CASE k # h
      BY <1>0, <1>1, <3>2 DEF Begins, TypeInv
    <3>. QED  BY <3>1, <3>2
  <2>2. /\ batch' \in [Handlers -> Batches \union {<<>>}]
        /\ mates' \in [Handlers -> SUBSET Handlers] /\ before' \in [Handlers -> SUBSET Handlers]
        /\ metrics' = metrics /\ body' = body /\ DOMAIN todo' = Handlers
    BY <1>1 DEF Begins
  <2>. QED  BY <1>0, <2>1, <2>2 DEF TypeInv
<1>2. ASSUME NEW h \in Handlers, NEW x \in todo[h], Does(h, x)
      PROVE  TypeInv'
  <2>1. ASSUME NEW f \in Families
        PROVE  /\ IsFamily(metrics'[f])
               /\ f \in Gauges => \A l \in DOMAIN metrics'[f] : metrics'[f][l] \in 0 .. I64Max
               /\ f \in Counters => \A l \in DOMAIN metrics'[f] : metrics'[f][l] \in 0 .. U64Max
    <3>0. /\ IsFamily(metrics[f])
          /\ f \in Gauges => \A l \in DOMAIN metrics[f] : metrics[f][l] \in 0 .. I64Max
          /\ f \in Counters => \A l \in DOMAIN metrics[f] : metrics[f][l] \in 0 .. U64Max
      BY <1>0 DEF TypeInv
    <3>1. CASE f = x.family
      <4>1. batch[h] \in Batches /\ x \in Handlings[batch[h]] /\ metrics'[f] = Applied(x, metrics[f])
        BY <1>2, <3>1 DEF Does
      <4>. QED  BY <4>1, <3>0, <3>1, AppliedType
    <3>2. CASE f # x.family
      <4>1. metrics'[f] = metrics[f]
        BY <1>2, <3>2 DEF Does
      <4>. QED  BY <4>1, <3>0
    <3>. QED  BY <3>1, <3>2
  <2>2. ASSUME NEW k \in Handlers, NEW f \in Families
        PROVE  IsFamily(body'[k][f])
    <3>1. body'[k][f] = metrics[f] \/ body'[k][f] = body[k][f]
      BY <1>2 DEF Does
    <3>. QED  BY <1>0, <3>1 DEF TypeInv
  <2>3. ASSUME NEW k \in Handlers
        PROVE  (IF Started(k) THEN batch[k] \in Batches /\ todo[k] \subseteq Handlings[batch[k]]
                ELSE todo[k] = {})'
    <3>1. todo'[k] \subseteq todo[k] /\ batch' = batch /\ mates' = mates
      BY <1>2 DEF Does
    <3>. QED  BY <1>0, <3>1 DEF TypeInv, Started
  <2>4. /\ DOMAIN metrics' = Families /\ DOMAIN body' = Handlers /\ DOMAIN todo' = Handlers
        /\ \A k \in Handlers : DOMAIN body'[k] = Families
        /\ batch' = batch /\ mates' = mates /\ before' = before
    BY <1>2 DEF Does
  <2>. QED  BY <1>0, <2>1, <2>2, <2>3, <2>4, FamilyKinds DEF TypeInv
<1>3. CASE UNCHANGED vars
  BY <1>0, <1>3 DEF vars, TypeInv, Started
<1>. QED  BY <1>1, <1>2, <1>3, Steps

LEMMA MatesStep == ASSUME ShapeInv, [Next]_vars PROVE MatesInv'
<1>0. TypeInv /\ MatesInv
  BY DEF ShapeInv
<1>1. ASSUME NEW h \in Handlers, NEW b \in Batches, Begins(h, b)
      PROVE  MatesInv'
  <2>1. ASSUME NEW k \in Handlers, Started(k)'
        PROVE  k \in mates'[k]
    <3>1. CASE k = h
      BY <1>1, <3>1 DEF Begins
    <3>2. CASE k # h
      BY <1>0, <1>1, <2>1, <3>2 DEF Begins, MatesInv
    <3>. QED  BY <3>1, <3>2
  <2>2. \A k \in Handlers : Running(k) => Started(k)
    BY <1>0 DEF TypeInv, Running
  <2>3. ASSUME NEW k \in Handlers, NEW j \in mates'[k]
        PROVE  Started(j)' /\ k \in mates'[j]
    <3>1. CASE k = h
      BY <1>1, <2>2, <2>3, <3>1 DEF Begins
    <3>2. CASE k # h /\ j = h
      BY <1>1, <2>3, <3>2 DEF Begins
    <3>3. CASE k # h /\ j # h
      <4>1. j \in mates[k] /\ j \in Handlers
        BY <1>0, <1>1, <2>3, <3>3 DEF Begins, TypeInv
      <4>2. Started(j) /\ k \in mates[j]
        BY <1>0, <4>1 DEF MatesInv
      <4>. QED  BY <1>1, <3>3, <4>1, <4>2 DEF Begins
    <3>. QED  BY <3>1, <3>2, <3>3
  <2>4. ASSUME NEW k \in Handlers, NEW j \in Handlers, Running(k)', Running(j)'
        PROVE  j \in mates'[k]
    <3>1. CASE k = h \/ j = h
      BY <1>1, <2>4, <3>1 DEF Begins
    <3>2. CASE k # h /\ j # h
      BY <1>0, <1>1, <2>4, <3>2 DEF Begins, MatesInv
    <3>. QED  BY <3>1, <3>2
  <2>. QED  BY <2>1, <2>3, <2>4 DEF MatesInv
<1>2. ASSUME NEW h \in Handlers, NEW x \in todo[h], Does(h, x)
      PROVE  MatesInv'
  <2>1. \A k \in Handlers : Running(k)' => Running(k)
    BY <1>2 DEF Does, Running
  <2>2. mates' = mates
    BY <1>2 DEF Does
  <2>. QED  BY <1>0, <2>1, <2>2 DEF MatesInv, Started
<1>3. CASE UNCHANGED vars
  BY <1>0, <1>3 DEF vars, MatesInv, Started, Running
<1>. QED  BY <1>1, <1>2, <1>3, Steps

LEMMA OrderStep == ASSUME ShapeInv, [Next]_vars PROVE OrderInv'
<1>0. OrderInv
  BY DEF ShapeInv
<1>1. ASSUME NEW h \in Handlers, NEW b \in Batches, Begins(h, b)
      PROVE  OrderInv'
  BY <1>0, <1>1 DEF Begins, OrderInv
<1>2. ASSUME NEW h \in Handlers, NEW x \in todo[h], Does(h, x)
      PROVE  OrderInv'
  <2>1. ASSUME NEW k \in Handlers, Started(k)', NEW y \in todo'[k],
               NEW z \in Handlings[batch'[k]], y.at[1] < z.at[1]
        PROVE  z \in todo'[k]
    <3>1. Started(k) /\ y \in todo[k] /\ z \in Handlings[batch[k]]
      BY <1>2, <2>1 DEF Does, Started
    <3>2. z \in todo[k]
      BY <1>0, <2>1, <3>1 DEF OrderInv
    <3>3. k = h => z # x
      BY <1>2, <2>1, <3>1 DEF Does
    <3>. QED  BY <1>2, <3>2, <3>3 DEF Does
  <2>. QED  BY <2>1 DEF OrderInv
<1>3. CASE UNCHANGED vars
  BY <1>0, <1>3 DEF vars, OrderInv, Started
<1>. QED  BY <1>1, <1>2, <1>3, Steps

LEMMA ShapeStep == ASSUME ShapeInv, [Next]_vars PROVE ShapeInv'
  BY TypeStep, MatesStep, OrderStep DEF ShapeInv

\* Values stay within the width of their metric, whatever batches come and
\* however handlers overlap (record.rs:5-33).
THEOREM RecorderTypes == Spec => []TypeOK
<1>1. Init => ShapeInv
  BY ShapeInit
<1>2. ShapeInv /\ [Next]_vars => ShapeInv'
  BY ShapeStep
<1>3. ShapeInv => TypeOK
  BY DEF ShapeInv, TypeInv, TypeOK
<1>. QED  BY <1>1, <1>2, <1>3, PTL DEF Spec

-----------------------------------------------------------------------------
(* Whose values are read.                                                  *)

ClearPending(h, f) == \E x \in todo[h] : x.op = "clear" /\ x.family = f
EncodePending(h, f) == \E x \in todo[h] : x.op = "encode" /\ x.family = f

\* Handler h has cleared the family and has still to read it.
Filled(h, f) == EncodePending(h, f) /\ ~ClearPending(h, f)

\* Among the writes W to family f is one of the label, and of a gauge's value.
Among(W, f, l, v) == \E x \in W : x.label = l /\ (f \in Gauges => v = x.value)

\* What is in the family was recorded by handlers that overlap with h.
Explained(h, f, m) == \A l \in DOMAIN m : \E k \in mates[h] : Among(Writes(k, f), f, l, m[l])

ValueInv ==
  \A h \in Handlers, f \in UnitFamilies :
    /\ Filled(h, f) => Explained(h, f, metrics[f])
    /\ Explained(h, f, body[h][f])

LEMMA BeginsFilled ==
  ASSUME NEW h \in Handlers, NEW b \in Batches, Begins(h, b),
         NEW g \in Handlers, NEW f \in UnitFamilies, Filled(g, f)'
  PROVE  g # h /\ Filled(g, f)
<1>1. g # h
  <2>. SUFFICES ASSUME g = h PROVE FALSE
    OBVIOUS
  <2>1. todo'[g] = Handlings[b]
    BY DEF Begins
  <2>2. PICK x \in Handlings[b] : x.op = "encode" /\ x.family = f
    BY <2>1 DEF Filled, EncodePending
  <2>3. f \in Tracked
    BY <2>2, ItemKinds
  <2>4. \E y \in Handlings[b] : y.op = "clear" /\ y.family = f
    BY <2>3, ItemsPresent
  <2>. QED  BY <2>1, <2>4 DEF Filled, ClearPending
<1>2. todo'[g] = todo[g]
  BY <1>1 DEF Begins
<1>. QED  BY <1>1, <1>2 DEF Filled, EncodePending, ClearPending

LEMMA DoesFilled ==
  ASSUME NEW h \in Handlers, NEW x \in todo[h], Does(h, x),
         NEW g \in Handlers, NEW f, Filled(g, f)', ~(x.op = "clear" /\ x.family = f)
  PROVE  Filled(g, f) /\ Running(g)
<1>1. todo'[g] = IF g = h THEN todo[h] \ {x} ELSE todo[g]
  BY DEF Does
<1>2. EncodePending(g, f)
  BY <1>1 DEF Filled, EncodePending
<1>3. ~ClearPending(g, f)
  BY <1>1 DEF Filled, ClearPending
<1>. QED  BY <1>2, <1>3 DEF Filled, EncodePending, Running

\* What is read has been cleared and recorded by its reader.
LEMMA EncodeFilled ==
  ASSUME TypeInv, NEW h \in Handlers, NEW x \in todo[h], Does(h, x), x.op = "encode"
  PROVE  /\ Filled(h, x.family)
         /\ \A y \in todo[h] : ~IsWrite(y)
<1>1. batch[h] \in Batches /\ todo[h] \subseteq Handlings[batch[h]]
  BY DEF Does, TypeInv
<1>2. \A y \in todo[h] : y.at[1] \in 1 .. 4 /\ ~(y.at[1] < x.at[1])
  BY <1>1, ItemStages DEF Does
<1>3. x.at[1] = 4
  BY <1>1, ItemStages
<1>4. \A y \in todo[h] : y.at[1] = 4
  BY <1>2, <1>3
<1>5. \A y \in todo[h] : y.op # "clear" /\ ~IsWrite(y)
  BY <1>1, <1>4, ItemStages
<1>. QED  BY <1>5 DEF Filled, EncodePending, ClearPending

LEMMA WriteOf ==
  ASSUME TypeInv, NEW h \in Handlers, NEW x \in todo[h], Does(h, x), IsWrite(x)
  PROVE  x \in Writes(h, x.family)
  BY DEF Does, Writes, IsWrite

\* What a write leaves in its family.
LEMMA WriteApplied ==
  ASSUME TypeInv, NEW h \in Handlers, NEW x \in todo[h], Does(h, x), IsWrite(x)
  PROVE  LET f == x.family
             m == metrics[f]
             old == IF x.label \in DOMAIN m THEN m[x.label] ELSE 0
         IN  /\ DOMAIN metrics'[f] = DOMAIN m \union {x.label}
             /\ \A l \in DOMAIN m : l # x.label => metrics'[f][l] = m[l]
             /\ f \in Gauges => metrics'[f][x.label] = x.value
             /\ f \in Counters =>
                  /\ x.value \in 0 .. U64Max
                  /\ metrics'[f][x.label] = (old + x.value) % (U64Max + 1)
<1>. DEFINE f == x.family
            m == metrics[f]
            old == IF x.label \in DOMAIN m THEN m[x.label] ELSE 0
<1>1. x \in Handlings[batch[h]] /\ batch[h] \in Batches
  BY DEF Does
<1>2. metrics'[f] = Applied(x, m)
  BY DEF Does
<1>3. CASE x.op = "set"
  <2>1. metrics'[f] = Stored(m, x.label, x.value)
    BY <1>2, <1>3, AppliedCases
  <2>2. f \in Gauges
    BY <1>1, <1>3, ItemKinds, ScrapeItem DEF Recording
  <2>3. f \notin Counters
    BY <2>2 DEF Gauges
  <2>4. /\ DOMAIN metrics'[f] = DOMAIN m \union {x.label}
        /\ metrics'[f][x.label] = x.value
        /\ \A l \in DOMAIN m : l # x.label => metrics'[f][l] = m[l]
    BY <2>1 DEF Stored
  <2>. QED  BY <2>2, <2>3, <2>4
<1>4. CASE x.op = "inc"
  <2>1. metrics'[f] = Stored(m, x.label, (old + x.value) % (U64Max + 1))
    BY <1>2, <1>4, AppliedCases
  <2>2. f \in Counters /\ x.value \in 0 .. U64Max
    BY <1>1, <1>4, ItemKinds, ScrapeItem, ScrapeCountApart, Bounds DEF IsWrite, Recording
  <2>3. f \notin Gauges
    BY <2>2 DEF Gauges
  <2>4. /\ DOMAIN metrics'[f] = DOMAIN m \union {x.label}
        /\ metrics'[f][x.label] = (old + x.value) % (U64Max + 1)
        /\ \A l \in DOMAIN m : l # x.label => metrics'[f][l] = m[l]
    BY <2>1 DEF Stored
  <2>. QED  BY <2>2, <2>3, <2>4
<1>. QED  BY <1>3, <1>4 DEF IsWrite

LEMMA ExplainedKept ==
  ASSUME ShapeInv, [Next]_vars, NEW h \in Handlers, NEW f, NEW l, NEW v,
         NEW k \in mates[h], Among(Writes(k, f), f, l, v)
  PROVE  k \in mates'[h] /\ Among(Writes(k, f)', f, l, v)
<1>1. k \in Handlers /\ Started(k) /\ Started(h)
  BY DEF ShapeInv, TypeInv, MatesInv, Started
<1>. QED  BY <1>1, WritesKept

LEMMA ValueStep == ASSUME ShapeInv, ValueInv, [Next]_vars PROVE ValueInv'
<1>0. TypeInv /\ MatesInv
  BY DEF ShapeInv
<1>k. ASSUME NEW g \in Handlers, NEW f, NEW m, Explained(g, f, m)
      PROVE  \A l \in DOMAIN m : \E k \in mates'[g] : Among(Writes(k, f)', f, l, m[l])
  <2>. SUFFICES ASSUME NEW l \in DOMAIN m
                PROVE  \E k \in mates'[g] : Among(Writes(k, f)', f, l, m[l])
    OBVIOUS
  <2>1. PICK k \in mates[g] : Among(Writes(k, f), f, l, m[l])
    BY <1>k DEF Explained
  <2>. QED  BY <2>1, ExplainedKept
<1>1. ASSUME NEW h \in Handlers, NEW b \in Batches, Begins(h, b),
             NEW g \in Handlers, NEW f \in UnitFamilies
      PROVE  /\ Filled(g, f)' => Explained(g, f, metrics[f])'
             /\ Explained(g, f, body[g][f])'
  <2>1. metrics' = metrics /\ body' = body
    BY <1>1 DEF Begins
  <2>2. Filled(g, f)' => Filled(g, f)
    BY <1>1, BeginsFilled
  <2>. QED  BY <2>1, <2>2, <1>k DEF ValueInv, Explained
<1>2. ASSUME NEW h \in Handlers, NEW x \in todo[h], Does(h, x),
             NEW g \in Handlers, NEW f \in UnitFamilies
      PROVE  /\ Filled(g, f)' => Explained(g, f, metrics[f])'
             /\ Explained(g, f, body[g][f])'
  <2>0. f \in Families
    BY DEF Families
  <2>1. ASSUME Filled(g, f)'
        PROVE  Explained(g, f, metrics[f])'
    <3>1. CASE x.op = "clear" /\ x.family = f
      <4>1. metrics'[f] = NoValues
        BY <1>2, <2>0, <3>1, AppliedCases DEF Does
      <4>. QED  BY <4>1, NoValuesEmpty DEF Explained
    <3>2. CASE ~(x.op = "clear" /\ x.family = f)
      <4>1. Filled(g, f) /\ Running(g)
        BY <1>2, <2>1, <3>2, DoesFilled
      <4>2. Explained(g, f, metrics[f])
        BY <4>1 DEF ValueInv
      <4>3. CASE metrics'[f] = metrics[f]
        BY <4>2, <4>3, <1>k DEF Explained
      <4>4. CASE IsWrite(x) /\ x.family = f
        <5>. SUFFICES ASSUME NEW l \in DOMAIN metrics'[f]
                      PROVE  \E k \in mates'[g] : Among(Writes(k, f)', f, l, metrics'[f][l])
          BY DEF Explained
        <5>1. CASE l = x.label
          <6>1. h \in mates[g]
            BY <1>0, <1>2, <4>1 DEF Does, MatesInv
          <6>2. Among(Writes(h, f), f, l, metrics'[f][l])
            BY <1>0, <1>2, <4>4, <5>1, WriteOf, WriteApplied DEF Among
          <6>. QED  BY <6>1, <6>2, ExplainedKept
        <5>2. CASE l # x.label
          <6>1. l \in DOMAIN metrics[f] /\ metrics'[f][l] = metrics[f][l]
            BY <1>0, <1>2, <4>4, <5>2, WriteApplied
          <6>2. PICK k \in mates[g] : Among(Writes(k, f), f, l, metrics'[f][l])
            BY <4>2, <6>1 DEF Explained
          <6>. QED  BY <6>2, ExplainedKept
        <5>. QED  BY <5>1, <5>2
      <4>5. metrics'[f] = metrics[f] \/ (IsWrite(x) /\ x.family = f)
        <5>1. x.op \in {"clear", "set", "inc", "encode"}
          BY <1>2, ItemKinds DEF Does
        <5>. QED  BY <1>2, <2>0, <3>2, <5>1, AppliedCases DEF Does, IsWrite
      <4>. QED  BY <4>3, <4>4, <4>5
    <3>. QED  BY <3>1, <3>2
  <2>2. Explained(g, f, body[g][f])'
    <3>1. CASE x.op = "encode" /\ g = h /\ f = x.family
      <4>1. Explained(g, f, metrics[f])
        BY <1>0, <1>2, <3>1, EncodeFilled DEF ValueInv
      <4>2. body'[g][f] = metrics[f]
        BY <1>2, <2>0, <3>1 DEF Does
      <4>. QED  BY <4>1, <4>2, <1>k DEF Explained
    <3>2. CASE ~(x.op = "encode" /\ g = h /\ f = x.family)
      <4>1. body'[g][f] = body[g][f]
        BY <1>2, <2>0, <3>2 DEF Does
      <4>2. Explained(g, f, body[g][f])
        BY DEF ValueInv
      <4>. QED  BY <4>1, <4>2, <1>k DEF Explained
    <3>. QED  BY <3>1, <3>2
  <2>. QED  BY <2>1, <2>2
<1>3. CASE UNCHANGED vars
  BY <1>3 DEF vars, ValueInv, Filled, EncodePending, ClearPending, Explained, Writes
<1>4. CASE ~ UNCHANGED vars
  BY <1>1, <1>2, <1>4, Steps DEF ValueInv
<1>. QED  BY <1>3, <1>4

LEMMA ValueInit == ASSUME Init PROVE ValueInv
<1>1. \A h \in Handlers, f \in UnitFamilies : DOMAIN body[h][f] = {} /\ todo[h] = {}
  BY NoValuesEmpty DEF Init, Nothing, Families
<1>. QED  BY <1>1 DEF ValueInv, Filled, EncodePending, Explained

LEMMA ValueAlways == Spec => [](ShapeInv /\ ValueInv)
<1>1. Init => ShapeInv /\ ValueInv
  BY ShapeInit, ValueInit
<1>2. ShapeInv /\ ValueInv /\ [Next]_vars => (ShapeInv /\ ValueInv)'
  BY ShapeStep, ValueStep
<1>. QED  BY <1>1, <1>2, PTL DEF Spec

\* What a handler records in a unit's family is of a unit of its batch.
LEMMA WritesOfUnits ==
  ASSUME TypeInv, NEW k \in Handlers, Started(k), NEW f \in UnitFamilies,
         NEW x \in Writes(k, f)
  PROVE  \E i \in DOMAIN batch[k] : Recording(x, i, batch[k][i])
<1>1. batch[k] \in Batches /\ x \in Handlings[batch[k]] /\ IsWrite(x) /\ x.family = f
  BY DEF TypeInv, Writes, IsWrite
<1>2. x # RecordScrape
  BY <1>1, ScrapeItem, ScrapeCountApart
<1>. QED  BY <1>1, <1>2, ItemKinds

\* However scrapes overlap, a scraper reads of no unit that neither its own
\* stats nor those of an overlapping scrape have (unit.rs:190-215).
THEOREM NothingStaleRead == Spec => []NothingStale
<1>1. ShapeInv /\ ValueInv => NothingStale
  <2>. SUFFICES ASSUME ShapeInv, ValueInv, NEW h \in Handlers, NEW f \in UnitFamilies,
                       NEW l \in DOMAIN body[h][f]
                PROVE  \E k \in mates[h] : l[1] \in UnitsOf(k)
    BY DEF NothingStale
  <2>1. PICK k \in mates[h] : Among(Writes(k, f), f, l, body[h][f][l])
    BY DEF ValueInv, Explained
  <2>2. PICK x \in Writes(k, f) : x.label = l
    BY <2>1 DEF Among
  <2>3. k \in Handlers /\ Started(k)
    BY DEF ShapeInv, TypeInv, MatesInv
  <2>4. PICK i \in DOMAIN batch[k] : Recording(x, i, batch[k][i])
    BY <2>3, WritesOfUnits DEF ShapeInv
  <2>5. l[1] = batch[k][i].name
    BY <2>2, <2>4 DEF Recording
  <2>. QED  BY <2>4, <2>5 DEF UnitsOf
<1>. QED  BY <1>1, ValueAlways, PTL

\* However scrapes overlap, a gauge that is read is one that one of them was
\* given, or i64::MAX for "no limit" (record.rs:5-25).
THEOREM GaugesAreUnblended == Spec => []GaugesUnblended
<1>1. ShapeInv /\ ValueInv => GaugesUnblended
  <2>. SUFFICES ASSUME ShapeInv, ValueInv, NEW h \in Handlers, NEW f \in Gauges,
                       NEW l \in DOMAIN body[h][f]
                PROVE  \E k \in mates[h] : \E i \in DOMAIN batch[k] :
                         LET d == batch[k][i]
                         IN  /\ d.name = l[1]
                             /\ \/ body[h][f][l] = Value(d, f)
                                \/ body[h][f][l] = I64Max /\ Value(d, f) = U64Max
    BY DEF GaugesUnblended
  <2>0. f \in UnitFamilies
    BY ScrapeCountApart DEF Gauges, Families
  <2>1. PICK k \in mates[h] : Among(Writes(k, f), f, l, body[h][f][l])
    BY <2>0 DEF ValueInv, Explained
  <2>2. PICK x \in Writes(k, f) : x.label = l /\ body[h][f][l] = x.value
    BY <2>1 DEF Among
  <2>3. k \in Handlers /\ Started(k)
    BY DEF ShapeInv, TypeInv, MatesInv
  <2>4. PICK i \in DOMAIN batch[k] : Recording(x, i, batch[k][i])
    BY <2>0, <2>3, WritesOfUnits DEF ShapeInv
  <2>5. x.family = f /\ x.op = "set"
    BY <2>4 DEF Writes, Recording, Gauges
  <2>. QED  BY <2>2, <2>4, <2>5 DEF Recording
<1>. QED  BY <1>1, ValueAlways, PTL

-----------------------------------------------------------------------------
(* Sums.                                                                   *)

\* The pairs that SumRecorded counts.
Pairs(S, f, l) ==
  {p \in S \X (1 .. U64Max) :
     \E item \in Writes(p[1], f) : item.label = l /\ p[2] <= item.value}

LEMMA PairsFinite ==
  ASSUME NEW S \in SUBSET Handlers, NEW f, NEW l
  PROVE  IsFiniteSet(Pairs(S, f, l)) /\ SumRecorded(S, f, l) = Cardinality(Pairs(S, f, l))
<1>1. IsFiniteSet(S)
  BY RecorderAssumption, FS_Subset DEF RecorderAssumption
<1>2. IsFiniteSet(1 .. U64Max)
  BY Bounds, FS_Interval
<1>3. IsFiniteSet(S \X (1 .. U64Max))
  BY <1>1, <1>2, FS_Product
<1>4. Pairs(S, f, l) \in SUBSET (S \X (1 .. U64Max))
  BY DEF Pairs
<1>. QED  BY <1>3, <1>4, FS_Subset DEF SumRecorded, Pairs

LEMMA UpTo == ASSUME NEW n \in Nat PROVE IsFiniteSet(1 .. n) /\ Cardinality(1 .. n) = n
  BY FS_Interval

LEMMA SumOfNone == ASSUME NEW f, NEW l PROVE SumRecorded({}, f, l) = 0
<1>1. Pairs({}, f, l) = {}
  BY DEF Pairs
<1>. QED  BY <1>1, FS_EmptySet DEF SumRecorded, Pairs

\* One more handler adds what it records.
LEMMA SumOfMore ==
  ASSUME TypeInv, NEW S \in SUBSET Handlers, NEW h \in Handlers, h \notin S, Started(h),
         NEW f, NEW x \in Writes(h, f), x.value \in 0 .. U64Max
  PROVE  /\ SumRecorded(S, f, x.label) \in Nat
         /\ SumRecorded(S \union {h}, f, x.label) = SumRecorded(S, f, x.label) + x.value
<1>. DEFINE l == x.label
            P == Pairs(S, f, l)
            Q == {h} \X (1 .. x.value)
<1>1. \A y \in Writes(h, f) : y.label = l => y = x
  BY WrittenOnce DEF TypeInv, Writes, IsWrite
<1>2. Pairs(S \union {h}, f, l) = P \union Q
  <2>1. ASSUME NEW p \in Pairs(S \union {h}, f, l)
        PROVE  p \in P \union Q
    <3>1. /\ p \in (S \union {h}) \X (1 .. U64Max)
          /\ \E y \in Writes(p[1], f) : y.label = l /\ p[2] <= y.value
      BY DEF Pairs
    <3>2. CASE p[1] \in S
      BY <3>1, <3>2 DEF Pairs
    <3>3. CASE p[1] = h
      <4>1. p[2] <= x.value
        BY <3>1, <3>3, <1>1
      <4>2. p[2] \in 1 .. x.value
        BY <4>1, <3>1, Bounds
      <4>. QED  BY <3>1, <3>3, <4>2
    <3>. QED  BY <3>1, <3>2, <3>3
  <2>2. P \subseteq Pairs(S \union {h}, f, l)
    BY DEF Pairs
  <2>3. ASSUME NEW p \in Q
        PROVE  p \in Pairs(S \union {h}, f, l)
    <3>1. p[1] = h /\ p[2] \in 1 .. x.value /\ p = <<p[1], p[2]>>
      OBVIOUS
    <3>2. p[2] \in 1 .. U64Max /\ p[2] <= x.value
      BY <3>1, Bounds
    <3>3. p \in (S \union {h}) \X (1 .. U64Max)
      BY <3>1, <3>2
    <3>. QED  BY <3>1, <3>2, <3>3 DEF Pairs
  <2>. QED  BY <2>1, <2>2, <2>3
<1>3. P \intersect Q = {}
  BY DEF Pairs
<1>4. IsFiniteSet(Q) /\ Cardinality(Q) = x.value
  <2>1. IsFiniteSet({h}) /\ Cardinality({h}) = 1
    BY FS_Singleton
  <2>2. x.value \in Nat
    BY Bounds
  <2>3. IsFiniteSet(1 .. x.value) /\ Cardinality(1 .. x.value) = x.value
    BY <2>2, UpTo
  <2>4. IsFiniteSet(Q) /\ Cardinality(Q) = 1 * x.value
    BY <2>1, <2>3, FS_Product
  <2>. QED  BY <2>2, <2>4
<1>5. IsFiniteSet(P) /\ SumRecorded(S, f, l) = Cardinality(P) /\ Cardinality(P) \in Nat
  BY PairsFinite, FS_CardinalityType
<1>6. Cardinality(P \union Q) = Cardinality(P) + Cardinality(Q)
  <2>1. Cardinality(P \union Q) = Cardinality(P) + Cardinality(Q) - Cardinality(P \intersect Q)
    BY <1>4, <1>5, FS_Union
  <2>2. Cardinality(P \intersect Q) = 0
    BY <1>3, FS_EmptySet
  <2>. HIDE DEF P, Q
  <2>. QED  BY <2>1, <2>2, <1>4, <1>5, Bounds
<1>7. SumRecorded(S \union {h}, f, l) = Cardinality(Pairs(S \union {h}, f, l))
  BY PairsFinite
<1>. QED  BY <1>2, <1>4, <1>5, <1>6, <1>7

LEMMA SmallMod ==
  ASSUME NEW n \in 0 .. U64Max
  PROVE  (0 + n) % (U64Max + 1) = n
  BY Bounds

LEMMA QuotientRemainder ==
  ASSUME NEW a \in Nat, NEW M \in Nat \ {0}
  PROVE  \E q \in Int : \E r \in 0 .. (M - 1) : a = M * q + r /\ a % M = r
<1>1. a = M * (a \div M) + (a % M)
  OBVIOUS
<1>2. a % M \in 0 .. (M - 1)
  OBVIOUS
<1>3. a \div M \in Int
  OBVIOUS
<1>. QED  BY <1>1, <1>2, <1>3, Zenon

LEMMA OneRemainder ==
  ASSUME NEW M \in Nat \ {0}, NEW p \in Int, NEW q \in Int,
         NEW r \in 0 .. (M - 1), NEW s \in 0 .. (M - 1), M * p + r = M * q + s
  PROVE  r = s
<1>1. M * (p - q) = s - r
  OBVIOUS
<1>2. CASE p - q >= 1
  <2>1. M * (p - q) >= M
    BY <1>2
  <2>. QED  BY <2>1, <1>1
<1>3. CASE q - p >= 1
  <2>1. M * (q - p) >= M
    BY <1>3
  <2>2. M * (q - p) = r - s
    OBVIOUS
  <2>. QED  BY <2>1, <2>2
<1>4. CASE p = q
  BY <1>1, <1>4
<1>5. p - q >= 1 \/ q - p >= 1 \/ p = q
  OBVIOUS
<1>. QED  BY <1>2, <1>3, <1>4, <1>5

\* Counters wrap, and so do their sums.
LEMMA ModAdd ==
  ASSUME NEW a \in Nat, NEW n \in Nat, NEW M \in Nat \ {0}
  PROVE  ((a % M) + n) % M = (a + n) % M
<1>1. PICK q \in Int, r \in 0 .. (M - 1) : a = M * q + r /\ a % M = r
  BY QuotientRemainder
<1>2. r + n \in Nat /\ a + n \in Nat
  OBVIOUS
<1>3. PICK p \in Int, s \in 0 .. (M - 1) : r + n = M * p + s /\ (r + n) % M = s
  BY <1>2, QuotientRemainder
<1>4. PICK o \in Int, t \in 0 .. (M - 1) : a + n = M * o + t /\ (a + n) % M = t
  BY <1>2, QuotientRemainder
<1>5. M * (q + p) + s = M * o + t
  <2>1. a = M * q + r /\ r + n = M * p + s /\ a + n = M * o + t
    BY <1>1, <1>3, <1>4
  <2>2. M * (q + p) = M * q + M * p
    OBVIOUS
  <2>. QED  BY <2>1, <2>2
<1>6. q + p \in Int
  OBVIOUS
<1>7. s = t
  BY <1>5, <1>6, OneRemainder
<1>. QED  BY <1>1, <1>3, <1>4, <1>7

\* The counter that h is about to read is the sum of what some of its mates have
\* recorded.
CounterSums(h, f) ==
  \A l \in DOMAIN metrics[f] : \E S \in SUBSET mates[h] :
    /\ \A k \in S : \A x \in Writes(k, f) : x.label = l => x \notin todo[k]
    /\ metrics[f][l] = SumRecorded(S, f, l) % (U64Max + 1)

BodySums(h, f) ==
  \A l \in DOMAIN body[h][f] : \E S \in SUBSET mates[h] :
    body[h][f][l] = SumRecorded(S, f, l) % (U64Max + 1)

UnitCounters == Counters \ {"scrape_count"}

SumInv ==
  \A h \in Handlers, f \in UnitCounters :
    (Filled(h, f) => CounterSums(h, f)) /\ BodySums(h, f)

LEMMA UnitCountersOfUnits == UnitCounters \subseteq UnitFamilies \intersect Families
  BY UnitFamiliesAre DEF UnitCounters, Counters, Families

LEMMA SumKept ==
  ASSUME ShapeInv, [Next]_vars, NEW h \in Handlers, NEW S \in SUBSET mates[h], NEW f, NEW l
  PROVE  S \in SUBSET mates'[h] /\ SumRecorded(S, f, l)' = SumRecorded(S, f, l)
<1>1. \A k \in S : k \in Handlers /\ Started(k)
  BY DEF ShapeInv, TypeInv, MatesInv
<1>2. S # {} => Started(h)
  BY DEF Started
<1>3. \A k \in S : Writes(k, f)' = Writes(k, f)
  BY <1>1, WritesKept
<1>4. S \in SUBSET mates'[h]
  BY <1>2, WritesKept
<1>5. \A p \in S \X (1 .. U64Max) : Writes(p[1], f)' = Writes(p[1], f)
  BY <1>3
<1>6. {p \in S \X (1 .. U64Max) :
         \E item \in Writes(p[1], f)' : item.label = l /\ p[2] <= item.value} =
      {p \in S \X (1 .. U64Max) :
         \E item \in Writes(p[1], f) : item.label = l /\ p[2] <= item.value}
  BY <1>5
<1>. QED  BY <1>4, <1>6 DEF SumRecorded

LEMMA SumStep == ASSUME ShapeInv, SumInv, [Next]_vars PROVE SumInv'
<1>0. TypeInv /\ MatesInv
  BY DEF ShapeInv
<1>1. ASSUME NEW h \in Handlers, NEW b \in Batches, Begins(h, b),
             NEW g \in Handlers, NEW f \in UnitCounters
      PROVE  (Filled(g, f)' => CounterSums(g, f)') /\ BodySums(g, f)'
  <2>1. metrics' = metrics /\ body' = body
    BY <1>1 DEF Begins
  <2>2. f \in UnitFamilies
    BY UnitCountersOfUnits
  <2>3. ASSUME Filled(g, f)', NEW l \in DOMAIN metrics[f]
        PROVE  \E S \in SUBSET mates'[g] :
                 /\ \A k \in S : \A x \in Writes(k, f)' : x.label = l => x \notin todo'[k]
                 /\ metrics[f][l] = SumRecorded(S, f, l)' % (U64Max + 1)
    <3>1. Filled(g, f)
      BY <1>1, <2>2, <2>3, BeginsFilled
    <3>2. PICK S \in SUBSET mates[g] :
            /\ \A k \in S : \A x \in Writes(k, f) : x.label = l => x \notin todo[k]
            /\ metrics[f][l] = SumRecorded(S, f, l) % (U64Max + 1)
      BY <2>3, <3>1 DEF SumInv, CounterSums
    <3>3. S \in SUBSET mates'[g] /\ SumRecorded(S, f, l)' = SumRecorded(S, f, l)
      BY SumKept
    <3>4. ASSUME NEW k \in S
          PROVE  Writes(k, f)' = Writes(k, f) /\ todo'[k] = todo[k]
      <4>1. k \in Handlers /\ Started(k)
        BY <1>0 DEF TypeInv, MatesInv
      <4>2. k # h
        BY <1>1, <4>1 DEF Begins
      <4>. QED  BY <1>1, <4>1, <4>2, WritesKept DEF Begins
    <3>. QED  BY <3>2, <3>3, <3>4
  <2>4. ASSUME NEW l \in DOMAIN body[g][f]
        PROVE  \E S \in SUBSET mates'[g] :
                 body[g][f][l] = SumRecorded(S, f, l)' % (U64Max + 1)
    <3>1. PICK S \in SUBSET mates[g] : body[g][f][l] = SumRecorded(S, f, l) % (U64Max + 1)
      BY DEF SumInv, BodySums
    <3>2. S \in SUBSET mates'[g] /\ SumRecorded(S, f, l)' = SumRecorded(S, f, l)
      BY SumKept
    <3>. QED  BY <3>1, <3>2
  <2>. QED  BY <2>1, <2>3, <2>4 DEF CounterSums, BodySums
<1>2. ASSUME NEW h \in Handlers, NEW x \in todo[h], Does(h, x),
             NEW g \in Handlers, NEW f \in UnitCounters
      PROVE  (Filled(g, f)' => CounterSums(g, f)') /\ BodySums(g, f)'
  <2>0. f \in UnitFamilies /\ f \in Families /\ f \in Counters
    BY UnitCountersOfUnits DEF UnitCounters
  <2>k. ASSUME NEW k \in Handlers, Started(k)
        PROVE  Writes(k, f)' = Writes(k, f) /\ todo'[k] \subseteq todo[k]
    BY <1>2, <2>k, WritesKept DEF Does
  <2>1. ASSUME Filled(g, f)', NEW l \in DOMAIN metrics'[f]
        PROVE  \E S \in SUBSET mates'[g] :
                 /\ \A k \in S : \A y \in Writes(k, f)' : y.label = l => y \notin todo'[k]
                 /\ metrics'[f][l] = SumRecorded(S, f, l)' % (U64Max + 1)
    <3>1. x.op \in {"clear", "set", "inc", "encode"}
      BY <1>2, ItemKinds DEF Does
    <3>2. ~(x.op = "clear" /\ x.family = f)
      <4>. SUFFICES ASSUME x.op = "clear" /\ x.family = f PROVE FALSE
        OBVIOUS
      <4>1. metrics'[f] = NoValues
        BY <1>2, <2>0, AppliedCases DEF Does
      <4>. QED  BY <2>1, <4>1, NoValuesEmpty
    <3>3. Filled(g, f) /\ Running(g)
      BY <1>2, <2>1, <3>2, DoesFilled
    <3>4. CASE IsWrite(x) /\ x.family = f /\ x.label = l
      <4>. DEFINE old == IF l \in DOMAIN metrics[f] THEN metrics[f][l] ELSE 0
      <4>1. x.value \in 0 .. U64Max /\ metrics'[f][l] = (old + x.value) % (U64Max + 1)
        BY <1>0, <1>2, <2>0, <3>4, WriteApplied
      <4>2. PICK S \in SUBSET mates[g] :
              /\ \A k \in S : \A y \in Writes(k, f) : y.label = l => y \notin todo[k]
              /\ old = SumRecorded(S, f, l) % (U64Max + 1)
        <5>1. CASE l \in DOMAIN metrics[f]
          BY <3>3, <5>1 DEF SumInv, CounterSums
        <5>2. CASE l \notin DOMAIN metrics[f]
          <6>1. old = 0 % (U64Max + 1)
            BY <5>2, Bounds
          <6>. QED  BY <6>1, SumOfNone
        <5>. QED  BY <5>1, <5>2
      <4>. HIDE DEF old
      <4>3. x \in Writes(h, f) /\ Started(h)
        BY <1>0, <1>2, <3>4, WriteOf DEF Does
      <4>4. h \notin S
        BY <3>4, <4>2, <4>3
      <4>5. S \in SUBSET Handlers /\ \A k \in S : Started(k)
        BY <1>0 DEF TypeInv, MatesInv
      <4>6. /\ SumRecorded(S, f, l) \in Nat
            /\ SumRecorded(S \union {h}, f, l) = SumRecorded(S, f, l) + x.value
        <5>1. /\ SumRecorded(S, f, x.label) \in Nat
              /\ SumRecorded(S \union {h}, f, x.label) = SumRecorded(S, f, x.label) + x.value
          <6>1. x.value \in 0 .. U64Max
            BY <4>1
          <6>2. S \in SUBSET Handlers
            BY <4>5
          <6>. QED  BY <1>0, <6>1, <6>2, <4>3, <4>4, SumOfMore
        <5>. QED  BY <3>4, <5>1
      <4>7. metrics'[f][l] = SumRecorded(S \union {h}, f, l) % (U64Max + 1)
        <5>. DEFINE a == SumRecorded(S, f, l)
                    n == x.value
                    M == U64Max + 1
        <5>1. a \in Nat /\ n \in Nat /\ M \in Nat \ {0}
          BY <4>1, <4>6, Bounds
        <5>2. metrics'[f][l] = ((a % M) + n) % M
          BY <4>1, <4>2
        <5>3. SumRecorded(S \union {h}, f, l) = a + n
          BY <4>6
        <5>. HIDE DEF a, n
        <5>4. ((a % M) + n) % M = (a + n) % M
          <6>. HIDE DEF M
          <6>. QED  BY <5>1, ModAdd
        <5>. QED  BY <5>2, <5>3, <5>4
      <4>8. h \in mates[g]
        BY <1>0, <1>2, <3>3 DEF Does, MatesInv
      <4>9. S \union {h} \in SUBSET mates[g]
        BY <4>8
      <4>10. /\ S \union {h} \in SUBSET mates'[g]
             /\ SumRecorded(S \union {h}, f, l)' = SumRecorded(S \union {h}, f, l)
        BY <4>9, SumKept
      <4>11. ASSUME NEW k \in S \union {h}, NEW y \in Writes(k, f)', y.label = l
             PROVE  y \notin todo'[k]
        <5>1. k \in Handlers /\ Started(k)
          BY <4>3, <4>5
        <5>2. y \in Writes(k, f) /\ todo'[k] \subseteq todo[k]
          BY <2>k, <5>1
        <5>3. CASE k # h
          BY <4>2, <4>11, <5>2, <5>3
        <5>4. CASE k = h
          <6>1. batch[h] \in Batches /\ x \in Handlings[batch[h]] /\ todo'[h] = todo[h] \ {x}
            BY <1>2 DEF Does
          <6>2. y \in Handlings[batch[h]] /\ IsWrite(y) /\ y.family = f
            BY <5>2, <5>4 DEF Writes, IsWrite
          <6>3. y = x
            BY <3>4, <4>11, <6>1, <6>2, WrittenOnce
          <6>. QED  BY <5>4, <6>1, <6>3
        <5>. QED  BY <5>3, <5>4
      <4>. QED  BY <4>7, <4>10, <4>11
    <3>5. CASE ~(IsWrite(x) /\ x.family = f /\ x.label = l)
      <4>1. l \in DOMAIN metrics[f] /\ metrics'[f][l] = metrics[f][l]
        <5>1. CASE x.family # f \/ x.op = "encode"
          <6>1. metrics'[f] = metrics[f]
            BY <1>2, <2>0, <5>1, AppliedCases DEF Does
          <6>. QED  BY <2>1, <6>1
        <5>2. CASE IsWrite(x) /\ x.family = f /\ x.label # l
          BY <1>0, <1>2, <2>1, <5>2, WriteApplied
        <5>. QED  BY <3>1, <3>2, <3>5, <5>1, <5>2 DEF IsWrite
      <4>2. PICK S \in SUBSET mates[g] :
              /\ \A k \in S : \A y \in Writes(k, f) : y.label = l => y \notin todo[k]
              /\ metrics[f][l] = SumRecorded(S, f, l) % (U64Max + 1)
        BY <3>3, <4>1 DEF SumInv, CounterSums
      <4>3. S \in SUBSET mates'[g] /\ SumRecorded(S, f, l)' = SumRecorded(S, f, l)
        BY SumKept
      <4>4. ASSUME NEW k \in S
            PROVE  Writes(k, f)' = Writes(k, f) /\ todo'[k] \subseteq todo[k]
        <5>1. k \in Handlers /\ Started(k)
          BY <1>0 DEF TypeInv, MatesInv
        <5>. QED  BY <2>k, <5>1
      <4>. QED  BY <4>1, <4>2, <4>3, <4>4
    <3>. QED  BY <3>4, <3>5
  <2>2. ASSUME NEW l \in DOMAIN body'[g][f]
        PROVE  \E S \in SUBSET mates'[g] :
                 body'[g][f][l] = SumRecorded(S, f, l)' % (U64Max + 1)
    <3>1. PICK S \in SUBSET mates[g] : body'[g][f][l] = SumRecorded(S, f, l) % (U64Max + 1)
      <4>1. CASE x.op = "encode" /\ g = h /\ f = x.family
        <5>1. Filled(g, f)
          BY <1>0, <1>2, <4>1, EncodeFilled
        <5>2. body'[g][f] = metrics[f]
          BY <1>2, <2>0, <4>1 DEF Does
        <5>. QED  BY <2>2, <5>1, <5>2 DEF SumInv, CounterSums
      <4>2. CASE ~(x.op = "encode" /\ g = h /\ f = x.family)
        <5>1. body'[g][f] = body[g][f]
          BY <1>2, <2>0, <4>2 DEF Does
        <5>. QED  BY <2>2, <5>1 DEF SumInv, BodySums
      <4>. QED  BY <4>1, <4>2
    <3>2. S \in SUBSET mates'[g] /\ SumRecorded(S, f, l)' = SumRecorded(S, f, l)
      BY SumKept
    <3>. QED  BY <3>1, <3>2
  <2>. QED  BY <2>1, <2>2 DEF CounterSums, BodySums
<1>3. CASE UNCHANGED vars
  <2>1. metrics' = metrics /\ body' = body /\ todo' = todo /\ mates' = mates /\ batch' = batch
    BY <1>3 DEF vars
  <2>2. \A k, f : Writes(k, f)' = Writes(k, f)
    BY <2>1 DEF Writes
  <2>3. \A S, f, l : SumRecorded(S, f, l)' = SumRecorded(S, f, l)
    BY <2>2 DEF SumRecorded
  <2>4. \A h, f : Filled(h, f)' <=> Filled(h, f)
    BY <2>1 DEF Filled, EncodePending, ClearPending
  <2>. QED  BY <2>1, <2>2, <2>3, <2>4 DEF SumInv, CounterSums, BodySums
<1>4. CASE ~ UNCHANGED vars
  BY <1>1, <1>2, <1>4, Steps DEF SumInv
<1>. QED  BY <1>3, <1>4

LEMMA SumInit == ASSUME Init PROVE SumInv
<1>1. \A h \in Handlers, f \in UnitCounters : DOMAIN body[h][f] = {} /\ todo[h] = {}
  BY NoValuesEmpty, UnitCountersOfUnits DEF Init, Nothing
<1>. QED  BY <1>1 DEF SumInv, Filled, EncodePending, BodySums

\* However scrapes overlap, a counter that is read is the sum of what some of
\* them recorded, each once, modulo its width (record.rs:27-33).
THEOREM CountersSumUp == Spec => []CountersAreSums
<1>1. Init => ShapeInv /\ SumInv
  BY ShapeInit, SumInit
<1>2. ShapeInv /\ SumInv /\ [Next]_vars => (ShapeInv /\ SumInv)'
  BY ShapeStep, SumStep
<1>3. ShapeInv /\ SumInv => CountersAreSums
  BY DEF SumInv, BodySums, CountersAreSums, UnitCounters
<1>. QED  BY <1>1, <1>2, <1>3, PTL DEF Spec

-----------------------------------------------------------------------------
(* A scrape that no other overlaps.                                        *)

\* The family holds the writes W and nothing else.
Exactly(m, W) ==
  /\ \A l : l \in DOMAIN m <=> \E x \in W : x.label = l
  /\ \A x \in W : m[x.label] = x.value

\* While handler h is alone, the families it has cleared hold what it has
\* written since, and its body what it wrote in all.
AloneInv ==
  \A h \in Handlers : mates[h] = {h} =>
    \A f \in UnitFamilies \intersect Tracked :
      /\ Filled(h, f) => Exactly(metrics[f], Writes(h, f) \ todo[h])
      /\ ~EncodePending(h, f) /\ f \in Registered => Exactly(body[h][f], Writes(h, f))

\* Families that are not tracked are not read.
UntrackedInv == \A h \in Handlers, f \in Families \ Tracked : DOMAIN body[h][f] = {}

LEMMA AloneStep == ASSUME ShapeInv, AloneInv, [Next]_vars PROVE AloneInv'
<1>0. TypeInv /\ MatesInv /\ OrderInv
  BY DEF ShapeInv
<1>1. ASSUME NEW h \in Handlers, NEW b \in Batches, Begins(h, b),
             NEW g \in Handlers, mates'[g] = {g}, NEW f \in UnitFamilies \intersect Tracked
      PROVE  /\ Filled(g, f)' => Exactly(metrics'[f], Writes(g, f)' \ todo'[g])
             /\ ~EncodePending(g, f)' /\ f \in Registered =>
                  Exactly(body'[g][f], Writes(g, f)')
  <2>1. CASE g = h
    <3>1. ~Filled(g, f)'
      BY <1>1, <2>1, BeginsFilled
    <3>2. f \in Registered => EncodePending(g, f)'
      BY <1>1, <2>1, ItemsPresent DEF Begins, EncodePending
    <3>. QED  BY <3>1, <3>2
  <2>2. CASE g # h
    <3>1. mates[g] = {g} /\ todo'[g] = todo[g] /\ metrics' = metrics /\ body' = body
      BY <1>0, <1>1, <2>2 DEF Begins, TypeInv
    <3>2. Writes(g, f)' = Writes(g, f)
      BY <3>1, WritesKept DEF Started
    <3>. QED  BY <3>1, <3>2 DEF AloneInv, Filled, EncodePending, ClearPending
  <2>. QED  BY <2>1, <2>2
<1>2. ASSUME NEW h \in Handlers, NEW x \in todo[h], Does(h, x),
             NEW g \in Handlers, mates'[g] = {g}, NEW f \in UnitFamilies \intersect Tracked
      PROVE  /\ Filled(g, f)' => Exactly(metrics'[f], Writes(g, f)' \ todo'[g])
             /\ ~EncodePending(g, f)' /\ f \in Registered =>
                  Exactly(body'[g][f], Writes(g, f)')
  <2>0. /\ f \in Families /\ mates[g] = {g} /\ Writes(g, f)' = Writes(g, f)
        /\ x.op \in {"clear", "set", "inc", "encode"} /\ x \in Handlings[batch[h]]
        /\ batch[h] \in Batches /\ Running(h) /\ todo'[h] = todo[h] \ {x}
        /\ g # h => todo'[g] = todo[g]
    BY <1>2, ItemKinds DEF Does, Families, Writes
  <2>1. ASSUME Filled(g, f)'
        PROVE  Exactly(metrics'[f], Writes(g, f) \ todo'[g])
    <3>1. CASE x.op = "clear" /\ x.family = f
      <4>1. DOMAIN metrics'[f] = {}
        BY <1>2, <2>0, <3>1, AppliedCases, NoValuesEmpty DEF Does
      <4>2. Running(g)
        BY <2>0, <2>1 DEF Filled, EncodePending, Running
      <4>3. g = h
        BY <1>0, <2>0, <4>2 DEF MatesInv
      <4>4. ASSUME NEW y \in Writes(g, f)
            PROVE  y \in todo'[g]
        <5>1. y \in Handlings[batch[h]] /\ IsWrite(y)
          BY <4>3 DEF Writes, IsWrite
        <5>2. x.at[1] = 1 /\ y.at[1] \in {2, 3}
          BY <2>0, <3>1, <5>1, ItemStages
        <5>3. y \in todo[h] /\ y # x
          BY <1>0, <1>2, <5>1, <5>2 DEF OrderInv, Does
        <5>. QED  BY <2>0, <4>3, <5>3
      <4>. QED  BY <4>1, <4>4 DEF Exactly
    <3>2. CASE ~(x.op = "clear" /\ x.family = f)
      <4>1. Filled(g, f) /\ Running(g)
        BY <1>2, <2>1, <3>2, DoesFilled
      <4>2. Exactly(metrics[f], Writes(g, f) \ todo[g])
        BY <2>0, <4>1 DEF AloneInv
      <4>3. g = h
        BY <1>0, <2>0, <4>1 DEF MatesInv
      <4>4. CASE IsWrite(x) /\ x.family = f
        <5>1. x \in Writes(g, f)
          BY <1>0, <1>2, <4>3, <4>4, WriteOf
        <5>2. Writes(g, f) \ todo'[g] = (Writes(g, f) \ todo[g]) \union {x}
          BY <2>0, <4>3, <5>1
        <5>3. \A y \in Writes(g, f) : y.label = x.label => y = x
          BY <2>0, <4>3, <4>4, WrittenOnce DEF Writes, IsWrite
        <5>4. x.label \notin DOMAIN metrics[f]
          BY <4>2, <4>3, <5>3 DEF Exactly
        <5>5. /\ DOMAIN metrics'[f] = DOMAIN metrics[f] \union {x.label}
              /\ \A l \in DOMAIN metrics[f] : metrics'[f][l] = metrics[f][l]
          BY <1>0, <1>2, <4>4, <5>4, WriteApplied
        <5>6. metrics'[f][x.label] = x.value
          <6>1. CASE f \in Gauges
            BY <1>0, <1>2, <4>4, <6>1, WriteApplied
          <6>2. CASE f \in Counters
            <7>1. x.value \in 0 .. U64Max /\ metrics'[f][x.label] = (0 + x.value) % (U64Max + 1)
              BY <1>0, <1>2, <4>4, <5>4, <6>2, WriteApplied
            <7>2. (0 + x.value) % (U64Max + 1) = x.value
              BY <7>1, SmallMod
            <7>. QED  BY <7>1, <7>2
          <6>. QED  BY <2>0, <6>1, <6>2 DEF Gauges
        <5>7. ASSUME NEW y \in Writes(g, f) \ todo'[g]
              PROVE  y.label \in DOMAIN metrics'[f] /\ metrics'[f][y.label] = y.value
          BY <4>2, <5>2, <5>5, <5>6 DEF Exactly
        <5>8. ASSUME NEW l \in DOMAIN metrics'[f]
              PROVE  \E y \in Writes(g, f) \ todo'[g] : y.label = l
          BY <4>2, <5>2, <5>5 DEF Exactly
        <5>. QED  BY <5>7, <5>8 DEF Exactly
      <4>5. CASE ~(IsWrite(x) /\ x.family = f)
        <5>1. metrics'[f] = metrics[f]
          BY <1>2, <2>0, <3>2, <4>5, AppliedCases DEF Does, IsWrite
        <5>2. Writes(g, f) \ todo'[g] = Writes(g, f) \ todo[g]
          BY <2>0, <4>3, <4>5 DEF Writes, IsWrite
        <5>. QED  BY <4>2, <5>1, <5>2
      <4>. QED  BY <4>4, <4>5
    <3>. QED  BY <3>1, <3>2
  <2>2. ASSUME ~EncodePending(g, f)', f \in Registered
        PROVE  Exactly(body'[g][f], Writes(g, f))
    <3>1. CASE x.op = "encode" /\ g = h /\ x.family = f
      <4>1. Filled(g, f) /\ \A y \in todo[g] : ~IsWrite(y)
        BY <1>0, <1>2, <3>1, EncodeFilled
      <4>2. Exactly(metrics[f], Writes(g, f) \ todo[g])
        BY <2>0, <4>1 DEF AloneInv
      <4>3. Writes(g, f) \ todo[g] = Writes(g, f)
        BY <4>1 DEF Writes, IsWrite
      <4>4. body'[g][f] = metrics[f]
        BY <1>2, <2>0, <3>1 DEF Does
      <4>. QED  BY <4>2, <4>3, <4>4
    <3>2. CASE ~(x.op = "encode" /\ g = h /\ x.family = f)
      <4>1. ~EncodePending(g, f)
        BY <2>0, <2>2, <3>2 DEF EncodePending
      <4>2. body'[g][f] = body[g][f]
        BY <1>2, <2>0, <3>2 DEF Does
      <4>. QED  BY <2>0, <2>2, <4>1, <4>2 DEF AloneInv
    <3>. QED  BY <3>1, <3>2
  <2>. QED  BY <2>0, <2>1, <2>2
<1>3. CASE UNCHANGED vars
  <2>1. metrics' = metrics /\ body' = body /\ todo' = todo /\ mates' = mates /\ batch' = batch
    BY <1>3 DEF vars
  <2>. QED  BY <2>1 DEF AloneInv, Filled, EncodePending, ClearPending, Writes
<1>4. CASE ~ UNCHANGED vars
  BY <1>1, <1>2, <1>4, Steps DEF AloneInv
<1>. QED  BY <1>3, <1>4

LEMMA UntrackedStep == ASSUME ShapeInv, UntrackedInv, [Next]_vars PROVE UntrackedInv'
<1>1. ASSUME NEW h \in Handlers, NEW b \in Batches, Begins(h, b)
      PROVE  UntrackedInv'
  BY <1>1 DEF Begins, UntrackedInv
<1>2. ASSUME NEW h \in Handlers, NEW x \in todo[h], Does(h, x)
      PROVE  UntrackedInv'
  <2>1. x.family \in Tracked
    BY <1>2, ItemKinds DEF Does
  <2>2. \A g \in Handlers, f \in Families \ Tracked : body'[g][f] = body[g][f]
    BY <1>2, <2>1 DEF Does
  <2>. QED  BY <2>2 DEF UntrackedInv
<1>3. CASE UNCHANGED vars
  BY <1>3 DEF vars, UntrackedInv
<1>. QED  BY <1>1, <1>2, <1>3, Steps

LEMMA AloneInit == ASSUME Init PROVE AloneInv /\ UntrackedInv
  BY NoValuesEmpty DEF Init, Nothing, AloneInv, UntrackedInv

\* A scrape that no other overlaps reads exactly what its handler recorded of
\* its own stats (router.rs:37-48).
THEOREM AloneReadsItsOwn == Spec => []AloneReadsOwn
<1>1. Init => ShapeInv /\ AloneInv /\ UntrackedInv
  BY ShapeInit, AloneInit
<1>2. ShapeInv /\ AloneInv /\ UntrackedInv /\ [Next]_vars =>
        (ShapeInv /\ AloneInv /\ UntrackedInv)'
  BY ShapeStep, AloneStep, UntrackedStep
<1>3. ShapeInv /\ AloneInv /\ UntrackedInv => AloneReadsOwn
  <2>. SUFFICES ASSUME ShapeInv, AloneInv, UntrackedInv,
                       NEW h \in Handlers, Done(h), mates[h] = {h},
                       NEW f \in Registered \ {"scrape_count"}
                PROVE  body[h][f] = Own(h, f)
    BY DEF AloneReadsOwn
  <2>0. f \in UnitFamilies /\ f \in Families /\ TypeInv
    BY DEF Registered, Families, ShapeInv
  <2>1. Exactly(body[h][f], Writes(h, f))
    <3>1. CASE f \in Tracked
      BY <2>0, <3>1 DEF AloneInv, EncodePending, Done, Running
    <3>2. CASE f \notin Tracked
      <4>1. DOMAIN body[h][f] = {}
        BY <2>0, <3>2 DEF UntrackedInv
      <4>2. Writes(h, f) = {}
        BY <2>0, <3>2, ItemKinds DEF Writes, TypeInv, Done
      <4>. QED  BY <4>1, <4>2 DEF Exactly
    <3>. QED  BY <3>1, <3>2
  <2>2. \A x, y \in Writes(h, f) : x.label = y.label => x = y
    BY <2>0, WrittenOnce DEF Writes, IsWrite, TypeInv, Done
  <2>3. DOMAIN body[h][f] = {x.label : x \in Writes(h, f)}
    BY <2>1 DEF Exactly
  <2>4. ASSUME NEW l \in DOMAIN body[h][f]
        PROVE  body[h][f][l] = (CHOOSE x \in Writes(h, f) : x.label = l).value
    <3>1. PICK x \in Writes(h, f) : x.label = l
      BY <2>1 DEF Exactly
    <3>2. (CHOOSE y \in Writes(h, f) : y.label = l) = x
      BY <2>2, <3>1
    <3>. QED  BY <2>1, <3>1, <3>2 DEF Exactly
  <2>5. IsFamily(body[h][f])
    BY <2>0 DEF TypeInv
  <2>. DEFINE labels == {x.label : x \in Writes(h, f)}
              m == body[h][f]
              own(l) == (CHOOSE x \in Writes(h, f) : x.label = l).value
  <2>6. Own(h, f) = [l \in labels |-> own(l)]
    BY DEF Own
  <2>7. m = [l \in labels |-> m[l]] /\ \A l \in labels : m[l] = own(l)
    BY <2>3, <2>4, <2>5 DEF IsFamily
  <2>. HIDE DEF labels, m, own
  <2>8. m = Own(h, f)
    BY <2>6, <2>7
  <2>. QED  BY <2>8 DEF m
<1>. QED  BY <1>1, <1>2, <1>3, PTL DEF Spec

-----------------------------------------------------------------------------
(* The number of scrapes.                                                  *)

\* The handlers that have counted themselves.
Counted == {h \in Handlers : Started(h) /\ RecordScrape \notin todo[h]}

\* Handler h has read the count, and what it read.
HasRead(h) == Started(h) /\ ~EncodePending(h, "scrape_count")
CountRead(h) == body[h]["scrape_count"][<<>>]

\* Handler h was done when k began.
Precedes(h, k) ==
  /\ Done(h)
  /\ k \in Counted => CountRead(h) < Cardinality(Counted)
  /\ HasRead(k) => CountRead(h) < CountRead(k)

\* The family holds the number of handlers that have counted themselves.
CountedInv ==
  LET m == metrics["scrape_count"]
  IN  /\ Counted = {} => DOMAIN m = {}
      /\ Counted # {} => <<>> \in DOMAIN m /\ m[<<>>] = Cardinality(Counted)

ReadInv ==
  \A h \in Handlers : HasRead(h) =>
    h \in Counted /\ CountRead(h) \in Nat /\ CountRead(h) <= Cardinality(Counted)

PrecedeInv ==
  \A k \in Handlers : Started(k) => \A h \in before[k] : Precedes(h, k)

CountInv == "scrape_count" \in Tracked => CountedInv /\ ReadInv /\ PrecedeInv

LEMMA CountedSize ==
  /\ IsFiniteSet(Counted) /\ Cardinality(Counted) \in Nat
  /\ Cardinality(Counted) <= U64Max
  /\ \A h \in Handlers : h \notin Counted =>
        /\ Cardinality(Counted \union {h}) = Cardinality(Counted) + 1
        /\ Cardinality(Counted) + 1 <= U64Max
<1>1. IsFiniteSet(Handlers) /\ Cardinality(Handlers) <= U64Max
  BY RecorderAssumption DEF RecorderAssumption
<1>2. Cardinality(Handlers) \in Nat
  BY <1>1, FS_CardinalityType
<1>3. ASSUME NEW S \in SUBSET Handlers
      PROVE  IsFiniteSet(S) /\ Cardinality(S) \in Nat /\ Cardinality(S) <= U64Max
  <2>1. IsFiniteSet(S) /\ Cardinality(S) <= Cardinality(Handlers)
    BY <1>1, FS_Subset
  <2>2. Cardinality(S) \in Nat
    BY <2>1, FS_CardinalityType
  <2>. QED  BY <1>1, <1>2, <2>1, <2>2, Bounds
<1>4. Counted \in SUBSET Handlers
  BY DEF Counted
<1>5. ASSUME NEW h \in Handlers, h \notin Counted
      PROVE  /\ Cardinality(Counted \union {h}) = Cardinality(Counted) + 1
             /\ Cardinality(Counted) + 1 <= U64Max
  <2>1. IsFiniteSet(Counted)
    BY <1>3, <1>4
  <2>2. Cardinality(Counted \union {h}) = Cardinality(Counted) + 1
    BY <1>5, <2>1, FS_AddElement
  <2>3. Counted \union {h} \in SUBSET Handlers
    BY <1>4
  <2>4. Cardinality(Counted \union {h}) <= U64Max
    BY <1>3, <2>3
  <2>. QED  BY <2>2, <2>4
<1>. QED  BY <1>3, <1>4, <1>5

LEMMA EncodeAfterCount ==
  ASSUME ShapeInv, NEW h \in Handlers, Started(h), "scrape_count" \in Tracked,
         RecordScrape \in todo[h]
  PROVE  EncodePending(h, "scrape_count")
<1>1. batch[h] \in Batches /\ RecordScrape \in Handlings[batch[h]]
  BY DEF ShapeInv, TypeInv
<1>2. "scrape_count" \in Registered
  BY UnitFamiliesAre DEF Registered, Families
<1>3. PICK y \in Handlings[batch[h]] : y.op = "encode" /\ y.family = "scrape_count"
  BY <1>1, <1>2, ItemsPresent
<1>4. RecordScrape.at[1] = 3 /\ y.at[1] = 4
  BY <1>1, <1>3, ItemStages, ScrapeItem
<1>5. y \in todo[h]
  BY <1>1, <1>4 DEF ShapeInv, OrderInv
<1>. QED  BY <1>3, <1>5 DEF EncodePending

\* Only RecordScrape writes to the family.
LEMMA ScrapeCountKept ==
  ASSUME NEW h \in Handlers, NEW x \in todo[h], Does(h, x), x # RecordScrape
  PROVE  metrics'["scrape_count"] = metrics["scrape_count"]
<1>1. "scrape_count" \in Families
  BY DEF Families
<1>2. CASE x.family # "scrape_count"
  BY <1>1, <1>2 DEF Does
<1>3. CASE x.family = "scrape_count"
  <2>1. batch[h] \in Batches /\ x \in Handlings[batch[h]]
    BY DEF Does
  <2>2. x.op = "encode"
    BY <1>3, <2>1, ItemKinds, ScrapeCountApart DEF IsWrite, Recording
  <2>3. metrics'["scrape_count"] = Applied(x, metrics["scrape_count"])
    BY <1>1, <1>3 DEF Does
  <2>. QED  BY <2>2, <2>3, AppliedCases
<1>. QED  BY <1>2, <1>3

LEMMA CountBegins ==
  ASSUME ShapeInv, CountedInv, ReadInv, PrecedeInv, "scrape_count" \in Tracked,
         NEW g \in Handlers, NEW b \in Batches, Begins(g, b)
  PROVE  (CountedInv /\ ReadInv /\ PrecedeInv)'
<1>1. RecordScrape \in todo'[g] /\ EncodePending(g, "scrape_count")'
  <2>1. "scrape_count" \in Registered
    BY UnitFamiliesAre DEF Registered, Families
  <2>. QED  BY <2>1, ItemsPresent DEF Begins, EncodePending
<1>2. ~Started(g) /\ metrics' = metrics /\ body' = body
  BY DEF Begins
<1>3. \A k \in Handlers \ {g} :
        /\ todo'[k] = todo[k]
        /\ Started(k)' <=> Started(k)
        /\ Running(k)' <=> Running(k)
  BY DEF Begins
<1>4. Counted' = Counted
  BY <1>1, <1>2, <1>3 DEF Counted
<1>5. g \notin Counted
  BY <1>2 DEF Counted
<1>6. /\ ~HasRead(g)' /\ \A k \in Handlers \ {g} : HasRead(k)' <=> HasRead(k)
      /\ \A k \in Handlers \ {g} : Done(k)' <=> Done(k)
      /\ \A k \in Handlers : CountRead(k)' = CountRead(k)
  BY <1>1, <1>2, <1>3 DEF HasRead, EncodePending, Done, CountRead
<1>7. CountedInv'
  BY <1>2, <1>4 DEF CountedInv
<1>8. ReadInv'
  BY <1>4, <1>6 DEF ReadInv
<1>9. ASSUME NEW k \in Handlers, Started(k)', NEW h \in before'[k]
      PROVE  Precedes(h, k)'
  <2>0. h \in Handlers /\ ~Done(g)
    BY <1>2, <1>9 DEF Begins, Done
  <2>1. CASE k = g
    <3>1. Done(h) /\ h # g
      BY <1>9, <2>0, <2>1 DEF Begins
    <3>. QED  BY <1>4, <1>5, <1>6, <2>0, <2>1, <3>1 DEF Precedes
  <2>2. CASE k # g
    <3>1. Started(k) /\ h \in before[k]
      BY <1>3, <1>9, <2>2 DEF Begins
    <3>2. Precedes(h, k) /\ h # g
      BY <2>0, <3>1 DEF PrecedeInv, Precedes
    <3>. QED  BY <1>4, <1>6, <2>0, <2>2, <3>2 DEF Precedes
  <2>. QED  BY <2>1, <2>2
<1>10. PrecedeInv'
  BY <1>9 DEF PrecedeInv
<1>. QED  BY <1>7, <1>8, <1>10

LEMMA CountDoes ==
  ASSUME ShapeInv, CountedInv, ReadInv, PrecedeInv, "scrape_count" \in Tracked,
         NEW g \in Handlers, NEW x \in todo[g], Does(g, x)
  PROVE  (CountedInv /\ ReadInv /\ PrecedeInv)'
<1>0. /\ "scrape_count" \in Families /\ before' = before /\ Started(g) /\ Running(g)
      /\ \A k \in Handlers : before[k] \subseteq Handlers
      /\ \A k \in Handlers : (Started(k)' <=> Started(k)) /\ (Done(k) => Done(k)' /\ k # g)
  BY DEF Families, Does, Started, Done, Running, ShapeInv, TypeInv
<1>1. \A k \in Handlers : todo'[k] = IF k = g THEN todo[g] \ {x} ELSE todo[k]
  BY DEF Does
<1>2. \A k \in Handlers \ {g} : (HasRead(k)' <=> HasRead(k)) /\ CountRead(k)' = CountRead(k)
  BY <1>0, <1>1 DEF HasRead, EncodePending, CountRead, Does
<1>3. CASE x = RecordScrape
  <2>1. g \notin Counted /\ Counted' = Counted \union {g}
    BY <1>0, <1>1, <1>3 DEF Counted
  <2>. DEFINE n == Cardinality(Counted)
  <2>2. n \in Nat /\ Cardinality(Counted)' = n + 1 /\ n + 1 <= U64Max
    BY <2>1, CountedSize
  <2>3. ~HasRead(g) /\ ~HasRead(g)'
    <3>1. EncodePending(g, "scrape_count")
      BY <1>0, <1>3, EncodeAfterCount
    <3>2. PICK y \in todo[g] : y.op = "encode" /\ y.family = "scrape_count"
      BY <3>1 DEF EncodePending
    <3>3. y \in todo'[g]
      BY <1>1, <1>3, <3>2, ScrapeItem
    <3>. QED  BY <3>1, <3>2, <3>3 DEF HasRead, EncodePending
  <2>. HIDE DEF n
  <2>4. CountedInv'
    <3>. DEFINE m == metrics["scrape_count"]
                old == IF <<>> \in DOMAIN m THEN m[<<>>] ELSE 0
    <3>1. metrics'["scrape_count"] = Stored(m, <<>>, (old + 1) % (U64Max + 1))
      <4>1. metrics'["scrape_count"] = Applied(x, m)
        BY <1>0, <1>3, ScrapeItem DEF Does
      <4>. QED  BY <4>1, <1>3, ScrapeItem, AppliedCases
    <3>2. old = n
      <4>1. CASE Counted = {}
        BY <4>1, FS_EmptySet DEF CountedInv, n
      <4>2. CASE Counted # {}
        BY <4>2 DEF CountedInv, n
      <4>. QED  BY <4>1, <4>2
    <3>. HIDE DEF m, old
    <3>3. (old + 1) % (U64Max + 1) = n + 1
      BY <2>2, <3>2, SmallMod
    <3>. DEFINE new == metrics'["scrape_count"]
    <3>4. <<>> \in DOMAIN new /\ new[<<>>] = n + 1
      <4>1. new = Stored(m, <<>>, n + 1)
        BY <3>1, <3>3
      <4>2. <<>> \in DOMAIN new
        BY <4>1 DEF Stored
      <4>. HIDE DEF new
      <4>3. new[<<>>] = n + 1
        BY <4>1, <4>2 DEF Stored
      <4>. QED  BY <4>2, <4>3
    <3>. QED  BY <2>1, <2>2, <3>4 DEF CountedInv
  <2>5. ASSUME NEW h \in Handlers, HasRead(h)'
        PROVE  /\ h \in Counted' /\ CountRead(h)' \in Nat /\ CountRead(h)' <= n
               /\ CountRead(h)' <= Cardinality(Counted)'
    <3>1. h # g /\ HasRead(h) /\ CountRead(h)' = CountRead(h)
      BY <1>2, <2>3, <2>5
    <3>2. h \in Counted /\ CountRead(h) \in Nat /\ CountRead(h) <= n
      BY <3>1 DEF ReadInv, n
    <3>. QED  BY <2>1, <2>2, <3>1, <3>2
  <2>6. ASSUME NEW h \in Handlers, NEW k \in Handlers, Precedes(h, k)
        PROVE  Precedes(h, k)'
    <3>1. Done(h)' /\ h # g /\ HasRead(h)'
      BY <1>0, <2>6 DEF Precedes, Done, HasRead, EncodePending, Running
    <3>2. CountRead(h)' \in Nat /\ CountRead(h)' <= n /\ CountRead(h)' = CountRead(h)
      BY <1>2, <2>5, <3>1
    <3>3. CountRead(h)' < Cardinality(Counted)'
      BY <2>2, <3>2
    <3>4. HasRead(k)' => CountRead(h)' < CountRead(k)'
      BY <1>2, <2>3, <2>6, <3>2 DEF Precedes
    <3>. QED  BY <3>1, <3>3, <3>4 DEF Precedes
  <2>7. PrecedeInv'
    BY <1>0, <2>6 DEF PrecedeInv
  <2>. QED  BY <2>4, <2>5, <2>7 DEF ReadInv
<1>4. CASE x # RecordScrape
  <2>1. Counted' = Counted /\ metrics'["scrape_count"] = metrics["scrape_count"]
    BY <1>0, <1>1, <1>4, ScrapeCountKept DEF Counted
  <2>2. CountedInv'
    BY <2>1 DEF CountedInv
  <2>3. CASE x.op = "encode" /\ x.family = "scrape_count"
    <3>1. ~HasRead(g) /\ g \in Counted
      <4>1. x \in Handlings[batch[g]] /\ batch[g] \in Batches
        BY DEF Does
      <4>2. x.at[1] = 4 /\ RecordScrape.at[1] = 3
        BY <2>3, <4>1, ItemStages, ScrapeItem
      <4>3. RecordScrape \notin todo[g]
        BY <4>2 DEF Does
      <4>. QED  BY <1>0, <2>3, <4>3 DEF HasRead, EncodePending, Counted
    <3>2. CountRead(g)' = Cardinality(Counted)
      <4>1. body'[g]["scrape_count"] = metrics["scrape_count"]
        BY <1>0, <2>3 DEF Does
      <4>2. metrics["scrape_count"][<<>>] = Cardinality(Counted)
        BY <3>1 DEF CountedInv
      <4>. QED  BY <4>1, <4>2 DEF CountRead
    <3>3. ReadInv'
      BY <1>2, <2>1, <3>1, <3>2, CountedSize DEF ReadInv
    <3>4. ASSUME NEW h \in Handlers, NEW k \in Handlers, Precedes(h, k)
          PROVE  Precedes(h, k)'
      <4>1. Done(h)' /\ h # g
        BY <1>0, <3>4 DEF Precedes
      <4>2. CASE k = g
        BY <1>2, <2>1, <3>1, <3>2, <3>4, <4>1, <4>2 DEF Precedes
      <4>3. CASE k # g
        BY <1>2, <2>1, <3>4, <4>1, <4>3 DEF Precedes
      <4>. QED  BY <4>2, <4>3
    <3>5. PrecedeInv'
      BY <1>0, <3>4 DEF PrecedeInv
    <3>. QED  BY <2>2, <3>3, <3>5
  <2>4. CASE ~(x.op = "encode" /\ x.family = "scrape_count")
    <3>1. \A k \in Handlers : (HasRead(k)' <=> HasRead(k)) /\ CountRead(k)' = CountRead(k)
      <4>1. HasRead(g)' <=> HasRead(g)
        BY <1>0, <1>1, <2>4 DEF HasRead, EncodePending
      <4>2. CountRead(g)' = CountRead(g)
        BY <1>0, <2>4 DEF CountRead, Does
      <4>. QED  BY <1>2, <4>1, <4>2
    <3>2. ReadInv'
      BY <2>1, <3>1 DEF ReadInv
    <3>3. \A h, k \in Handlers : Precedes(h, k) => Precedes(h, k)'
      BY <1>0, <2>1, <3>1 DEF Precedes
    <3>4. PrecedeInv'
      BY <1>0, <3>3 DEF PrecedeInv
    <3>. QED  BY <2>2, <3>2, <3>4
  <2>. QED  BY <2>3, <2>4
<1>. QED  BY <1>3, <1>4

LEMMA CountStep == ASSUME ShapeInv, CountInv, [Next]_vars PROVE CountInv'
<1>1. CASE "scrape_count" \notin Tracked
  BY <1>1 DEF CountInv
<1>2. CASE "scrape_count" \in Tracked
  <2>0. CountedInv /\ ReadInv /\ PrecedeInv
    BY <1>2 DEF CountInv
  <2>1. ASSUME UNCHANGED vars
        PROVE  (CountedInv /\ ReadInv /\ PrecedeInv)'
    <3>1. metrics' = metrics /\ body' = body /\ todo' = todo /\ mates' = mates /\ before' = before
          /\ \A h \in Handlers : before[h] \subseteq Handlers
      BY <2>1 DEF vars, ShapeInv, TypeInv
    <3>2. \A h \in Handlers :
            /\ Started(h)' <=> Started(h)
            /\ Done(h)' <=> Done(h)
            /\ HasRead(h)' <=> HasRead(h)
            /\ CountRead(h)' = CountRead(h)
      BY <3>1 DEF Started, Done, Running, HasRead, EncodePending, CountRead
    <3>3. Counted' = Counted
      BY <3>1, <3>2 DEF Counted
    <3>4. CountedInv'
      BY <2>0, <3>1, <3>3 DEF CountedInv
    <3>5. ReadInv'
      BY <2>0, <3>2, <3>3 DEF ReadInv
    <3>6. \A h, k \in Handlers : Precedes(h, k) => Precedes(h, k)'
      BY <3>2, <3>3 DEF Precedes
    <3>7. PrecedeInv'
      BY <2>0, <3>1, <3>2, <3>6 DEF PrecedeInv
    <3>. QED  BY <3>4, <3>5, <3>7
  <2>2. (CountedInv /\ ReadInv /\ PrecedeInv)'
    BY <1>2, <2>0, <2>1, CountBegins, CountDoes, Steps
  <2>. QED  BY <2>2 DEF CountInv
<1>. QED  BY <1>1, <1>2

LEMMA CountInit == ASSUME Init PROVE CountInv
<1>1. \A h \in Handlers : ~Started(h)
  BY DEF Init, Started
<1>2. DOMAIN metrics["scrape_count"] = {}
  BY NoValuesEmpty DEF Init, Nothing, Families
<1>3. Counted = {}
  BY <1>1 DEF Counted
<1>. QED  BY <1>1, <1>2, <1>3 DEF CountInv, CountedInv, ReadInv, PrecedeInv, HasRead

\* A scrape that begins when another has returned reads a larger scrape count,
\* whatever overlaps with either (router.rs:44).
THEOREM ScrapeCountsGrow == Spec => []ScrapeCountGrows
<1>1. Init => ShapeInv /\ CountInv
  BY ShapeInit, CountInit
<1>2. ShapeInv /\ CountInv /\ [Next]_vars => (ShapeInv /\ CountInv)'
  BY ShapeStep, CountStep
<1>3. ShapeInv /\ CountInv => ScrapeCountGrows
  <2>. SUFFICES ASSUME ShapeInv, CountInv, NEW k \in Handlers, NEW h \in before[k],
                       Done(k), "scrape_count" \in Tracked
                PROVE  CountRead(h) < CountRead(k)
    BY DEF ScrapeCountGrows, CountRead
  <2>1. Started(k) /\ HasRead(k)
    BY DEF HasRead, EncodePending, Done, Running
  <2>. QED  BY <2>1 DEF CountInv, PrecedeInv, Precedes
<1>. QED  BY <1>1, <1>2, <1>3, PTL DEF Spec

=============================================================================
