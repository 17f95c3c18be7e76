--------------------------- MODULE ScrapeRecorder ---------------------------
(***************************************************************************)
(* The second half of GET /metrics (src/http/router.rs, src/metrics): the  *)
(* handler has its stats and clears, fills and encodes the metric families *)
(* that all handlers share.  There is no await on the way, so a handler is *)
(* not cancelled here, but handlers run on several threads.                *)
(*                                                                         *)
(* A handler is the set of what it still has to do to the families, each   *)
(* item with its place in the order.  An item takes the lock of one        *)
(* family, once, and is a step.                                            *)
(***************************************************************************)
EXTENDS Naturals, FiniteSets, SequencesExt

CONSTANTS
  Handlers,  \* the scrapes of a behaviour
  Batches,   \* what the coordinator may reply: sequences of unit data
  Tracked,   \* the families whose contents are followed
  I64Max,    \* bound: the largest value of a gauge
  U64Max     \* bound: the largest value of a counter

VARIABLES
  metrics,   \* family -> label -> value
  batch,     \* the unit data of a handler
  todo,      \* what the handler still has to do
  body,      \* the text of the response: family -> label -> value
  mates,     \* history: the handlers that ran while this one did, itself too
  before     \* history: the handlers that were done when this one began

vars == <<metrics, batch, todo, body, mates, before>>

-----------------------------------------------------------------------------
(* A unit's data is a record: name (which stands for unit, machine and     *)
(* scope), active and sub state, and stat, which has a value for each      *)
(* number that is not zero.                                                *)

Value(d, f) == IF f \in DOMAIN d.stat THEN d.stat[f] ELSE 0

\* The scrapes of a process do not exhaust a u64.
RecorderAssumption ==
  /\ I64Max \in Nat \ {0} /\ U64Max = 2 * I64Max + 1
  /\ IsFiniteSet(Handlers) /\ Cardinality(Handlers) <= U64Max

\* Numbers are u64, job_id a u32.  A batch has a unit once: the units of a
\* manager are a map by name, and each manager has a scope of its own.
BatchAssumption ==
  \A b \in Batches : \A i \in DOMAIN b :
    /\ \A f \in DOMAIN b[i].stat : b[i].stat[f] \in 0 .. U64Max
    /\ Value(b[i], "job_id") <= I64Max
    /\ \A j \in DOMAIN b : b[i].name = b[j].name => i = j

ASSUME RecorderAssumption
ASSUME BatchAssumption

\* Families in the order new_batch clears them.
Cleared ==
  <<"active_state", "sub_state", "active_ts", "inactive_ts", "start_ts", "stop_ts",
    "main_pid", "job_id", "io_read_bytes", "io_write_bytes", "io_read_ops",
    "io_write_ops", "ip_egress_bytes", "ip_ingress_bytes", "ip_egress_packets",
    "ip_ingress_packets", "cpu_usage_nsec", "mem_current", "mem_available",
    "mem_peak", "mem_swap", "mem_swap_peak", "task_count">>

UnitFamilies == ToSet(Cleared)
Families == UnitFamilies \union {"scrape_count"}

\* The duration of the scrape, which is registered too, is left out.
Registered == Families \ {"job_id"}

\* Numbers that are recorded together, if the first is not zero.
Groups ==
  <<[gate |-> "main_pid", counter |-> FALSE,
     of |-> <<"start_ts", "stop_ts", "main_pid", "task_count">>],
    [gate |-> "io_read_bytes", counter |-> TRUE,
     of |-> <<"io_read_bytes", "io_write_bytes", "io_read_ops", "io_write_ops">>],
    [gate |-> "ip_egress_packets", counter |-> TRUE,
     of |-> <<"ip_egress_bytes", "ip_ingress_bytes", "ip_egress_packets",
              "ip_ingress_packets">>],
    [gate |-> "cpu_usage_nsec", counter |-> TRUE, of |-> <<"cpu_usage_nsec">>],
    [gate |-> "mem_current", counter |-> FALSE,
     of |-> <<"mem_current", "mem_available", "mem_peak">>],
    [gate |-> "mem_swap", counter |-> FALSE, of |-> <<"mem_swap", "mem_swap_peak">>]>>

Counters ==
  {"scrape_count", "active_state", "sub_state", "io_read_bytes", "io_write_bytes",
   "io_read_ops", "io_write_ops", "ip_egress_bytes", "ip_ingress_bytes",
   "ip_egress_packets", "ip_ingress_packets", "cpu_usage_nsec"}
Gauges == Families \ Counters

-----------------------------------------------------------------------------
(* The items of a handler.  Their place is the stage of metrics_get, the   *)
(* unit, the group of numbers and the position in it.                      *)

Item(at, op, f, label, v) ==
  [at |-> at, op |-> op, family |-> f, label |-> label, value |-> v]

Before(p, q) == \E n \in 1 .. 4 : p[n] < q[n] /\ \A m \in 1 .. (n - 1) : p[m] = q[m]

\* A gauge set to the number whatever its size.
RecordGaugeUnchecked(at, f, label, v) == {Item(at, "set", f, label, v)}

\* A gauge that is added to.
RecordGaugeByAdding(at, f, label, v) == {Item(at, "inc", f, label, v)}

\* u64 to i64: u64::MAX, "no limit", becomes i64::MAX; any other value that does
\* not fit is not recorded.
RecordGauge(at, f, label, v) ==
  IF v <= I64Max THEN {Item(at, "set", f, label, v)}
  ELSE IF v = U64Max THEN {Item(at, "set", f, label, I64Max)}
  ELSE {}

RecordCounter(at, f, label, v) == {Item(at, "inc", f, label, v)}

Clear(k) == Item(<<1, 0, 0, k>>, "clear", Cleared[k], <<>>, 0)

\* new_batch up to the family of main_pid.
NewBatchOfUnits == {Clear(k) : k \in 1 .. 7}

\* new_batch for gauges only.
NewBatchOfGauges == {Clear(k) : k \in {j \in DOMAIN Cleared : Cleared[j] \in Gauges}}

NewBatch == {Clear(k) : k \in DOMAIN Cleared}

\* One number of a group of the i-th unit.
RecordNumber(i, d, j, n) ==
  LET f == Groups[j].of[n]
  IN  IF Groups[j].counter THEN RecordCounter(<<2, i, j, n>>, f, <<d.name>>, Value(d, f))
                           ELSE RecordGauge(<<2, i, j, n>>, f, <<d.name>>, Value(d, f))

RecordGroup(i, d, j) ==
  IF Value(d, Groups[j].gate) = 0 THEN {}
  ELSE UNION {RecordNumber(i, d, j, n) : n \in DOMAIN Groups[j].of}

\* Both states are labelled with the active state; job_id is recorded and not
\* registered, active_ts and inactive_ts are registered and not recorded.
RecordUnit(i, d) ==
  {Item(<<2, i, 0, 1>>, "set", "job_id", <<d.name>>, Value(d, "job_id")),
   Item(<<2, i, 0, 2>>, "inc", "active_state", <<d.name, d.active>>, 1),
   Item(<<2, i, 0, 3>>, "inc", "sub_state", <<d.name, d.active>>, 1)}
  \union UNION {RecordGroup(i, d, j) : j \in DOMAIN Groups}

\* A scrape count that is set, not incremented.
RecordScrapeOnce == Item(<<3, 0, 0, 0>>, "set", "scrape_count", <<>>, 1)

RecordScrape == Item(<<3, 0, 0, 0>>, "inc", "scrape_count", <<>>, 1)

\* The families are encoded in the order of their registration, the scrape
\* count first.
Encode ==
  {Item(<<4, 0, 0, 0>>, "encode", "scrape_count", <<>>, 0)} \union
  {Item(<<4, 0, 0, k>>, "encode", Cleared[k], <<>>, 0) :
     k \in {j \in DOMAIN Cleared : Cleared[j] \in Registered}}

\* What metrics_get does once it has its stats.
Handling(b) ==
  {item \in NewBatch \union (UNION {RecordUnit(i, b[i]) : i \in DOMAIN b})
              \union {RecordScrape} \union Encode : item.family \in Tracked}

\* A table of these sets, which TLC evaluates once.
Handlings == [b \in Batches |-> Handling(b)]

\* A family after a value has been stored.
Stored(family, label, v) ==
  [l \in DOMAIN family \union {label} |-> IF l = label THEN v ELSE family[l]]

NoValues == [l \in {} |-> 0]

\* What an item makes of its family.
Applied(item, family) ==
  LET old == IF item.label \in DOMAIN family THEN family[item.label] ELSE 0
  IN  CASE item.op = "clear"  -> NoValues
        [] item.op = "set"    -> Stored(family, item.label, item.value)
        [] item.op = "inc"    ->
             Stored(family, item.label, (old + item.value) % (U64Max + 1))
        [] item.op = "encode" -> family

-----------------------------------------------------------------------------
Nothing == [f \in Families |-> NoValues]

Init ==
  /\ metrics = Nothing
  /\ batch = [h \in Handlers |-> <<>>]
  /\ todo = [h \in Handlers |-> {}]
  /\ body = [h \in Handlers |-> Nothing]
  /\ mates = [h \in Handlers |-> {}]
  /\ before = [h \in Handlers |-> {}]

Started(h) == mates[h] # {}
Running(h) == todo[h] # {}
Done(h) == Started(h) /\ ~Running(h)

\* The reply has come.
Receive(h) ==
  /\ ~Started(h)
  /\ \E b \in Batches :
       /\ batch' = [batch EXCEPT ![h] = b]
       /\ todo' = [todo EXCEPT ![h] = Handlings[b]]
  /\ mates' = [k \in Handlers |->
                 IF k = h THEN {h} \union {j \in Handlers : Running(j)}
                 ELSE IF Running(k) THEN mates[k] \union {h} ELSE mates[k]]
  /\ before' = [before EXCEPT ![h] = {j \in Handlers : Done(j)}]
  /\ UNCHANGED <<metrics, body>>

\* The handler does what comes next.
Proceed(h) ==
  \E item \in todo[h] :
    LET f == item.family
    IN  /\ \A other \in todo[h] : ~Before(other.at, item.at)
        /\ metrics' = [metrics EXCEPT ![f] = Applied(item, @)]
        /\ body' = IF item.op = "encode" THEN [body EXCEPT ![h][f] = metrics[f]] ELSE body
        /\ todo' = [todo EXCEPT ![h] = @ \ {item}]
        /\ UNCHANGED <<batch, mates, before>>

AllDone == (\A h \in Handlers : Done(h)) /\ UNCHANGED vars

Next == (\E h \in Handlers : Receive(h) \/ Proceed(h)) \/ AllDone

Spec == Init /\ [][Next]_vars

-----------------------------------------------------------------------------
\* Values stay within the width of their metric: gauges are i64 that are never
\* negative, counters are u64 (record.rs:5-33).
TypeOK ==
  /\ DOMAIN metrics = Families
  /\ \A f \in Gauges : \A l \in DOMAIN metrics[f] : metrics[f][l] \in 0 .. I64Max
  /\ \A f \in Counters : \A l \in DOMAIN metrics[f] : metrics[f][l] \in 0 .. U64Max
  /\ \A h \in Handlers :
       batch[h] \in Batches \union {<<>>} /\ mates[h] \union before[h] \subseteq Handlers

\* What handler k records in a family.
Writes(k, f) ==
  {item \in Handlings[batch[k]] : item.family = f /\ item.op \in {"set", "inc"}}

\* A family that was cleared and that only handler k has recorded in.
Own(k, f) ==
  [l \in {item.label : item \in Writes(k, f)} |->
     (CHOOSE item \in Writes(k, f) : item.label = l).value]

\* A scrape that no other overlaps reads what its handler recorded of its own
\* stats, as the first scrape of a new process would: nothing is left of
\* earlier batches, and nothing is missing (unit.rs:190-215, router.rs:37-48).
AloneReadsOwn ==
  \A h \in Handlers : Done(h) /\ mates[h] = {h} =>
    \A f \in Registered \ {"scrape_count"} : body[h][f] = Own(h, f)

UnitsOf(h) == {batch[h][i].name : i \in DOMAIN batch[h]}

\* Whatever overlaps, a scraper reads of no unit that neither its own stats nor
\* those of an overlapping scrape have: a unit that is gone does not come back.
NothingStale ==
  \A h \in Handlers, f \in UnitFamilies :
    \A l \in DOMAIN body[h][f] : \E k \in mates[h] : l[1] \in UnitsOf(k)

\* Overlapping scrapes may hide each other's gauges but never mix them: a gauge
\* has a value that one of them was given, or i64::MAX for "no limit".
GaugesUnblended ==
  \A h \in Handlers, f \in Gauges : \A l \in DOMAIN body[h][f] :
    \E k \in mates[h] : \E i \in DOMAIN batch[k] :
      LET d == batch[k][i]
      IN  /\ d.name = l[1]
          /\ \/ body[h][f][l] = Value(d, f)
             \/ body[h][f][l] = I64Max /\ Value(d, f) = U64Max

\* The sum, over the handlers of S, of what each records for a label: the
\* number of pairs of a handler and a unit of what it records.
SumRecorded(S, f, l) ==
  Cardinality({p \in S \X (1 .. U64Max) :
                 \E item \in Writes(p[1], f) : item.label = l /\ p[2] <= item.value})

\* A counter is the sum of what some of the overlapping scrapes recorded, each
\* once, and nothing else: no value of a finished batch is counted in.
CountersAreSums ==
  \A h \in Handlers, f \in Counters \ {"scrape_count"} : \A l \in DOMAIN body[h][f] :
    \E S \in SUBSET mates[h] : body[h][f][l] = SumRecorded(S, f, l) % (U64Max + 1)

\* A scrape that begins when another has returned reads a larger scrape count,
\* whatever overlaps with either: no count is lost or taken back (router.rs:44).
ScrapeCountGrows ==
  \A k \in Handlers : \A h \in before[k] :
    Done(k) /\ "scrape_count" \in Tracked
      => body[h]["scrape_count"][<<>>] < body[k]["scrape_count"][<<>>]

-----------------------------------------------------------------------------
(* What the descriptions of the metrics say.                               *)

\* "The total number of bytes read by the unit" (unit.rs:115) is a number that
\* was read for the unit, not the sum of two readings.
ReadBytesTrue ==
  \A h \in Handlers : \A l \in DOMAIN body[h]["io_read_bytes"] :
    \E k \in mates[h] : \E i \in DOMAIN batch[k] :
      /\ batch[k][i].name = l[1]
      /\ body[h]["io_read_bytes"][l] = Value(batch[k][i], "io_read_bytes")

\* sub_state is the "more detailed sub-state of the unit" (unit.rs:85).
SubStateExported ==
  \A h \in Handlers : \A l \in DOMAIN body[h]["sub_state"] :
    \E k \in mates[h] : \E i \in DOMAIN batch[k] :
      l = <<batch[k][i].name, batch[k][i].sub>>

=============================================================================
