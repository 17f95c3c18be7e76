----------------------------- MODULE MCRecorder -----------------------------
(***************************************************************************)
(* Values for model checking ScrapeRecorder: units of each kind whose data *)
(* exercise the gates and the widths, and batches in which a unit comes,   *)
(* goes and changes between scrapes.  i64::MAX is 3 and u64::MAX is 7.     *)
(***************************************************************************)
EXTENDS ScrapeRecorder

CONSTANTS h1, h2, h3

OneHandler == {h1}
TwoHandlers == {h1, h2}
ThreeHandlers == {h1, h2, h3}

Unit(name, active, sub, stat) ==
  [name |-> name, active |-> active, sub |-> sub, stat |-> stat]

\* A service at work, later, and after it has ended.
Young == Unit("service", "active", "running",
              [main_pid |-> 1, task_count |-> 1, io_read_bytes |-> 1, active_ts |-> 1,
               mem_current |-> 1, mem_available |-> 7])
Grown == Unit("service", "active", "running",
              [main_pid |-> 1, task_count |-> 2, io_read_bytes |-> 5, active_ts |-> 1,
               mem_current |-> 2, mem_available |-> 5])
Ended == Unit("service", "inactive", "dead", [active_ts |-> 1])

\* A slice, which has no main process, and which comes and goes.
Slice == Unit("slice", "active", "active",
              [task_count |-> 3, io_read_bytes |-> 2, mem_current |-> 4, mem_available |-> 1])

Changing == {<<Young, Slice>>, <<Grown>>, <<Ended>>}
Steady == {<<Young>>, <<Grown, Slice>>}

Symmetry == Permutations(Handlers)

=============================================================================
