# Specifications of systemd-exporterd-rs

TLA+ models of the exporter, TLC configurations that check them on small
instances, and TLAPS proofs of what they show for every instance. Paths such as
`coordinator.rs:61` are relative to the repository's crate sources
(`src/service/coordinator.rs`, `src/http/router.rs`, ...).

## 1. The system

The exporter is one tokio process (`cli.rs:90-160`).

| Part | State it keeps | Operations | Talks to |
|---|---|---|---|
| HTTP handler (`http/router.rs`) | none of its own; clones of the request sender, the recorder and the registry | one future per `GET /metrics`: send a request, await the reply, clear and fill the recorder, encode | coordinator (mpsc of 32, `cli.rs:125`), recorder |
| Coordinator (`service/coordinator.rs`) | `senders`: scope -> channel of a manager task | start-up (list users, connect, subscribe), `select!` over requests, `UserNew`, `UserRemoved`; `handle_scrape_request` | handlers, manager tasks (mpsc of 8 and a oneshot per request), logind |
| User discovery and connection (`service/user_manager.rs`) | `SETEUID_MUTEX`, the effective uid of the process | `list_active_users`, `connect_user_manager` with its seteuid fallback | logind, session buses, kernel credentials |
| Manager task (`service/service.rs`) | unit table: name -> proxies, last status, accounting flags | `load_all`, `select!` over requests and five systemd signals | systemd over D-Bus, coordinator |
| Unit statistics (`service/unit.rs`, `cgroup/`, `stats/`) | per unit: status, accounting flags, cgroup path | read status, cgroup files first and D-Bus as fallback | cgroupfs, D-Bus |
| Recorder (`metrics/`) | 23 metric families shared by all handlers | `new_batch`, `record_unit`, `record_scrape`, encode | handlers |
| Command line, configuration, logging (`cli.rs`, `service/config.rs`) | none | start everything, exit codes | - |
| `exportable_derive` | none (compile-time macro, not used by the exporter) | - | - |

### What is hard here

* Everything is concurrent at `await` points: each handler, the coordinator and
  each manager task is a future of its own, and systemd and logind move on by
  themselves.
* D-Bus signals of different kinds arrive through different streams, and
  `select!` polls them in random order: the order between two kinds is lost.
* "List, then subscribe" (`coordinator.rs:85-95`, `service.rs:201-208`) leaves
  a window in which events reach nobody.
* Tasks end by themselves (`?` on a D-Bus error, a panic, the end of their
  streams) and the coordinator is not told.
* No D-Bus call has a timeout, the coordinator's own and its connections to
  session buses included.
* Handlers are cancelled when the scraper disconnects.
* Handlers share the metric families and run at the same time.
* The effective uid belongs to the whole process.

### What makes each part correct

* **Scrape path**: a request is neither lost nor handled twice; a report is an
  atomic look at the registry, with every live registered manager in it; a
  scraper that stays gets an answer; the coordinator never waits for room in a
  manager's channel.
* **Following users**: a user who stays logged in ends up with a task that runs,
  one who has gone is dropped; at any time a stale sender has its end coming, and a user
  without a manager has one coming.
* **Unit table**: the table follows the manager's units; a unit that is gone
  has its removal coming, a stale status has an event coming.
* **Recorder**: what a scraper reads is the batch its handler recorded, or of
  batches that overlapped with it, never of a finished one.
* **Connection**: the process has its own uid again whenever no second attempt
  is under way; the second attempt of a call is made as the owner of its own
  bus; a call that nothing disturbs succeeds if the bus lets the exporter in.
* **Statistics**: a scrape reports each group of numbers whole and from one
  source, or not at all; what it reports is what systemd would; the accounting
  flags are those of the unit.

## 2. Modules

| Module | Models | |
|---|---|---|
| `ExporterTypes` | scopes, tasks and requests, the identities that modules share | |
| `Logind` | systemd-logind and the user's session bus (external) | sessions, the two signal streams |
| `ManagerTask` | the tasks spawned by `Coordinator::spawn_manager`, as the coordinator sees them | channel, request in hand, reply, the ways to end |
| `MetricsHandler` | `metrics_get` up to its stats | request channel, oneshot, errors, disconnection |
| `Coordinator` | `Coordinator::run`, composed with the three above | one action per stretch of code between two awaits |
| `ScrapeService` | nothing: the abstract promise to a scraper | implemented by `Coordinator` |
| `TaskView` | nothing: the abstract manager task | implemented by each task of `Coordinator` and by `UnitMonitor` |
| `Systemd` | a systemd manager (external) | units, jobs, five signal streams |
| `UnitMonitor` | `monitor_units`, `load_all`, `update_unit_status` | the unit table and the `select!` loop |
| `UnitStats` | `UnitParser::parse`, `Unit`, `CGroup`, the D-Bus readers | one unit: its cgroup path, flags and statistics, read by read |
| `ScrapeRecorder` | the rest of `metrics_get`, `metrics/unit.rs`, `metrics/record.rs` | handlers on shared metric families, one family at a time |
| `UserConnection` | `connect_user_manager`, `connect_as_uid`, `SETEUID_MUTEX` | both attempts, for calls in parallel |
| `ConnectOnce` | nothing: a connection as one look at the bus | implemented by `UserConnection` |
| `MC...` | values for TLC | |
| `CoordinatorProofs`, `ServiceProofs`, `TaskProofs`, `UserProofs` | proofs about `Coordinator` | section 4 |
| `UnitMonitorProofs`, `UnitStatsProofs`, `UserConnectionProofs`, `RecorderProofs` | proofs about the module of that name, or `ScrapeRecorder` | section 4 |

### How the modules fit together

`Coordinator` EXTENDS `ManagerTask` (which EXTENDS `Logind`) and
`MetricsHandler`: their variables are shared state; `OfManager`, `OfHandler`
and `OfLogind` lift their steps to the whole system. The other parts are checked
apart, each along an interface that is stated as a module of its own or is a
single value:

* a manager task shares with the coordinator only its channel and the oneshots.
  `TaskView` is what the coordinator may count on: a task loads, takes requests
  one by one, answers them one by one, and loses requests only by ending.
  `ManagerTask` inside `Coordinator` implements it task by task
  (`Coordinator!ActsAsTask`), and so does `UnitMonitor` (`UnitMonitor!ActsAsTask`),
  which is the inside of one task. Reloads, reads in the middle of a signal and
  failing units are thus shown to be invisible to the coordinator;
* `SpawnUser` connects in one step, or the connection hangs (`Stall`), fails when
  the session ends (`ConnectFails`), or takes the process with it
  (`RestorePanics`). `ConnectOnce` says what one step takes for granted, and
  `UserConnection` implements it: a call succeeds at a moment at which the bus
  lets the exporter in, and fails only if at some moment the bus did not, or
  another call was under way. That a call returns at all holds only for buses
  that answer (`CallsReturn`), and `Coordinator` does not assume it. The
  coordinator makes one call at a time (`coordinator.rs:47-59`, `102-135`), so
  its calls never have that second excuse;
  calls in parallel are what the function's own comments promise
  (`user_manager.rs:39-41`);
* `UnitStats` is what happens to one unit in `UnitMonitor`'s `BeginRead`,
  `ReadRest` and `CollectUnit`: a unit's statistics depend on no other unit;
* `ScrapeRecorder` continues where `MetricsHandler` ends, at status `ok`;
  handlers share the metric families and nothing else.

### How the state corresponds to the code

In `Coordinator`:

* `senders` is `Coordinator::senders`; `inbox[t]` is the mpsc channel behind a
  sender, `inHand[t]` the `req` of `monitor_units`' `recv` arm, `<<t, r>> \in
  answers` a oneshot that holds `t`'s reply. `HoldsSender(t, r)` says that the
  oneshot's sender is still alive: a receiver whose sender is gone fails, which
  is how `handle_scrape_request` gets past a task that has ended.
* `pc` is the await at which the coordinator's future is suspended; `listed`
  and `found` are the loops of `list_active_users` and `run`; `cur`, `pending`,
  `awaiting` and `got` are the locals of `handle_scrape_request`. The receivers
  are awaited in the order of asking in the code and in any order in the model:
  a oneshot keeps its value, so the result is the same.
* `status[r]` is where the handler of request `r` is; `requests` is the mpsc
  channel of `cli.rs:125`; `replied` and `report` are the oneshot of a request
  and its contents (the set of tasks whose units are in it).
* A task is connected to the bus of one login session (`sessionOf`). When the
  session ends its signal streams end and its calls fail, but the task lives on
  and answers scrapes until its sender is dropped: that is what the code does.
* `stuck` are the tasks that were left without a reply to a D-Bus call, and
  `stalled` is the coordinator's own call of that kind: to logind, at start-up or
  when a `UserNew` is handled, or the connection to a session bus. A bus that
  goes away closes its connections, so that a call to a session bus fails when
  the session ends (`Waits`, `NoReplyComes`); a call to logind or to the system
  manager hangs for ever. `Blocked` says that the coordinator waits for a reply
  that does not come, its own or one of a manager it has asked.
* `Monitored(u)` says that the sender registered for `u` is that of a task for
  the present session which has loaded and serves. `Current(u)`, of the
  invariants, is only about the sender: its task may have ended.
* The histories `missedNew`, `missedRemoved` and `overlapped` of `Logind`
  record what the properties need to know about the past; no action reads them.

In `UnitMonitor` `pc` is the call the task waits for, `units` the table,
`fresh` the one that `load_all` builds, `todo` the loops over a list, `reading`
and `half` the status that is being read. A status is read in two halves, the
active state and the rest, which is enough to see it torn. `job` signals start a
read only of a unit in the table. Reading a property of a unit that is not loaded
loads it, which systemd announces by `UnitNew`: `Touch`. `hung` says that a
call gets no reply. The histories
`missedNew`, `missedRemoved`, `crossed` and `unannounced` of `Systemd` name what
the task could not have known.

In `UnitStats` `cgroup`, `status` and `accounting` are the fields of `Unit`;
`todo` is the set of groups that `collect_resource_stats` and `collect_task_stats`
still have to do, which they do in the order of `Groups` (`First`), `left` the
files, properties or flags of the first of them that are still to be read,
`got` what was read. Each file and each D-Bus property
is an await, between which the unit may stop, start elsewhere or be given other
settings. A number that was read keeps its source and the life of the unit it is
from, so that the properties can tell a mixture; one from the root of cgroupfs
would be marked as the machine's. `Memory` gives each file of the memory group a
number of its own; `io.stat` has a line of words for each device, parsed as
`read_io_stats` does, `unwrap` included. Sums are cardinalities (`Total`), so that they can be
reasoned about without recursion.

In `ScrapeRecorder` a handler is the set of what it still has to do (`todo`):
`clear`, `set`, `inc` and `encode`, each of one family, each with its place in
the code's order (`at`): the stages `new_batch`, `record_unit`, `record_scrape`
and `encode`, the unit, and the write. What comes first is done first. `Family`
has a lock per family, so an item is a step. `Handling` computes the set from
the batch, with the gates of `record_unit` and `record_resources` (`Groups`) and
the conversion of `record_gauge`. `Tracked` says which families a run follows: a
family is never read for the sake of another, so leaving one out changes
nothing in the rest. `mates` and `before` are histories: the handlers a handler
overlapped with, and those that were done when it began.

In `UserConnection` `euid` is the process's effective uid, `guard` the holder of
`SETEUID_MUTEX`, `cred` the uid that the kernel noted for a connection when it
was made (`SO_PEERCRED`), which is what the bus judges, however long the
handshake takes and whatever the euid is by then. `excused` is a history.

What is abstracted: the contents of a report (which task it comes from is all
the properties need), logging, the wording of errors. Signals are well-formed
(`event.args()?` and the path conversion never fail). Up to the loop any call of
the coordinator to the system bus or logind may fail (`StartupError`) or hang
(`Stall`). Once in the loop it may hang, and one about a user who is there does
not fail: an error there only costs the user its manager, as for one who has
gone. The system bus does not close its connections while the exporter runs.

## 3. Runs

All constants that stand for identities are model values.

| Run | Instance | Checks |
|---|---|---|
| `scrapes` | 1 user, 2 requests, room for 1, users monitored or not, a manager, a connection and logind that may hang | `TypeOK`, `OneOutstandingRequest`, `EachRequestInOnePlace`, refinements `ServesSnapshots` and `ActsAsTask`, `ScrapeResolved` |
| `users` | 1 user, 2 sessions, 1 request, a bus that may come up late or hang, tasks that fail or hang | `StaleSenderHasRemoval`, `ActiveUserIsComing`, `UserMonitoredUnlessOverlapped`, `DepartedUserDropped` |
| `overlap` | 3 handlers | `TypeOK`, `AloneReadsOwn`, `NothingStale`, `GaugesUnblended`, `CountersAreSums`, `ScrapeCountGrows` |
| `units` | 2 units, 1 monitored, 3 events, calls may fail or hang | `TypeOK`, `GhostHasRemoval`, `MissingUnitIsComing`, `StaleStatusIsRefreshed`, refinement `ActsAsTask` |
| `units_liveness` | 1 unit, signals without end, 2 unread, calls may hang, signals only after `Subscribe` | `TableConverges`, `StatusConverges`, `ScrapesServed` |
| `stats` | 4 kinds of unit, 2 lives, 2 settings, kernels with and without peak files | `TypeOK`, `WholeOrNothing`, `TrueWhenUndisturbed`, `FlagsTrueUnlessReloaded` |
| `connect` | 2 calls, 2 users, root and not, with and without the right to switch | `TypeOK`, `EuidRestored`, `SecondAsOwner`, refinement `LooksOnce`, `CallsReturn` |

### Bounds

**Coordinator.** Two scrapers and room for one request in the channel: one waits
for room while the other is in hand. The system manager and one user's manager:
one is asked while the other ends. One user with two sessions is the smallest
instance in which a session, a task and a signal can be stale. The user's bus
and manager may hang, and so may logind; the system manager may not, which would
add only that a scrape never ends, as it does when the user's manager hangs.
`relogin` has no call that hangs, so that what it finds is not due to one.
`EnoughTasks` in `MCCoordinator` is evaluated by every run: the number of tasks
never stops a spawn. The managers' channels have room for two, and `OneOutstanding` (proved)
shows that one place is all that is ever used. Two sessions together with two
requests, and scrapes of three managers and more, are too large for TLC with
the temporal properties; for the safety properties and both refinements the
proofs cover them.

**UnitMonitor.** One monitored unit, and in `units` one that the filters refuse;
there `MaxEvents` bounds what systemd does by itself. Three events suffice for a
unit that is loaded, unloaded and loaded again while streams are unread, or a
reload in the middle of that. In `units_liveness` there
is no end to what systemd does (`Endless`): units are loaded and unloaded and
files change for ever, with up to `MaxEvents` (2) of their signals unread, in
any two streams, and so do units change and jobs run, once every signal has been
read. A `select!` that preferred signals to scrapes, or a reload that started
over, would starve them there: the mutant `TakeScrapeLast` of `ScrapesServed` is
a biased `select!`. Units do not influence each other except by keeping the task
busy, which scrapes and the filtered unit do as well.

**UnitStats.** Two lives are enough for numbers of two lives to meet in one
scrape and for a path to lead to a place where the unit no longer is. `io.stat`
has two devices and a key that is skipped, or a word without `=`, at which
`unwrap` panics. One of the kernels of `stats` lacks the peak files, so that the
memory group falls back from its second file, when one is already read, and may
print such a word; the other, which is the kernel of `cpu_time`, has every file.
`U64Max`, what systemd replies for a number it does not have, is 7 and larger
than any sum.

**ScrapeRecorder.** Three handlers: one can overlap with two that do not overlap
with each other. `Changing` has a service that works, grows and ends, and a
slice that comes and goes, with values on both sides of every conversion;
`I64Max` is 3 and `U64Max` 7. One family of each kind is followed: a counter, a
gauge, and the scrape count.

**UserConnection.** Two calls: whoever holds the mutex, and whoever connects,
tests the euid or waits meanwhile. One bus refuses root and one admits it; both
come, go and stall. The exporter is root with or without the right to switch, or
one of the users. The proofs cover any number of calls and users.

### Runs that find the code at odds with what the repository says of it

| Run | Property | What happens |
|---|---|---|
| `relogin` | `SignalledUserMonitored` | the new `UserNew` is taken before the old `UserRemoved`, which drops the new task |
| `doubled_counter` | `ReadBytesTrue` | two handlers clear, then both add to `io_read_bytes`: both export the sum |
| `sub_state` | `SubStateExported` | `sub_state` is exported with the active state as its label |
| `stale_state` | `StatusTrueAtRest` | a unit that changes without a job keeps its old state in the table |
| `cpu_time` | `CpuTimeReported` | `cpu.stat` has no `usage_nsec`: the CPU time of a unit whose cgroup can be read is 0, and not exported |

### Exceptions the passing properties name

Each is a circumstance in which the code does lose track, met in the models:

* a user who stays logged in ends up monitored for good
  (`UserMonitoredUnlessOverlapped`) but for these: one who logs in between
  `ListUsers` and the `UserNew` stream, or whose bus is not up when the session
  is listed or its `UserNew` is handled (`missedNew` of `Logind`; the connection
  is tried once); one whose old `UserRemoved` is unread when the new session
  starts (`overlapped`, the run `relogin`); one whose manager task fails, panics
  or hangs (`TaskLost`: `service.rs:239`, `coordinator.rs:40`; nothing starts
  another one for the session); one whose bus refuses the exporter (`Refusing`);
  and everyone while the coordinator is blocked for good (`Unblocked`);
* a user object that vanishes between `ListUsers` and the reading of its state
  ends the exporter (`InspectListed`), and so does a failure to restore the euid
  after a second attempt to connect (`RestorePanics`). No property catches either:
  each allows an exporter that has exited;
* the units of a manager whose task has ended are left out of a successful
  report (`FanOut`);
* no D-Bus call has a timeout: one manager that never replies keeps every
  scraper and every login waiting, and so does a session bus that takes a
  connection and stays silent (`coordinator.rs:50`), each until the session
  ends; logind or the system manager, for ever. `ScrapeResolved`,
  `DepartedUserDropped` and `UserMonitoredUnlessOverlapped` exclude exactly the
  behaviours in which the coordinator ends up blocked for good (`Unblocked`);
  `TableConverges`, `StatusConverges` and `ScrapesServed` those in which the task
  itself waits (`Waits`); `CallsReturn` those in which a bus accepts and never
  answers, which holds the mutex (its premise `BusesAnswer`);
* overlapping scrapes may lose units from each other's body: `AloneReadsOwn`
  is about scrapes that overlap with none;
* the unit table misses what happens between `load_all` and the streams
  (`missedNew`, `missedRemoved` of `Systemd`) until the next reload, and a
  `UnitNew` that overtakes the `UnitRemoved` of an earlier life (`crossed`).
  A reload heals both: `ListUnits` and `Loaded` clear the histories;
* the numbers of a unit that stops or starts during its collection may be of two
  lives (`disturbed`); `available` is not filled from files (`Gap`);
* the first attempt of a parallel call may be made under the euid of another
  call's second attempt, and may then fail or succeed as it would not alone
  (`excused`); the second attempt never is (`SecondAsOwner`);
* `active_ts` and `inactive_ts` are registered and never recorded, `job_id` is
  recorded and never registered (`RecordUnit`, `Registered`).

Deadlock is checked in every run. `Quiescent`, `AllDone` and `Ended` name the
only states the models may rest in: nothing left to do, the process or task gone,
or a wait for a D-Bus reply that does not come.

### Fairness

`Fairness` (in `Coordinator`) assumes what tokio gives: a woken task is polled
again, hence weak fairness of the coordinator's next step, of every step of a
manager task that its own code takes, and of the handlers. `select!` starts at
a random arm, so an arm that is ready infinitely often is taken: strong
fairness of each of the three arms. Of logind it assumes only that a session
that is starting comes up and one that is closing is removed. Nobody has to log
in or out, no scraper has to come, stay or leave, no call has to fail, and no
manager in `HangScopes` and no bus in `SilentBuses` has to reply.

`UnitMonitor` has the same: weak fairness of what the task does next, strong
fairness of each `select!` arm, and a job comes to an end. Nothing has to
happen in systemd, signals and scrapes may come for ever, and no call has to
return.

`UserConnection` has weak fairness of each call's next step, and strong fairness
of `Lock`: tokio's mutex hands itself to waiting calls in order. No bus has to
answer, and nobody has to call.

## 4. Proofs

For any constants that meet the named assumptions of the modules, which TLC
evaluates in every run:

| Theorem | Module | Property |
|---|---|---|
| `TypeCorrect` | `CoordinatorProofs` | `TypeOK`, with the bound on the request channel |
| `OneOutstanding` | `CoordinatorProofs` | `OneOutstandingRequest` |
| `NoStaleSender` | `UserProofs` | `StaleSenderHasRemoval` |
| `NobodyForgotten` | `UserProofs` | `ActiveUserIsComing` |
| `RequestsInOnePlace` | `ServiceProofs` | `EachRequestInOnePlace` |
| `ImplementsService` | `ServiceProofs` | `ServesSnapshots`: `Coordinator` implements `ScrapeService` |
| `TasksActAsTask` | `TaskProofs` | `Coordinator!ActsAsTask`: each task implements `TaskView` |
| `MonitorTypes` | `UnitMonitorProofs` | `TypeOK` |
| `NoGhosts` | `UnitMonitorProofs` | `GhostHasRemoval` |
| `NoneForgotten` | `UnitMonitorProofs` | `MissingUnitIsComing` |
| `StaleIsRefreshed` | `UnitMonitorProofs` | `StaleStatusIsRefreshed` |
| `MonitorActsAsTask` | `UnitMonitorProofs` | `UnitMonitor!ActsAsTask`: the unit monitor implements `TaskView` |
| `RecorderTypes` | `RecorderProofs` | `TypeOK`, with the widths of the metrics |
| `NothingStaleRead` | `RecorderProofs` | `NothingStale` |
| `GaugesAreUnblended` | `RecorderProofs` | `GaugesUnblended` |
| `CountersSumUp` | `RecorderProofs` | `CountersAreSums` |
| `AloneReadsItsOwn` | `RecorderProofs` | `AloneReadsOwn` |
| `ScrapeCountsGrow` | `RecorderProofs` | `ScrapeCountGrows` |
| `UnitTypes` | `UnitStatsProofs` | `TypeOK` |
| `GroupsAreWhole` | `UnitStatsProofs` | `WholeOrNothing` |
| `NumbersAreTrue` | `UnitStatsProofs` | `TrueWhenUndisturbed` |
| `FlagsOfOneMoment` | `UnitStatsProofs` | `FlagsTrueUnlessReloaded` |
| `ConnectionTypes` | `UserConnectionProofs` | `TypeOK` |
| `UidRestored` | `UserConnectionProofs` | `EuidRestored` |
| `SecondAttemptAsOwner` | `UserConnectionProofs` | `SecondAsOwner` |
| `ConnectLooksOnce` | `UserConnectionProofs` | `LooksOnce`: `UserConnection` implements `ConnectOnce` |

**Coordinator.** None of its invariants is inductive as it stands. `Collect` may
drop `t` from `awaiting` only if nothing of the scrape is left in `t`, and
`FanOut` may send to `t` only if nothing was; so `IInv` says that whatever is on
its way through a task belongs to the scrape in hand and is awaited
(`OutstandingIsAwaited`), is in one place (`OnePlacePerTask`), that a task whose
reply is awaited is no longer to be asked (`AwaitedWasAsked`) and that each task
is registered under its own scope only (`SendersOwnScope`). Type correctness
needs it too: `FanOut` applies `phase` to `senders[s]`, which is a task only
because a pending scope is registered (`ScrapeStage`).

**Following users.** `StaleSenderHasRemoval` is inductive relative to `IInv`.
`ActiveUserIsComing` is the other half, and the safety behind
`UserMonitoredUnlessOverlapped`: it needs to know that `found` is empty when a
`UserNew` is taken and holds that one user until it is done with, or taking one
would lose another (`LocalsInUse`), and that an unread `UserRemoved` of a user
who is there is of an older session and in `overlapped` (`OverlapKnown`), or
taking it would lose a manager that nothing replaces. A connection that hangs
must not forget anybody either: when it fails, the session it was for is over,
and if the user is back the new session's `UserNew` is unread or was missed
(`StalledKnown`).

**The scrape service.** `EachRequestInOnePlace` needs that a request that was
not sent yet is nowhere (`UnsentIsNowhere`), or a send could double it. For the
refinement the abstract look at the registry is `Respond`, long after the
managers were asked one by one. `SnapInv` says why the answer is still one look:
while a scrape is under way nobody is registered or unregistered, every
registered task is still to be asked, awaited, in `got`, or dead, and an awaited
task that lives has the request or its reply. At `Respond` nothing is pending or
awaited, so the report has every registered task that is alive.

**Tasks.** Both sides of the interface are proved against the same abstract
module, which is why `UnitMonitor` may be studied apart. On the coordinator's
side the point is `FanOutKept`: a request is sent to a task only under the scope
it is registered for (`SendersOwnScope`), and never to one that was replaced.

**Unit table.** `BaseInv` (`TypeOK` and `Shape`: which of the locals are in use
where) carries `GhostHasRemoval` and `StaleStatusIsRefreshed`, each inductive
relative to it. `MissingUnitIsComing` needs to know where `load_all` stands:
`LoadCovers` says that every monitored unit that is loaded is listed, being read,
already in the new table, announced by an unread `UnitNew` or named by a history,
and `CrossedKnown` that a unit that came back while its `UnitRemoved` is unread is
in `crossed`.

**Recorder.** `ShapeInv` says what a handler may still have to do: a part of
what its batch asks for (`TypeInv`), with no later stage done before an earlier
one (`OrderInv`), and that overlapping is mutual and includes whoever runs
(`MatesInv`). From the moment at which a handler has cleared a family, and until
it has read it, each value in the family was recorded by one of its mates:
whoever clears or writes meanwhile is running and so becomes one (`ValueInv`).
That gives `NothingStale` and `GaugesUnblended`. For counters `SumInv` keeps the
set of mates whose writes the family still holds: a clear empties the set, a
write, done once by each, adds its handler. For a scrape that nothing overlaps,
`AloneInv` has the family equal to what the handler has written since its clear.
`scrape_count` is never cleared, and holds the number of handlers that have
counted themselves (`CountedInv`); a handler that begins when another is done
counts itself when that one has read, and so reads a larger number
(`PrecedeInv`).

**Statistics.** `CollectInv` has four parts. `UnitInv`: types, and that no
unit's path is the root of cgroupfs, so what is being read is not the machine's.
`FlagsInv`: the flags read so far are the present ones unless the settings
changed since the first of them was read. `RoundInv`: of the groups asked for,
the resource statistics that are done with are all whole, or all were given up
with nothing of them left to do; whether the tasks' are does not matter to them,
because tasks come last (`FirstOf`). `ReadInv`: what was read of the group in
hand and what is left to be read are together what the source provides, so
`FileMissing`, which starts the group over from D-Bus, must forget what it has.
`TrueInv` adds that all of it is what systemd would reply, as long as nothing
disturbs the scrape. The hard case is `io.stat`, which the code adds up word by
word and systemd device by device: `SumOfSums` shows, by a bijection of the
units counted, that a sum over pairs is the sum of the sums over the second of
each pair, for any finite lines and words.

**Connection.** `UidInv` ties the euid to the stage of the mutex's holder, and
says that only a root exporter ever gets there: `Restore` sets the euid to 0
whatever it was before. `CallInv` adds what the bus sees: without an excuse, a
connection has the exporter's own uid, or the owner's in the second attempt
(`Credentials`), and a refusal means that the bus does refuse (`Refusals`).

Each strengthened invariant was also checked with TLC, on the instances of the
runs.

Only model-checked: `ScrapeResolved`, `UserMonitoredUnlessOverlapped`,
`DepartedUserDropped`, `TableConverges`, `StatusConverges`, `ScrapesServed` and
`CallsReturn`, because liveness under fairness is out of the prover's reach; and
the runs that find the code at odds with what is said of it, which are
counterexamples. Every invariant and every refinement that a run checks is
proved. What the proofs assume of the constants are the named assumptions only:
that the constants have their types and bounds are positive; in `ScrapeRecorder`,
that a process has no more scrapes than a `u64` counts, and that a batch has
numbers of 64 bits and each unit once, because a manager's units are a map by
name (`RecorderAssumption`, `BatchAssumption`); in `UnitStats`, that `io.stat`
has finitely many lines and words, whose values are naturals
(`IoStatsAssumption`).

## 5. Plan

Done: the scrape path and the following of users, the unit monitor, the
recorder, the statistics, the connection, their interfaces, and the theorems of
section 4. Left:

1. the safety behind the other liveness properties, as `ActiveUserIsComing` is
   for `UserMonitoredUnlessOverlapped`;
2. `TableConverges` for two monitored units, if the state space allows it.

Limits of the models: `units_liveness` lets systemd unload a unit only while less
than `MaxEvents` signals are unread. Without a bound an unused unit that is
unloaded faster than the task reads it is loaded again by each read, and each
`UnitNew` leads to the next read. The
duration counter `scrape_time_us` is left out of `ScrapeRecorder`. The sums of
`io.stat` are not bounded to 64 bits.

### Not modelled

* The command line, configuration and logging, apart from the channel's capacity
  and the exit on a coordinator error: option parsing and output only. `--check`
  does not compile the filters, which the tasks do when they start, so that a
  bad pattern is found by a task that ends and not by `--check`; to the
  coordinator that is a task that ends while loading.
* A call of `connect_user_manager` that is dropped half-way, which would release
  the mutex under the user's euid: nothing in `src/` drops one. The uid that the
  client claims in the handshake: it is the euid at that time, and the bus goes
  by the kernel's credentials.
* `exportable_derive` (a compile-time macro that the exporter does not use) and
  packaging: no behaviour at run time.
