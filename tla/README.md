# dgxtop in TLA+

This directory models the concurrent and stateful core of dgxtop, a terminal
monitor for NVIDIA DGX machines (Rust, `src/src`), the way it divides the screen, and
of its web edition `tonic-dgxtop-web` the exporter (Python/asyncio) and the client
(TypeScript/React). TLC checks each model on small
instances, and TLAPS proves the safety properties of all of them for every value of the
constants. Paths below are relative to the repository: `src/src/app/worker.rs` is
the crate's `src/app/worker.rs`.

    tlc -config MCEventLoop.cfg MCEventLoop.tla     # a run (see "Runs")
    tlapm EventLoop_proofs.tla                      # the proofs about a component

## 1. The system

```
 terminal ──poll/read──> event thread ──bounded channel (256)──> main thread
 (crossterm)             worker.rs        Key/Mouse/Resize/Tick   run_ui: draw, recv, handle
                                                                    │ Tick
   /proc, /sys, NVML <──── collectors <────── collect_all <─────────┘
                               │ update_*                 keys: ui/input/*
                               └────────> AppState <──────────────┘ ──> views (draw)

 NVML, psutil <── poll loop ──write──> TimescaleDB <── GET /api/history <── browser
                     └─ fan-out ──WebSockets──────────────────────────────> browser
```

| Component | State | Operations | Interacts with |
|---|---|---|---|
| event loop: `app/worker.rs`, `app/event.rs`, `ui/terminal.rs`, `main.rs` | `last_tick`, the channel, terminal modes | poll, send, tick; draw, recv, handle, collect; set-up, clean-up, panic hook | terminal; collectors and `AppState` on every Tick |
| keyboard modes and process table: `app/state.rs`, `ui/input/*`, footer | `input_mode`, tab, sort, filter, selection, `process_kill_confirm`, the table | keys of five reachable modes, `update_gpu_processes`, `kill_process` | the processes of the machine (exit, pid reuse) |
| device panels: `app/state.rs`, `ui/input/normal.rs` | lists, selected indices, maps of histories | `update_disks`, `update_networks`, `update_gpus`, selection keys | reports of the collectors |
| device history: `domain/history.rs` and the `record` functions | ring buffers, minute buckets | `push`, `to_sparkline_data`, `aggregate_window`, `max_in_window` | fed by every tick, read by every draw |
| configuration: `config/*` | `AppConfig` | load, sanitize, apply the command line, `adjust_interval` | everything that is sized or paced by it |
| system collectors: `collectors/{cpu,disk,memory,network}.rs` | previous counters and times | `collect` | `/proc`, `/sys` |
| GPU collectors: `collectors/{gpu,gpu_process}.rs` | NVML handle, CPU times by pid | `collect` | NVML, `/proc/<pid>` |
| views: `ui/views/*`, `ui/theme.rs` | none of their own | `render`, the height budget | read `AppState`, drawn after every event |
| exporter: `tonic-dgxtop-web/exporter/app/{main,storage}.py` | `latest`, `ws_clients`, pool, poll task | lifespan, poll loop, fan-out, WebSocket endpoint, history | collectors, TimescaleDB, browsers |
| exporter collectors: `exporter/app/collectors/*.py` | previous counters | `collect` | NVML, psutil |
| web client: `webui/src/*` | snapshot, history by range, sockets and timers | connect, reconnect, select a range, fetch | exporter through nginx |
| deployment: compose, SQL, nginx | none | – | – |

### What is hard about it, and what makes each component correct

* **Event loop.** Two threads, a bounded channel whose sender blocks while the main
  thread collects, a poll that time-outs and input race for, and five ways out of
  the program. Correct when no key is lost or overtaken, ticks keep their distance
  even after a blocked send, input cannot starve the ticks nor ticks the quit key,
  and the terminal is given back on every way out.
* **Process table.** A tick may re-sort, shrink or replace the table between the
  frame the user looked at, K, and y; processes exit and pids are reused meanwhile.
  Correct when exactly the pid on the screen is signalled, nothing of one dialogue
  survives into the next, and the order of the table is the one displayed.
* **Device panels.** Lists are ordered by activity, so that an index means another
  device after each tick; devices vanish and come back. Correct when a selection
  follows its device, never leaves its list and always has a history to draw.
* **Device history.** Wrap-around at the capacity, minutes without samples, a deque
  that overflows. Correct when charts and statistics are what the log of all samples
  says they are.
* **Configuration.** Three sources, merged field by field. Correct when every path
  sanitizes and the command line wins.
* **Exporter.** One thread, but a task switch at each `await`: a client joins or goes
  in the middle of a fan-out, stalls it, the database is down or hangs, the loop is
  cancelled anywhere. Correct when each client gets the snapshots in order and
  without gaps, one client cannot stop the polling for good, and NVML and the pool
  outlive the loop that uses them.
* **Collectors.** A rate is a difference to an earlier reading, divided by a time that
  is kept apart from it; counters restart and wrap, files cannot be read, names and pids
  are used again. Correct when no rate is more than what its source really moved in the
  time it is divided by.
* **GPU collectors.** NVML answers one call at a time, and a device or a process may go
  between two of them; what was read is kept by position in one place and by number in
  another. Correct when what is shown together is of one device and adds up.
* **Views.** A screen of any height is divided among panels that want more than there
  is, and the panels write some rows without looking at their height. Correct when
  each panel gets its minimum as long as the minima fit, all is shown where there is
  room, and nothing is written outside the panel it belongs to.
* **Web client.** Sockets, timers and responses call back in any order, also after the
  page has moved on. Correct when the page comes back to the latest snapshot after any
  loss of the connection, never goes back to an older one, and ends up showing the
  range that is selected.

`PROJECT.json` lists each hazard at its line with the properties that cover it.

## 2. Modules and code

* **`EventLoop`** (`MCEventLoop`). `evPc` is the program counter of
  `spawn_event_loop`: poll (`PollInput`, `PollTimeout`, `PollFails`), send the input
  (`SendInput`), tick check (`TickCheck`), send the tick (`SendTick`), reset
  `last_tick` (`ResetTick`). A send is enabled while the channel has room, which is
  how `SyncSender::send` blocks. `uiPc` is the counter of `main` and `run_ui`:
  `InitTerminal`, `CaptureMouse`, the first `Collect`, then `Draw`/`Recv`/`Collect`,
  `ReleaseMouse`, `Restore`, with `TerminalFails` (an I/O error, returned by `?`) and
  `Panic` (the hook of `main`; also while the terminal is set up or the event thread is
  spawned, where `expect` may panic). `RxDropped` is what the sender learns when the
  receiver is gone. The event thread may fail (`PollFails`) or panic
  (`EventThreadPanics`: the same hook gives the terminal back while the main thread goes
  on); once the channel is empty and its sender gone `RecvFails` ends the loop. Time is in units of 0.1 s; `elapsed` is `last_tick.elapsed()`,
  and both clocks stop at `MaxInterval`, beyond which no comparison changes.
  `handled`, `gap` and `paced` are history variables.
* **`KeyDelivery`** is what the two threads promise together, stated without threads,
  channel or ticks: keys are typed, the oldest one is handled next, until the session
  is over. `EventLoop` implements it: `Keys` instantiates it with the refinement
  mapping in which the pending keys are those in the terminal's buffer, in the event
  thread's hand and in the channel, and none once `run_ui` has returned.
* **`ProcessView`** (`MCProcessView`). One action per key of each mode, `TickEvent`
  for `update_gpu_processes` inside `collect_all`, `Draw` for the footer's prompt.
  Around it `ProcessStarts`/`ProcessExits` give the same pid to another process
  (`inc` counts them). `kill_process` is two steps, the guard on the size of the pid with the look at
  `/proc/<pid>/cmdline` (`ConfirmKill`), and `kill` (`SendSignal`). `Sorted` is the
  stable `sort_by` as ranks of a total order, `filtered_processes` a substring
  match over short sequences.
* **`DevicePanels`** (`MCDevicePanels`). `update_disks`, `update_networks`,
  `update_gpus` and the keys `d D n N h l j k` on lists of names.
* **`RingBuffer`**, **`DeviceHistory`**. The buffer as operators (push,
  `to_sparkline_data`), and the state machine of one measured value: `record` pushes
  a sample to the buffer and to the `TimeWindowAggregator`. `log` is a history
  variable with all samples, against which buffer, buckets and queries are compared.
* **`Collectors`** (`MCCollectors`). `collect_all` is one tick: `CollectCores`,
  `CollectPower`, `CollectDisks`, `CollectNets`, `CollectProcs`, each the whole
  `collect` of its collector as far as rates go (cores are paired by their place in
  `/proc/stat`, as the code does it), over a machine whose sources work, leave and come back
  (`Works`, `Leaves`, `Comes`) while time passes. A reading carries, beyond the code's
  fields, what its source had moved by then and when it was taken (`moved`, `at`), so
  that a reported `(delta, elapsed)` can be compared with the truth `(moved, span)`.
  One counter stands for the several counters of a device. Of an energy counter the range
  may be unreadable as well (`EnergyReading`), in any of the readings.
* **`GpuReadings`** (`MCGpuReadings`). One step per device of each of the two loops that
  a tick makes over them (`ReadGpu`, `ReadProcesses`), the link report between them
  (`collect_nvlink`), and the two updates of `AppState`. Between any two steps devices
  are lost or come back (`DeviceChanges`) and processes start or end
  (`ProcessChanges`). What a device call returns beyond its number is left out, except
  the memory that two collectors derive from the same tables. Each table says for itself
  what a process uses (`uses[g][p]`, 0 where NVML says unavailable), and each collector
  merges them in its own way (`Largest`, `RowMemory`). NVML is taken to list a process
  once in a table.
* **`Layout`** (`MCLayout`). An event and the frame after it are one step. `Overview` is
  the height budget, `Frames` the division into header, body and footer, `Split` what
  ratatui's solver may make of a list of lengths and fills: exact lengths while they
  fit, any shortening when they do not. `CpuRows`, `MemoryRows`, `GpuRows` are the rows
  written without a look at the area, `PanelAreas` and `ChartAreas` the tables, charts
  and statistics. The parts keep the height the code computes with; columns are left out.
* **`LiveClient`**. `useLiveSnapshot` as sockets and timers of each run of its effect
  (`OnOpen`, `OnMessage`, `OnClose`, `Timeout`, `Remount`), the GPU page as requests
  under way (`OpenPage`, `SelectRange`, `Interval`, `Response`, `RequestFails`), and
  around them an exporter that goes and comes back. What `Exporter` is shown to
  promise - each client gets the snapshots in order, greeted with the latest - is what
  `OnOpen` and `Publish` assume of it.
* **`Config`**. `Load`, `ApplyCli`, `AdjustInterval`, `Quit` over every file and
  command line built from the constants.
* **`Exporter`**. Every action is a stretch of code between two awaits. The poll
  loop's counter `pollPc` names what it awaits: the database (`write`), a client
  (`fanout`), the interval (`sleep`). `_fanout` works on the copy `todo` of the client
  set. `Stop` is the cancellation of the loop, at whichever await it is; `Close`
  closes the pool and NVML, or, if closing the pool raises, leaves NVML open to the end
  of the process. That `send_text` hands its data over before its first suspension, so
  that the greeting of a client comes before the next snapshot, is what uvicorn does and
  is assumed.

`Layout`, `GpuReadings` and `LiveClient` name their specifications `LayoutSpec`,
`GpuSpec` and `ClientSpec`, since modules with proofs extend them together with another
component of the same kind.

The models are separate because the components share no mutable state across
threads: everything behind the channel runs on the main thread, one event at a
time, so that a tick is atomic with respect to keys. What crosses the boundary
(a Tick, a key) is an arbitrary step of the other models.

The definitions whose names have a suffix (`SendInput_TrySend`, `Finished_OneMore`)
and the comment "Mutant" are plausible mistakes in that piece of code. They are used
by nothing; put in the place of the definition they are named after they make the
property listed with them in `PROJECT.json` fail, which shows that the property
depends on that code.

## 3. Runs

| Run | Checks | Bounds, and why they suffice |
|---|---|---|
| `event_loop` | `TypeOK`, `TerminalReleased`, the refinement `KeysAreDelivered`, `TickSpacing`; under fairness `KeysTakeEffect`, `CollectsForever` | Channel of 2 and terminal buffer of 2: both fill up and the sender blocks with an event in hand. Interval 2 of 1..3 units: earlier, at and later than a tick. 2 keys (order needs two), 1 failure (the first ends the program). |
| `event_loop_speed` | `RefreshSpeedApplies` violated | Channel of 1, one key; see findings. |
| `process_view` | `TypeOK`, `OnlyShownPidIsKilled`, `TableSorted`, `PromptIsStable` | 2 pids with 2 incarnations each, tables of up to 2 rows with 2 value profiles that order differently by column, filters of up to one character of which each pid matches a different one; pid 2 is above `MaxSignalable`, to reach the guard of `kill_process`. |
| `process_recycling` | `RecyclingProtected` violated | Same, with both pids signalable. |
| `device_panels` | `TypeOK`, `SelectionsResolve`, `SelectionFollowsDevice`, `HistoriesSurvive` | 3 disks and 2 interfaces in every subset and order; 2 GPUs, which no report may have shown yet when a key comes. |
| `device_history` | `TypeOK`, `SparklineIsRecent`, `BucketsAreMinutes`, `WindowIsLatestSampledMinutes` | Capacity 3 and 4 buckets ("24 hours" of two 2-minute "hours") overflow within 7 samples over 7 minutes, with gaps of any length; 2 values tell sums and maxima apart. |
| `config` | `SafeValues`, `CliTakesPrecedence` | Each field inside, below and above its limits, absent or given. |
| `collectors` | `TypeOK`, `ThroughputIsReal`, `PowerCoversEnergy`, `UsageIsReal` | In one behaviour the sources of one collector move (`subject`): they share only the clock. 1 disk, 1 interface, 2 cores (one in front of the other), 2 energy domains and 2 processes (some readable, some not; symmetric), tables of 2 rows (a process on two GPUs), 3 time units, so three ticks at different times around a failed one; each source moves up to 2, the range of the energy counter, so that it wraps, with its range known in both readings, in one of them or in none. |
| `gpu_readings` | `PageIsOfOneDevice`, `MemoryAddsUp` | 2 devices with a link between them, either lost at any call; 2 processes (symmetric) on one device (a second busy device would repeat the first, as no step relates processes of two devices), each in no table, in the graphics table, or in both with amounts that differ either way, so that they agree about a process or not; a process of the compute table alone is one whose graphics entry could not be read. |
| `layout` | `DrawsInside`, `HeightIsShared`, `ChartsAreLegible`, `TallerShowsMore` | Every height from 2 rows to more than all panels want together; 18 and 144 cores (rows of 4 and of 8, the first with an incomplete one), 0, 1 and 5 GPUs (none, one, and more than the panel grows for), fewer and more devices than are listed. |
| `exporter` | `TypeOK`, `NoGaps`, `CaughtUp`, `RegisteredIffConnected`, `GpuOutlivesPolling`; under fairness `FanoutCompletes`, `LifeMovesOn` | 2 clients (one stalls or goes while the other is served), 3 snapshots (a gap needs three), 2 connection attempts, 1 failing poll. |
| `live_client` | `SnapshotsAdvance`; under fairness `Recovers`, `RangeIsShown` | 3 ranges (the one shown, the one selected, a late one), 2 runs of the effect (a stopped one and its successor), 3 snapshots, 2 requests of each range under way. |

Deadlock is checked in every run; a program that has ended stutters in `Ended`.

**Bounds in guards.** `TtySize`, `MaxKeys`, `MaxFailures` (EventLoop); `MaxInc`,
`MaxRows`, `MaxFilter` (ProcessView); `MaxMinute`, `MaxPushes` (DeviceHistory);
`MaxMoved`, `MaxTime`, `MaxRows`, `subject` (Collectors); `Busy`, `Entries` (GpuReadings);
`MaxSnapshots`, `MaxFailures` (Exporter); `MaxEffects`, `MaxPublished`, `MaxInFlight`
(LiveClient). They limit what the environment does, and
only that; the theorems hold for all their values.

**Fairness.** `EventLoop`: weak fairness of each thread and of the clock; both
threads only ever block on the channel or on the terminal, and the operating system
runs whatever is runnable. Nothing is assumed of the user or the terminal: input may
stop or never stop. `Exporter`: weak fairness of the steps of the poll loop, of the
start-up and of the socket tasks, since asyncio runs every task that is ready, one
after the other; and a stalled client takes data again or is given up
(`Unstall`). The fan-out itself has no time-out. What gives a client up is the time-out
of a keep-alive ping that uvicorn sent before the client stalled - a ping issued while a
send is blocked waits behind that send - and, in the shipped deployment, nginx, which
stands between the two and whose `send_timeout` (by default a minute) ends a connection
that takes no data. Closing the pool comes to an end. That a stop is asked for is not
assumed. `LiveClient`: weak fairness of each kind of
callback, since the browser's event loop runs what is due and a connection attempt or
a request comes to an end; and strong fairness of `Response`, that is, if requests for
a range are made again and again while the exporter can be reached, they do not all
fail. The exporter need not stay up; what is shown is conditional on it (`<>[]up`).
The other modules have no liveness properties.

## 4. Findings

Two runs state what the repository says and show that the code does otherwise.

1. `event_loop_speed`: `+`/`-` do not change the refresh speed: `run_ui` computes the
   tick rate once (`src/src/ui/terminal.rs:33`), README: "Increase / decrease refresh
   speed".
2. `process_recycling`: the "PID recycling protection" looks only whether *some* process
   has the pid (`src/src/ui/input/process.rs:92`).

Three more divergences are stated in the modules. Each can be seen by giving the
property the place of the others in the module's configuration file:

3. `WindowIsRecent` (INVARIANT of `DeviceHistory`): the statistics "over the last N
   hours" count buckets and not minutes, so that they reach further back after a gap
   (`src/src/domain/history.rs:215`).
4. `FileIntervalIsUsed` (PROPERTY of `Config`): the interval (and theme) of the
   configuration file is always overwritten, by clap's default if not by an option
   (`src/src/config/app_config.rs:32`).
5. `HistoryAssertion` (INVARIANT of `Exporter`): after 30 failed connection attempts the
   exporter serves without a pool and a history request fails in an assertion
   (`exporter/app/main.py:157`).

Seen while modelling; no text of the repository promises more, so the properties leave
these out, each saying so:

* The error path of `main` (`src/src/main.rs:77`) restores the screen and leaves the
  mouse captured (`TerminalReleased`).
* `Ctrl+C` quits in Normal mode only (`src/src/ui/input/normal.rs:13`, `CtrlCElsewhere`
  in `ProcessView`), where the README's key table says just "Quit".
* The totals of the disk and network panels are sums of rates times the *current*
  interval (`src/src/ui/views/overview.rs:926`, `:1175`), which `+` and `-` change for the
  samples taken before as well.
* After a tick without readable energy counters the CPU power is overstated, the old
  readings being divided by the time of the last tick (`src/src/collectors/cpu.rs:306`);
  after an unreadable statistics file an interface shows all its bytes since the boot
  (`src/src/collectors/network.rs:46`).
* A counter that wraps around while `max_energy_range_uj` can be read neither time is
  taken for one that started again, so that the energy up to the wrap is missing
  (`src/src/collectors/cpu.rs:279`, `:299`): `PowerCoversEnergy` promises all of the energy
  only where the range was read once.
* The two GPU collectors merge the process tables of NVML differently: a process in both
  counts with its larger amount for its GPU (`src/src/collectors/gpu.rs:124`) and with that
  of the compute table in its row (`src/src/collectors/gpu_process.rs:182`). `MemoryAddsUp`
  says that the rows are never more, and when they are the same.
* If `store.close()` raises on shutdown, `gpu.shutdown()` is not reached
  (`exporter/app/main.py:125`); the process ends all the same.
* Cores are paired by position, so that a core that goes offline or comes back mixes up
  those behind it for one report (`src/src/collectors/cpu.rs:545`): `CoreRatesAreReal`
  speaks of the others. `iowait` may go down, which the model's times do not.
* A process that uses two GPUs has a CPU percentage in its first row and 0 in the others
  (`src/src/collectors/gpu_process.rs:125`).
* One GPU that cannot be opened costs the report of all (`src/src/collectors/gpu.rs:408`);
  a discrete GPU whose memory cannot be read for one tick is shown as sharing the
  system's.
* With more than four GPUs the panel stays at 14 rows (`src/src/ui/views/overview.rs`):
  the cards shrink and their gauges write over each other, inside the panel.
  `EnoughRoomShowsAll` says "of up to four". A table selection may lie below the rows
  that are shown.
* In development React's StrictMode runs the effect twice: the `onclose` of the first
  socket may set `connected` to false while the second is open
  (`webui/src/hooks/useLiveSnapshot.ts:35`).

## 5. Proofs

`SumTheorems` and the modules `*_proofs` are checked by tlapm to the last leaf. The
assumptions are the named `ASSUME`s of the modules: constants that count or bound are
natural numbers (capacities not zero), sets of pids and clients are finite, samples are
natural numbers, the limits of the interval are in order, a terminal has two rows.
Nothing is assumed of how many there are.

* **`EventLoop_proofs`**: `TypeOK`, `TerminalReleased`, `TickSpacing`, and the
  refinement `KeysAreDelivered`. The invariant adds `HandFull` (a thread about to send has an event
  to send), `WayOut` (which terminal modes are on at each point of the main thread
  and for each outcome: the release at the end follows from the modes at the points
  before it) and `ClocksAgree` (while no tick is being sent the distance to the last
  tick is at least `elapsed`, which turns the code's comparison with `last_tick`
  into a statement about ticks). For the refinement the keys in the channel, the hand
  and the terminal's buffer are each in order and before those of the next
  (`KeysOrdered`), and the hand is empty except while sending (`HandEmpty`): what `Recv`
  takes is then the oldest key in transit, every other step of a thread moves a key
  from one place to the next or none at all, and maps to a stutter.
* **`ProcessView_proofs`**: `TypeOK`, `TableSorted`, `ConfirmOnlyInKillMode`,
  `OnlyShownPidIsKilled`, `PromptIsStable`. For the sort: `Precedes` is a strict
  total order, so ranks are distinct, so (an injection of a finite set into itself is
  onto) each place is the rank of exactly one row, and a lower place is never
  preceded by a higher one. The type is inductive once the rows that a filter leaves are
  shown to be rows of the table (`FilteredRows`), each at the place of its rank
  (`NthExists`). For the dialogue: outside the draw phase the frame shows
  what is to be confirmed (`PromptIsShown`), a pid to confirm is the chosen one, and
  `kill_process` runs with the pid it took (`SignalIsPrompted`).
* **`Config_proofs`**: `SafeValues`, `CliTakesPrecedence`, from what `sanitize` does
  to each field.
* **`Collectors_proofs`**: `TypeOK` (no difference underflows), `ThroughputIsReal` (its
  parts `DiskRatesAreReal` and `NetRatesAreReal`), `PowerCoversEnergy`, `UsageIsReal`
  (`CpuIsReal` and `CoreRatesAreReal`), and `EntriesBounded`. What is kept of a source is behind it (`Behind`): its
  counter has gone up by no more than the source moved since, which the machine
  preserves whatever it does (`StaysBehind`); the readings of a collector share the time
  kept with them, or are older where that is the safe side (`PowerKept`). The
  wrap-around of the energy counter is undone by uniqueness of quotients
  (`EnergyDelta`), for every range; where the range is not known the difference is still
  no more than was used (`QuotientsGrow`). A core with the same cores in front of it is
  compared with itself because two cores of a finite set are never in one place
  (`OwnPlace`).
* **`SumTheorems`**: sums over finite sets (`SumFunctionOnSet`), which three components
  rest on: of no element, of one element more, of larger elements
  (`SumMonotone`), over a renamed set, over two disjoint sets and over any number of
  them; further the size of a union and of an image, and the maximum of a finite set.
  The sum is a recursive function on the subsets of the set, so
  that what it satisfies can be shown by well-founded induction on subsets, stated with
  a set in the place of the usual predicate (`SubsetInduction`, `NatSetInduction`).
* **`DeviceReadings_proofs`**, about `DeviceHistory` and `GpuReadings`.
  - `TypeOK`, `HoldsLastSamples`, `SparklineIsRecent`, from lemmas on suffixes of
    sequences: pushing to the last n gives the last n, and a suffix of a
    suffix is a suffix.
  - `BucketsAreMinutes`, `WindowIsLatestSampledMinutes`: the code keeps a running sum, a
    maximum and a count per minute and combines those of several minutes, the properties
    speak of the samples themselves. That the buckets are in order (`BucketsInOrder`) is
    shown first; the inductive invariant `BucketsHoldSamples` says that every bucket is
    sum, maximum and count of exactly the samples of its minute in the log and that no
    minute that still fits is missing; a window is then a disjoint union of minutes,
    over which sums add up (`SumOfParts`).
  - `PageIsOfOneDevice`, from what the loop has read so far being the devices
    `0..idx - 1` in order: a device that fails gives up the whole report, so that no
    later one takes its place.
  - `MemoryAddsUp`: `MemoryRead` relates the metrics that the first loop has read, and
    the rows that the second has, to the tables of each device that did not change
    during the tick. There is one row for each listed process (`RowIsOneAmount`,
    `RowsAddUp`), whose amount is one of those that the other collector takes the largest
    of, so that the sum is not larger (`SumMonotone`), and the same if the compute table
    says the most of everything.
* **`WebService_proofs`**, about `Exporter` and `LiveClient`.
  - `TypeOK`, `GpuOutlivesPolling`, `RegisteredIffConnected`, `NoGaps`, `CaughtUp`.
    `NoGaps` rests on what each client has been sent at each point of a fan-out: those
    still in `todo` lack exactly the latest snapshot, those that joined since the copy
    was made were greeted with it.
  - `SnapshotsAdvance`: that the page never goes back is not inductive, since a second
    socket could bring an older snapshot. `LiveInv` adds that not more than one socket or
    timer is left of the effects that matter (`OneConnection`), and that what lies in its
    inbox is in order and not older than what is shown (`InboxesAscend`). `OneFeed` (no
    snapshot is fed twice, no connection is left behind) follows as well.
* **`ScreenPanels_proofs`**, about `DevicePanels` and `Layout`.
  - All four properties of `DevicePanels`. `SelectedHasHistory` becomes
    inductive as "every listed device has a history" (`ListedHaveHistories`).
  - All four properties of `Layout`, for every height of the terminal, every number of
    cores, GPUs and devices, and every outcome of the solver. `VerticalFacts` says what
    can be relied on when an area is divided: the parts lie one below the other and
    inside the area, whoever asks for a length gets no more, and gets it if all lengths
    fit. `DrawsInside` follows from it, also for parts without a row: a gauge at their
    top is on the border at most. `HeightIsShared` is arithmetic of the budget
    (`CpuMemHeight`), and `EveryCoreHasAPlace` counts the cells. `TallerShowsMore` holds
    because a proportional share, rounded down, grows by nought or one with each row,
    and reaches the full size exactly where the formula changes (`Share`, `CpuMemGrows`).
    `ChartsAreLegible` counts what the labels and the statistics take from a column
    (`ChartLengths`).

**Model-checked only.** The liveness properties `KeysTakeEffect`, `CollectsForever`,
`FanoutCompletes`, `LifeMovesOn`, `Recovers`, `RangeIsShown`: fairness and ENABLED are
out of the prover's reach. Every invariant and every action property of the runs that
pass is a theorem.

## 6. Not modelled

* **Views beyond rows**: columns, colours, texts, number formats, the overlays and the
  chart scales (no state).
* **Plain functions**: `RingBuffer::average`/`max_value`, `redline_threshold` (a clamp),
  the derived percentages of the domain records.
* **Code without a caller**: `save_config`, `clear`, the Settings overlay (no key reaches
  it).
* **Values read anew on each tick** and kept nowhere: memory, frequencies,
  temperatures, hwmon power, capacities of disks. The total CPU times are treated by the
  code as those of one core.
* **Exporter collectors** (`exporter/app/collectors/*.py`). The same differences as in
  `Collectors`, over psutil and NVML; two things differ: previous disk counters are keyed
  by the base device while the counters may be a partition's (`system.py:85`), and the
  readings of interfaces that are gone are kept while their time moves on
  (`system.py:145`). Both give wrong rates where two mounted partitions share a disk or an
  interface returns; nothing in the repository says otherwise. `/metrics` and
  `/api/snapshot` only format the latest snapshot.
* **Deployment**: nginx, compose and schema files have no behaviour of their own.
* **Other pages of the web client**, which display the snapshot.

NaN and infinite samples are excluded: samples are counts, percentages and watts read
from the kernel and NVML. In `EventLoop` a full operating system buffer of the terminal
simply delays the typing.

## 7. What could follow

1. `EventLoop` composed with the kill dialogue, for keys typed ahead of the frame (K and
   y in the channel behind a tick): the confirmed pid was asked for but never displayed.
2. The collectors of the exporter, as a variant of `Collectors`.
3. Abstract specifications for the history ("the last N samples") and the exporter (a
   broadcast of a growing log), of which `SparklineIsRecent` and `NoGaps` are the
   invariants.
