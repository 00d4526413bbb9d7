------------------------------ MODULE ProcessView ------------------------------
(***************************************************************************)
(* The keyboard modes of dgxtop and the GPU process table they act on:     *)
(* src/ui/input (normal, process, overlay), the process part of AppState   *)
(* (src/app/state.rs), the draw / receive / handle cycle of run_ui and,    *)
(* around them, the processes of the machine, which start, exit and have   *)
(* their pids reused while the program runs.                               *)
(*                                                                         *)
(* Strings are sequences over a small alphabet, already in lower case;     *)
(* show_per_core, a display flag, is left out.                             *)
(* InputMode::Settings has a handler, but no key leads to it.              *)
(***************************************************************************)
EXTENDS Integers, Sequences, FiniteSets

CONSTANTS
  Pids,         \* process ids
  MaxSignalable,\* the largest pid that kill() takes, i32::MAX
  MaxInc,       \* bound: processes that get the same pid, one after another
  Profiles,     \* values of a row's sort columns (all but its pid)
  MaxRows,      \* bound: rows of the process table
  FilterChars,  \* characters a user types into the filter
  MaxFilter,    \* bound: length of the filter
  Text          \* Text[p]: command, user and decimal pid of process p

SortColumns == {"GpuMemory", "GpuUtil", "CpuPercent", "HostMemory", "Pid"}
NoPid == 0

ASSUME PidAssumption == Pids \subseteq Nat \ {NoPid} /\ IsFiniteSet(Pids)
ASSUME TableAssumption ==
  /\ MaxSignalable \in Nat /\ MaxInc \in Nat \ {0} /\ MaxRows \in Nat /\ MaxFilter \in Nat
  /\ Profiles \subseteq [SortColumns \ {"Pid"} -> Nat]
  /\ Text \in [Pids -> SUBSET Seq(FilterChars)]

VARIABLES
  alive,     \* pids of the live processes
  inc,       \* inc[p]: how many processes have had pid p
  phase,     \* where the main thread is: draw, recv, signal (inside kill_process), done
  rows,      \* gpu_processes
  mode,      \* input_mode
  tab,       \* active_tab
  sort,      \* process_sort
  asc,       \* process_sort_ascending
  sel,       \* process_selected_index
  filter,    \* process_filter
  confirm,   \* process_kill_confirm, NoPid for None
  target,    \* the pid kill_process was called with, NoPid outside it
  chosen,    \* history: the process (pid and incarnation) of the row K picked
  shown,     \* history: the pid in the kill prompt of the last frame, NoPid if none
  signalled  \* history: whether the last event sent a SIGTERM, and to whom

world == <<alive, inc>>
table == <<rows, sort, asc, sel, filter>>
killing == <<confirm, target, chosen, signalled>>
vars == <<alive, inc, phase, rows, mode, tab, sort, asc, sel, filter, confirm, target,
          chosen, shown, signalled>>

Modes == {"Normal", "ProcessSort", "ProcessFilter", "ProcessKill", "Help"}
Tabs == {"Overview", "GpuDetail", "Processes"}
Phases == {"draw", "recv", "signal", "done"}
Incarnations == 0..MaxInc
Process == [pid : Pids, inc : Incarnations]
NoProcess == [pid |-> NoPid, inc |-> 0]
Row == [pid : Pids, inc : Incarnations, profile : Profiles]

next_column ==
  [GpuMemory |-> "GpuUtil", GpuUtil |-> "CpuPercent", CpuPercent |-> "HostMemory",
   HostMemory |-> "Pid", Pid |-> "GpuMemory"]
next_tab == [Overview |-> "GpuDetail", GpuDetail |-> "Processes", Processes |-> "Overview"]
prev_tab == [Overview |-> "Processes", GpuDetail |-> "Overview", Processes |-> "GpuDetail"]

Column(row, c) == IF c = "Pid" THEN row.pid ELSE row.profile[c]

\* sort_by is stable: among equal rows the earlier one stays first, in both
\* directions (ord.reverse() of Equal is Equal).
Precedes(s, c, up, i, j) ==
  LET x == Column(s[i], c)
      y == Column(s[j], c)
  IN  IF x = y THEN i < j ELSE IF up THEN x < y ELSE y < x
Rank(s, c, up, i) == 1 + Cardinality({j \in DOMAIN s : Precedes(s, c, up, j, i)})
Sorted(s, c, up) ==
  [n \in 1..Len(s) |-> s[CHOOSE i \in 1..Len(s) : Rank(s, c, up, i) = n]]

Occurs(f, t) == \E i \in 0..(Len(t) - Len(f)) : \A k \in 1..Len(f) : t[i + k] = f[k]
Matches(f, row) == f = <<>> \/ \E t \in Text[row.pid] : Occurs(f, t)
\* The matching rows, in the order of the table.
filtered_processes ==
  LET kept == {i \in DOMAIN rows : Matches(filter, rows[i])}
  IN  [n \in 1..Cardinality(kept) |->
         rows[CHOOSE i \in kept : Cardinality({j \in kept : j <= i}) = n]]

\* len().saturating_sub(1)
LastIndex(n) == IF n = 0 THEN 0 ELSE n - 1

Init ==
  /\ alive = {} /\ inc = [p \in Pids |-> 0]
  /\ phase = "draw"
  /\ rows = <<>> /\ mode = "Normal" /\ tab = "Overview"
  /\ sort = "GpuMemory" /\ asc = FALSE /\ sel = 0 /\ filter = <<>>
  /\ confirm = NoPid
  /\ target = NoPid /\ chosen = NoProcess /\ shown = NoPid
  /\ signalled = "nobody"

-----------------------------------------------------------------------------
(* The processes of the machine. *)

ProcessStarts(p) ==
  /\ p \notin alive /\ inc[p] < MaxInc
  /\ alive' = alive \cup {p}
  /\ inc' = [inc EXCEPT ![p] = @ + 1]
  /\ UNCHANGED <<phase, table, mode, tab, killing, shown>>

ProcessExits(p) ==
  /\ p \in alive
  /\ alive' = alive \ {p}
  /\ UNCHANGED <<inc, phase, table, mode, tab, killing, shown>>

-----------------------------------------------------------------------------
(* Drawing and ticks. *)

\* The footer shows the prompt only in ProcessKill mode ("Kill PID 0?" when
\* there is no pid to confirm).
Draw ==
  /\ phase = "draw"
  /\ phase' = "recv"
  /\ shown' = IF mode = "ProcessKill" THEN confirm ELSE NoPid
  /\ signalled' = "nobody"
  /\ UNCHANGED <<world, table, mode, tab, confirm, target, chosen>>

\* What the collector can report of the live processes: a row per GPU a process
\* runs on, so some pids may not come, some twice, and in any order.
Snapshots ==
  UNION {[1..n -> {[pid |-> p, inc |-> inc[p], profile |-> f] :
                     p \in alive, f \in Profiles}] : n \in 0..MaxRows}

\* Mutant: the new table is not sorted.
update_gpu_processes_Unsorted(processes) == processes

update_gpu_processes(processes) == Sorted(processes, sort, asc)

\* Mutant: the prompt follows the selection when the table changes.
TickEvent_RefreshesPrompt ==
  /\ phase = "recv"
  /\ \E s \in Snapshots :
       /\ rows' = update_gpu_processes(s)
       /\ confirm' = IF mode = "ProcessKill" /\ sel < Len(s) THEN rows'[sel + 1].pid ELSE confirm
  /\ phase' = "draw"
  /\ UNCHANGED <<world, mode, tab, sort, asc, sel, filter, target, chosen, signalled, shown>>

\* AppEvent::Tick: collect_all.  No part of the UI state is adjusted to the new
\* table.
TickEvent ==
  /\ phase = "recv"
  /\ \E s \in Snapshots : rows' = update_gpu_processes(s)
  /\ phase' = "draw"
  /\ UNCHANGED <<world, mode, tab, sort, asc, sel, filter, killing, shown>>

-----------------------------------------------------------------------------
(* Keys.  Every handled key is followed by a draw; a key that no arm of the *)
(* handler names does nothing.                                              *)

Handled(m) == phase = "recv" /\ mode = m /\ phase' = "draw"

\* q or Ctrl+C, which in raw mode reaches the program as a key.
Quit ==
  /\ phase = "recv" /\ mode = "Normal"
  /\ phase' = "done"
  /\ UNCHANGED <<world, table, mode, tab, killing, shown>>

\* The other modes take Ctrl+C for 'c': filter mode appends it, the others ignore it.
CtrlCElsewhere ==
  /\ phase = "recv" /\ mode # "Normal"
  /\ phase' = "draw"
  /\ IF mode = "ProcessFilter" /\ "c" \in FilterChars
       THEN /\ Len(filter) < MaxFilter
            /\ filter' = Append(filter, "c") /\ sel' = 0
       ELSE UNCHANGED <<filter, sel>>
  /\ UNCHANGED <<world, rows, sort, asc, mode, tab, killing, shown>>

\* Also 'e', and the keys that act on other panels (modules DevicePanels and
\* EventLoop).
IgnoredKey ==
  /\ phase = "recv"
  /\ phase' = "draw"
  /\ UNCHANGED <<world, table, mode, tab, killing, shown>>

ChangeTab ==
  /\ Handled("Normal")
  /\ tab' \in {next_tab[tab], prev_tab[tab]} \cup Tabs
  /\ UNCHANGED <<world, table, mode, killing, shown>>

\* Mutant: k at the top of the table.
MoveSelection_Underflow ==
  /\ Handled("Normal") /\ tab \in {"Processes", "Overview"}
  /\ \/ sel < LastIndex(Len(filtered_processes)) /\ sel' = sel + 1
     \/ sel >= 0 /\ sel' = sel - 1
  /\ UNCHANGED <<world, rows, sort, asc, filter, mode, tab, killing, shown>>

\* navigate_down and navigate_up where they move through the process table; in
\* the GPU detail tab they select a GPU (module DevicePanels).
MoveSelection ==
  /\ Handled("Normal") /\ tab \in {"Processes", "Overview"}
  /\ \/ sel < LastIndex(Len(filtered_processes)) /\ sel' = sel + 1
     \/ sel > 0 /\ sel' = sel - 1
  /\ UNCHANGED <<world, rows, sort, asc, filter, mode, tab, killing, shown>>

\* s, / and ?
EnterMode(m) ==
  /\ Handled("Normal")
  /\ mode' = m
  /\ UNCHANGED <<world, table, tab, killing, shown>>

\* K: the mode changes whenever the unfiltered table has a row, the pid is set
\* only when the selection is inside the filtered one.
AskKill ==
  /\ Handled("Normal") /\ rows # <<>>
  /\ mode' = "ProcessKill"
  /\ LET visible == filtered_processes IN
       IF sel < Len(visible)
         THEN /\ confirm' = visible[sel + 1].pid
              /\ chosen' = [pid |-> visible[sel + 1].pid, inc |-> visible[sel + 1].inc]
         ELSE UNCHANGED <<confirm, chosen>>
  /\ UNCHANGED <<world, table, tab, target, signalled, shown>>

\* Esc, q and (sort and filter modes) Enter
LeaveMode(m) ==
  /\ m \in {"ProcessSort", "Help", "ProcessFilter"} /\ Handled(m)
  /\ mode' = "Normal"
  /\ filter' \in {filter} \cup (IF m = "ProcessFilter" THEN {<<>>} ELSE {})
  /\ UNCHANGED <<world, rows, sort, asc, sel, tab, killing, shown>>

NextSortColumn ==
  /\ Handled("ProcessSort")
  /\ sort' = next_column[sort]
  /\ rows' = Sorted(rows, next_column[sort], asc)
  /\ UNCHANGED <<world, asc, sel, filter, mode, tab, killing, shown>>

ReverseSort ==
  /\ Handled("ProcessSort")
  /\ asc' = ~asc
  /\ rows' = Sorted(rows, sort, ~asc)
  /\ UNCHANGED <<world, sort, sel, filter, mode, tab, killing, shown>>

\* pop() of an empty filter does nothing; the selection goes back to the top.
EditFilter ==
  /\ Handled("ProcessFilter")
  /\ \/ filter' = IF filter = <<>> THEN <<>> ELSE SubSeq(filter, 1, Len(filter) - 1)
     \/ \E c \in FilterChars : Len(filter) < MaxFilter /\ filter' = Append(filter, c)
  /\ sel' = 0
  /\ UNCHANGED <<world, rows, sort, asc, mode, tab, killing, shown>>

CancelKill ==
  /\ Handled("ProcessKill")
  /\ mode' = "Normal" /\ confirm' = NoPid /\ chosen' = NoProcess
  /\ UNCHANGED <<world, table, tab, target, signalled, shown>>

Signalable(pid) == pid \in 1..MaxSignalable

\* Mutant: y kills the process that is selected by then.
ConfirmKill_Selected ==
  /\ phase = "recv" /\ mode = "ProcessKill"
  /\ mode' = "Normal" /\ confirm' = NoPid
  /\ IF Signalable(confirm) /\ confirm \in alive /\ sel < Len(filtered_processes)
       THEN phase' = "signal" /\ target' = filtered_processes[sel + 1].pid /\ UNCHANGED chosen
       ELSE phase' = "draw" /\ target' = NoPid /\ chosen' = NoProcess
  /\ UNCHANGED <<world, table, tab, signalled, shown>>

\* Enter or y: kill_process(confirm.take()), whose first half gives up when the
\* pid is not one that kill() takes (a larger one would name a process group), or
\* when /proc/<pid>/cmdline is not there.
ConfirmKill ==
  /\ phase = "recv" /\ mode = "ProcessKill"
  /\ mode' = "Normal" /\ confirm' = NoPid
  /\ IF Signalable(confirm) /\ confirm \in alive
       THEN phase' = "signal" /\ target' = confirm /\ UNCHANGED chosen
       ELSE phase' = "draw" /\ target' = NoPid /\ chosen' = NoProcess
  /\ UNCHANGED <<world, table, tab, signalled, shown>>

\* The second half, kill(pid, SIGTERM): it reaches whatever process has the pid
\* by then, if there is one and the user owns it.
SendSignal ==
  /\ phase = "signal"
  /\ phase' = "draw" /\ target' = NoPid /\ chosen' = NoProcess
  /\ signalled' \in {"nobody"} \cup
       (IF target \notin alive THEN {}
        ELSE {IF [pid |-> target, inc |-> inc[target]] = chosen THEN "picked" ELSE "other"})
  /\ UNCHANGED <<world, table, mode, tab, confirm, shown>>

Key ==
  \/ Quit \/ CtrlCElsewhere \/ IgnoredKey
  \/ ChangeTab \/ MoveSelection
  \/ \E m \in {"ProcessSort", "ProcessFilter", "Help"} : EnterMode(m) \/ LeaveMode(m)
  \/ NextSortColumn \/ ReverseSort \/ EditFilter
  \/ AskKill \/ CancelKill \/ ConfirmKill

Ended == phase = "done" /\ UNCHANGED vars

Next ==
  \/ \E p \in Pids : phase # "done" /\ (ProcessStarts(p) \/ ProcessExits(p))
  \/ Draw \/ TickEvent \/ Key \/ SendSignal
  \/ Ended

Spec == Init /\ [][Next]_vars

-----------------------------------------------------------------------------
(* Properties. *)

\* Every variable keeps its type.
TypeOK ==
  /\ alive \subseteq Pids /\ inc \in [Pids -> Incarnations]
  /\ phase \in Phases /\ mode \in Modes /\ tab \in Tabs
  /\ rows \in Seq(Row) /\ Len(rows) <= MaxRows
  /\ sort \in SortColumns /\ asc \in BOOLEAN
  /\ sel \in Nat /\ filter \in Seq(FilterChars) /\ Len(filter) <= MaxFilter
  /\ confirm \in Pids \cup {NoPid} /\ target \in Pids \cup {NoPid}
  /\ chosen \in Process \cup {NoProcess} /\ signalled \in {"nobody", "picked", "other"}
  /\ shown \in Pids \cup {NoPid}

\* A pid waits for confirmation only while the kill prompt is up, so that a
\* later prompt cannot inherit the pid of an earlier one (AskKill leaves the
\* old value when the selection is out of range).
ConfirmOnlyInKillMode == confirm # NoPid => mode = "ProcessKill"

\* kill_process is only ever called with the pid that the user saw in the kill
\* prompt of the last frame, which is the pid of the row that was selected when
\* K was pressed, whatever ticks re-sorted, shrank or replaced the table since;
\* and no pid waits for a prompt that is not up.
OnlyShownPidIsKilled ==
  /\ ConfirmOnlyInKillMode
  /\ phase = "signal" => target # NoPid /\ target = shown /\ target = chosen.pid

\* While the prompt is up its pid does not change.
PromptIsStable ==
  [][mode = "ProcessKill" /\ mode' = "ProcessKill" => confirm' = confirm]_vars

\* The table is always in the order of the current column and direction, across
\* ticks and key presses.
TableSorted ==
  \A i, j \in 1..Len(rows) : i < j =>
    IF asc THEN Column(rows[i], sort) <= Column(rows[j], sort)
           ELSE Column(rows[i], sort) >= Column(rows[j], sort)

\* README.md: "PID recycling protection with pre-kill verification", and the
\* comment in kill_process: the signal reaches the process of the row that was
\* picked.  The code checks only that some process has the pid.
RecyclingProtected == signalled # "other"

=============================================================================
