--------------------------------- MODULE Layout --------------------------------
(***************************************************************************)
(* How dgxtop divides the rows of the terminal (src/ui/views): render_frame*)
(* into header, body and footer, the overview's height budget for CPU and  *)
(* memory, GPUs, disks and networks and processes, the rows inside each    *)
(* panel, and the charts of the GPU view.  run_ui draws after every event, *)
(* so an event and the frame drawn after it are one step.                  *)
(*                                                                         *)
(* An area is a record [y, h] of rows.  Columns are left out: every test   *)
(* of a width passes, and in a narrow terminal less is drawn.  Paragraphs, *)
(* tables, charts and sparklines draw nothing outside the area they are    *)
(* given; gauges and set_string write the row they are told, whether or    *)
(* not it belongs to the area it was taken from.                           *)
(***************************************************************************)
EXTENDS Integers, Sequences, FiniteSetsExt

CONSTANTS
  Heights,     \* rows of the terminal; from 2 on header and footer have a row each
  GpuCounts, CoreCounts, DeviceCounts,  \* what the collectors may report; 0 cores: no report
  MaxVisible   \* config.network_max_visible

ASSUME CountAssumption == GpuCounts \cup CoreCounts \cup DeviceCounts \subseteq Nat
ASSUME HeightAssumption == Heights \subseteq Nat \ {0, 1} /\ MaxVisible \in Nat

VARIABLES
  height,         \* rows of the terminal
  tab,            \* active_tab
  show_per_core,
  gpu_count, cores,    \* number of GPUs and of CPU cores in the last report
  devices,        \* number of disks or of interfaces: the two panels are laid out alike
  windows,        \* how many of the windows of 1, 6, 12, 24 hours have passed
  screen          \* screen[part]: the area of each part of the last frame

layoutVars == <<height, tab, show_per_core, gpu_count, cores, devices, windows, screen>>

Tabs == {"Overview", "GpuDetail", "Processes"}
Parts == {"header", "body", "footer", "cpu_mem", "gpu", "io", "process"}

Least(a, b) == IF a < b THEN a ELSE b
Most(a, b) == IF a < b THEN b ELSE a
Minus(a, b) == IF a < b THEN 0 ELSE a - b    \* saturating_sub

-----------------------------------------------------------------------------
(* ratatui: Layout::vertical(constraints).areas(area), Block::inner.       *)

Fill == -1
\* The rows of the first n parts.
Total(sizes, n) == SumFunctionOnSet(sizes, 1..n)

\* What the parts ask for.
Lengths(parts) == [i \in DOMAIN parts |-> IF parts[i] = Fill THEN 0 ELSE parts[i]]

\* The heights the solver may choose for the constraints: lengths are kept while
\* they fit and the fills share the rest evenly; when they do not fit the fills
\* get nothing and some lengths are cut.
Split(total, parts) ==
  LET fills == {i \in DOMAIN parts : parts[i] = Fill}
      lengths == Lengths(parts)
      rest == total - Total(lengths, Len(parts))
      longest == Max({lengths[i] : i \in DOMAIN lengths})
  IN  IF rest < 0
        THEN {s \in [DOMAIN parts -> 0..longest] :
                (\A i \in DOMAIN s : s[i] <= lengths[i]) /\ Total(s, Len(parts)) = total}
      ELSE IF fills = {} THEN {lengths}
      ELSE {[i \in DOMAIN parts |->
               lengths[i] + (IF i \in fills THEN rest \div Cardinality(fills) ELSE 0)
                          + (IF i \in more THEN 1 ELSE 0)] :
              more \in {S \in SUBSET fills : Cardinality(S) = rest % Cardinality(fills)}}

\* The areas, one below the other.
Areas(area, sizes) ==
  [i \in DOMAIN sizes |-> [y |-> area.y + Total(sizes, i - 1), h |-> sizes[i]]]
Vertical(area, parts) == {Areas(area, sizes) : sizes \in Split(area.h, parts)}

\* What a bordered block leaves of its area.
Inner(area) == [y |-> area.y + Least(1, area.h), h |-> Minus(area.h, 2)]

Rows(area) == area.y..(area.y + area.h - 1)
Nowhere == [y |-> 0, h |-> 0]

-----------------------------------------------------------------------------
(* The height budget of the overview. *)

gpu_want(g) == IF g = 0 THEN 0 ELSE Least(g * 3 + 2, 14)

per_core_columns(c) == IF c <= 16 THEN 2 ELSE IF c <= 64 THEN 4 ELSE 8
\* div_ceil
core_rows(c) == (c + per_core_columns(c) - 1) \div per_core_columns(c)

cpu_mem_want(per_core, c) == IF per_core THEN Most(4 + core_rows(c), 10) ELSE 10

cpu_mem_min == 7
io_min == 6
process_min == 4
io_want == 12

\* Mutant: CPU and memory get what they want first.
cpu_mem_h_Greedy(budget, want) == Most(Least(want, budget), cpu_mem_min)
\* Mutant: below the full size CPU and memory get all but the minimum of the I/O row.
cpu_mem_h_TakesRest(budget, want) ==
  IF budget >= want + io_want THEN want
  ELSE Most(Minus(budget, io_min), cpu_mem_min)

\* What both want, or the minimum and a proportional share of the rest.
cpu_mem_h(budget, want) ==
  IF budget >= want + io_want THEN want
  ELSE IF budget >= cpu_mem_min + io_min
    THEN LET extra == budget - (cpu_mem_min + io_min)
             cpu_extra_max == want - cpu_mem_min
             io_extra_max == io_want - io_min
         IN  cpu_mem_min + Least((extra * cpu_extra_max) \div (cpu_extra_max + io_extra_max),
                                 cpu_extra_max)
  ELSE Most(Minus(budget, io_min), cpu_mem_min)

io_h(budget, want) ==
  LET left == Minus(budget, cpu_mem_h(budget, want))
  IN  Most(Least(left, io_want), Least(io_min, left))

Budget(h, g) == Minus(h, gpu_want(g) + process_min)

\* The areas of the overview: top, middle and bottom, the bottom divided again.
Overview(area, per_core, g, c) ==
  LET want == cpu_mem_want(per_core, c)
      budget == Budget(area.h, g)
  IN  UNION {{[cpu_mem |-> a[1], gpu |-> a[2], io |-> b[1], process |-> b[2]] :
                b \in Vertical(a[3], <<io_h(budget, want), Fill>>)} :
              a \in Vertical(area, <<cpu_mem_h(budget, want), gpu_want(g), Fill>>)}

-----------------------------------------------------------------------------
(* The panels: the rows that are written without a look at the height of   *)
(* the area they come from.                                                *)

\* The cores with a gauge, each in its row and column.
CoreCells(area, c) ==
  {[row |-> area.y + i \div per_core_columns(c), col |-> i % per_core_columns(c)] :
     i \in {k \in 0..(c - 1) : k \div per_core_columns(c) < area.h}}

PerCoreAreas(inner, c) == Vertical(inner, <<1, core_rows(c), Fill>>)

\* render_cpu_main_gauge: the gauge and, where there is a second row, what the
\* usage is made of.
GaugeRows(bar) == {bar.y} \cup (IF bar.h > 1 THEN {bar.y + 1} ELSE {})

\* render_cpu_panel: the rows of the gauges, in every frame the solver may give.
CpuRows(area) ==
  LET inner == Inner(area)
  IN  IF cores = 0 \/ inner.h = 0 THEN {}
      ELSE IF show_per_core
        THEN {cell.row : cell \in UNION {CoreCells(a[2], cores) : a \in PerCoreAreas(inner, cores)}}
      ELSE UNION {GaugeRows(a[2]) : a \in Vertical(inner, <<1, 2, 1, Fill>>)}

\* Mutant: without the early return.
MemoryRows_NoReturn(area) ==
  UNION {{a[2].y, a[4].y} : a \in Vertical(Inner(area), <<1, 1, 1, 1, 1, 1, Fill>>)}
\* render_memory_panel: the gauges of memory and swap.
MemoryRows(area) ==
  LET inner == Inner(area)
  IN  IF inner.h = 0 THEN {}
      ELSE UNION {{a[2].y, a[4].y} : a \in Vertical(inner, <<1, 1, 1, 1, 1, 1, Fill>>)}

\* A card writes a gauge for the load and one for the memory below its header.
CardRows(card) ==
  IF card.h = 0 THEN {}
  ELSE UNION {{a[2].y, a[3].y} : a \in Vertical(card, <<1, 1, 1>>)}

Cards(area, g) == Vertical(Inner(area), [i \in 1..g |-> 3])

GpuRows(area) ==
  IF gpu_count = 0 \/ Inner(area).h = 0 THEN {}
  ELSE UNION {UNION {CardRows(a[i]) : i \in 1..gpu_count} : a \in Cards(area, gpu_count)}

\* render_disk_panel and render_network_panel: the table, then the chart and the
\* line of statistics as far as there is room.
PanelAreas(area) ==
  LET inner == Inner(area)
      table_rows == Least(devices, MaxVisible)
      show_chart == inner.h > 1 + table_rows + 1 + 2
      show_stats == inner.h > 1 + table_rows + 1
      parts == <<1 + table_rows>> \o (IF show_chart THEN <<Fill>> ELSE <<>>)
                                  \o (IF show_stats THEN <<1>> ELSE <<>>)
  IN  {[table |-> a[1], rows |-> table_rows,
        chart |-> IF show_chart THEN a[2] ELSE Nowhere,
        stats |-> IF show_stats THEN a[IF show_chart THEN 3 ELSE 2] ELSE Nowhere] :
         a \in Vertical(inner, parts)}

\* Rows of a process table, below its border and its header.
ProcessRows(area) == IF Inner(area).h < 2 THEN 0 ELSE Inner(area).h - 1

\* Mutant: the statistics are forgotten.
num_charts_NoStats(h, stats_h) == Least(h \div 3, 4)
num_charts(h, stats_h) == Least(Minus(h, stats_h) \div 3, 4)

\* render_charts_column: pairs of a label and a chart, then the statistics.
ChartAreas(area) ==
  LET stats_h == windows * 2
      n == num_charts(area.h, stats_h)
      parts == [i \in 1..(2 * n) |-> IF i % 2 = 1 THEN 1 ELSE Fill] \o <<stats_h>>
  IN  IF n = 0 THEN {}
      ELSE {[charts |-> [i \in 1..n |-> a[2 * i]], stats |-> a[2 * n + 1]] :
              a \in Vertical(area, parts)}

\* The body of the GPU view is drawn from four rows on.
GpuDetailAreas(body) ==
  IF gpu_count = 0 \/ Inner(body).h < 4 THEN {} ELSE ChartAreas(Inner(body))

-----------------------------------------------------------------------------
(* Events, each followed by a frame. *)

\* The sections of the body; what a tab does not show is nowhere.
BodySections(body, t, per_core, g, c) ==
  CASE t = "Overview" -> Overview(body, per_core, g, c)
    [] t = "GpuDetail" ->
         {[cpu_mem |-> Nowhere, gpu |-> Nowhere, io |-> Nowhere, process |-> Nowhere]}
    [] t = "Processes" ->
         {[cpu_mem |-> Nowhere, gpu |-> Nowhere, io |-> Nowhere, process |-> b[2]] :
            b \in Vertical(body, <<3, Fill>>)}

\* render_frame
Frames(h, t, per_core, g, c) ==
  UNION {{[header |-> a[1], body |-> a[2], footer |-> a[3],
           cpu_mem |-> o.cpu_mem, gpu |-> o.gpu, io |-> o.io, process |-> o.process] :
            o \in BodySections(a[2], t, per_core, g, c)} :
         a \in Vertical([y |-> 0, h |-> h], <<1, Fill, 1>>)}

Draw == screen' \in Frames(height', tab', show_per_core', gpu_count', cores')

LayoutInit ==
  /\ height \in Heights /\ tab = "Overview" /\ show_per_core = FALSE
  /\ gpu_count \in GpuCounts /\ cores \in CoreCounts
  /\ devices \in DeviceCounts /\ windows = 0
  /\ screen \in Frames(height, tab, show_per_core, gpu_count, cores)

\* The terminal gets a row more or less (several are several of these steps).
Resize ==
  /\ height' \in {height - 1, height + 1} \cap Heights
  /\ UNCHANGED <<tab, show_per_core, gpu_count, cores, devices, windows>>
  /\ Draw

\* A tick: some report has changed.
Collected ==
  /\ \/ gpu_count' \in GpuCounts /\ UNCHANGED <<cores, devices>>
     \/ cores' \in CoreCounts /\ UNCHANGED <<gpu_count, devices>>
     \/ devices' \in DeviceCounts /\ UNCHANGED <<gpu_count, cores>>
  /\ UNCHANGED <<height, tab, show_per_core, windows>>
  /\ Draw

\* The next of the windows of active_windows has passed.
WindowPasses ==
  /\ windows < 4 /\ windows' = windows + 1
  /\ UNCHANGED <<height, tab, show_per_core, gpu_count, cores, devices>>
  /\ Draw

\* The keys e and Tab, 1, 2, 3.
TogglePerCore ==
  /\ show_per_core' = ~show_per_core
  /\ UNCHANGED <<height, tab, gpu_count, cores, devices, windows>>
  /\ Draw
SwitchTab ==
  /\ tab' \in Tabs
  /\ UNCHANGED <<height, show_per_core, gpu_count, cores, devices, windows>>
  /\ Draw

LayoutNext == Resize \/ Collected \/ WindowPasses \/ TogglePerCore \/ SwitchTab

LayoutSpec == LayoutInit /\ [][LayoutNext]_layoutVars

-----------------------------------------------------------------------------
(* Properties. *)

Sections == {"cpu_mem", "gpu", "io", "process"}
Wanted == [cpu_mem |-> cpu_mem_want(show_per_core, cores), gpu |-> gpu_want(gpu_count),
           io |-> io_want, process |-> process_min]
Smallest == [cpu_mem |-> cpu_mem_min, gpu |-> gpu_want(gpu_count),
             io |-> io_min, process |-> process_min]
FitsIn(h, need) == need.cpu_mem + need.gpu + need.io + need.process <= h

\* Nothing is written outside the panel it belongs to, however few rows the panel
\* got, although gauges are drawn at the top of areas that may have no row at
\* all: they end on the border.  Header and footer have their row, and the parts
\* of the screen lie one below the other.
DrawsInside ==
  /\ screen.header = [y |-> 0, h |-> 1] /\ screen.footer = [y |-> height - 1, h |-> 1]
  /\ Rows(screen.body) = 1..(height - 2)
  /\ \A part \in Sections : Rows(screen[part]) \subseteq Rows(screen.body)
  /\ \A a, b \in Sections : a # b => Rows(screen[a]) \cap Rows(screen[b]) = {}
  /\ tab = "Overview" =>
       /\ CpuRows(screen.cpu_mem) \cup MemoryRows(screen.cpu_mem) \subseteq Rows(screen.cpu_mem)
       /\ GpuRows(screen.gpu) \subseteq Rows(screen.gpu)

\* "Minimum heights before we start cutting": as long as the minima fit, every
\* section of the overview has its own, the GPUs have all they want and at least
\* one process is shown - whatever is wanted beyond that, by however many cores.
SectionsKeepMinimum ==
  tab = "Overview" /\ FitsIn(screen.body.h, Smallest) =>
    /\ \A part \in Sections : screen[part].h >= Smallest[part]
    /\ ProcessRows(screen.process) >= 1

\* Where there is room for all that is wanted, all of it is shown: every core has
\* a place of its own, every GPU (of up to four, the most the panel grows for) its
\* three rows, and the I/O row its full height.
EnoughRoomShowsAll ==
  tab = "Overview" /\ FitsIn(screen.body.h, Wanted) =>
    /\ \A part \in Sections : screen[part].h >= Wanted[part]
    /\ show_per_core =>
         \A a \in PerCoreAreas(Inner(screen.cpu_mem), cores) :
           Cardinality(CoreCells(a[2], cores)) = cores
    /\ gpu_count \in 1..4 => \A a \in Cards(screen.gpu, gpu_count) : \A i \in 1..gpu_count : a[i].h = 3

\* Every section gets what it must have, and all it wants where there is room.
HeightIsShared == SectionsKeepMinimum /\ EnoughRoomShowsAll

\* A terminal that grows takes no row from any section of the overview.
TallerShowsMore ==
  [][/\ tab = "Overview" /\ FitsIn(screen.body.h, Smallest) /\ height' > height
     => \A part \in Sections : screen'[part].h >= screen[part].h]_layoutVars

\* "each needs label(1) + chart(min 2)": a chart of the GPU view is never lower,
\* and costs no line of the statistics; a chart or a line of statistics in the
\* disk and network panels costs no row of their tables.
ChartsAreLegible ==
  /\ tab = "GpuDetail" =>
       \A a \in GpuDetailAreas(screen.body) :
         /\ \A i \in DOMAIN a.charts : a.charts[i].h >= 2
         /\ a.stats.h = 2 * windows
  /\ tab = "Overview" =>
       \A a \in PanelAreas(screen.io) :
         a.chart.h > 0 \/ a.stats.h > 0 => a.table.h = 1 + a.rows /\ a.chart.h # 1

=============================================================================
