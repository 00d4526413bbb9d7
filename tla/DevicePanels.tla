------------------------------ MODULE DevicePanels ------------------------------
(***************************************************************************)
(* The disk, network and GPU panels of dgxtop: the device lists of         *)
(* AppState, the index selected in each, and which devices have a history  *)
(* (src/app/state.rs), driven by the reports of the collectors and by the  *)
(* keys d, D, n, N, h, l, j and k (src/ui/input/normal.rs).  A report      *)
(* lists the devices present in an order that changes with their activity, *)
(* so that an index means another device after every tick.                 *)
(***************************************************************************)
EXTENDS Integers, Sequences, FiniteSets

CONSTANTS
  DiskNames, NetNames,  \* block devices and network interfaces
  GpuCount              \* device_count, asked once: the histories made at the start
                        \* and the GPUs of every successful report

ASSUME GpuAssumption == GpuCount \in Nat

VARIABLES
  disks,        \* names of state.disks, in the order displayed
  diskSel,      \* selected_disk_index
  diskHist,     \* keys of disk_histories
  networks,     \* names of state.networks, in the order displayed
  netSel,       \* selected_network_index
  netHist,      \* keys of network_histories
  gpus,         \* state.gpus.len()
  gpuSel,       \* selected_gpu_index
  gpuHist,      \* gpu_histories.len()
  active_tab    \* whether h, l, j and k act on the GPUs

diskPanel == <<disks, diskSel, diskHist>>
netPanel == <<networks, netSel, netHist>>
gpuPanel == <<gpus, gpuSel, gpuHist, active_tab>>
vars == <<disks, diskSel, diskHist, networks, netSel, netHist,
          gpus, gpuSel, gpuHist, active_tab>>

Names(s) == {s[i] : i \in 1..Len(s)}

\* What a collector reports: each device at most once, in any order (they sort
\* by the activity of the moment).
Reports(names) ==
  {s \in UNION {[1..n -> names] : n \in 0..Cardinality(names)} :
     \A i, j \in 1..Len(s) : i # j => s[i] # s[j]}

\* iter().position(...).unwrap_or(0); indices count from 0, as in the code.
Position(s, name) ==
  IF name \in Names(s)
    THEN CHOOSE i \in 0..(Len(s) - 1) : s[i + 1] = name
    ELSE 0

\* Mutant: the index is kept as it is.
Reselect_KeepIndex(old, sel, new) == sel

\* The selection after an update.  When the old index points nowhere (an empty
\* list: there is no previous name) it is left alone.
Reselect(old, sel, new) ==
  IF sel < Len(old) THEN Position(new, old[sel + 1]) ELSE sel

\* (sel + 1) % len, for a list that is not empty
Following(sel, len) == (sel + 1) % len

\* Mutant: 0 - 1.
Preceding_Underflow(sel, len) == sel - 1

\* checked_sub(1).unwrap_or(len - 1)
Preceding(sel, len) == IF sel = 0 THEN len - 1 ELSE sel - 1

\* len().saturating_sub(1)
LastIndex(n) == IF n = 0 THEN 0 ELSE n - 1

\* AppState::new
Init ==
  /\ disks = <<>> /\ diskSel = 0 /\ diskHist = {}
  /\ networks = <<>> /\ netSel = 0 /\ netHist = {}
  /\ gpus = 0 /\ gpuSel = 0 /\ gpuHist = GpuCount
  /\ active_tab = "Overview"

-----------------------------------------------------------------------------
(* Ticks.  A collector that fails leaves its panel as it was. *)

\* Mutant: histories of devices that have gone are dropped.
update_disks_Prunes(report) ==
  /\ diskSel' = Reselect(disks, diskSel, report)
  /\ disks' = report
  /\ diskHist' = Names(report)
  /\ UNCHANGED <<netPanel, gpuPanel>>

\* A device is given a history with its first sample, and keeps it for good.
update_disks(report) ==
  /\ diskSel' = Reselect(disks, diskSel, report)
  /\ disks' = report
  /\ diskHist' = diskHist \cup Names(report)
  /\ UNCHANGED <<netPanel, gpuPanel>>

update_networks(report) ==
  /\ netSel' = Reselect(networks, netSel, report)
  /\ networks' = report
  /\ netHist' = netHist \cup Names(report)
  /\ UNCHANGED <<diskPanel, gpuPanel>>

\* One failing GPU fails the whole report, so that the list is empty until the
\* first success and of GpuCount GPUs from then on.
update_gpus ==
  /\ gpus' = GpuCount
  /\ gpuHist' = IF gpuHist < GpuCount THEN GpuCount ELSE gpuHist
  /\ UNCHANGED <<gpuSel, active_tab, diskPanel, netPanel>>

-----------------------------------------------------------------------------
(* Keys. *)

\* Mutant: d does not wrap.
SelectDisk_NoWrap ==
  /\ disks # <<>>
  /\ diskSel' \in {diskSel + 1, Preceding(diskSel, Len(disks))}
  /\ UNCHANGED <<disks, diskHist, netPanel, gpuPanel>>

\* d, D
SelectDisk ==
  /\ disks # <<>>
  /\ diskSel' \in {Following(diskSel, Len(disks)), Preceding(diskSel, Len(disks))}
  /\ UNCHANGED <<disks, diskHist, netPanel, gpuPanel>>

\* n, N
SelectNetwork ==
  /\ networks # <<>>
  /\ netSel' \in {Following(netSel, Len(networks)), Preceding(netSel, Len(networks))}
  /\ UNCHANGED <<networks, netHist, diskPanel, gpuPanel>>

\* l, j and the arrows; the other tabs leave the GPU selection alone
NextGpu ==
  /\ active_tab = "GpuDetail" /\ gpuSel < LastIndex(gpus)
  /\ gpuSel' = gpuSel + 1
  /\ UNCHANGED <<gpus, gpuHist, active_tab, diskPanel, netPanel>>

\* h, k and the arrows
PrevGpu ==
  /\ active_tab = "GpuDetail" /\ gpuSel > 0
  /\ gpuSel' = gpuSel - 1
  /\ UNCHANGED <<gpus, gpuHist, active_tab, diskPanel, netPanel>>

ChangeTab ==
  /\ active_tab' \in {"Overview", "GpuDetail", "Processes"}
  /\ UNCHANGED <<gpus, gpuSel, gpuHist, diskPanel, netPanel>>

Next ==
  \/ \E report \in Reports(DiskNames) : update_disks(report)
  \/ \E report \in Reports(NetNames) : update_networks(report)
  \/ update_gpus
  \/ SelectDisk \/ SelectNetwork \/ NextGpu \/ PrevGpu \/ ChangeTab

Spec == Init /\ [][Next]_vars

-----------------------------------------------------------------------------
(* Properties. *)

\* Every variable keeps its type.
TypeOK ==
  /\ disks \in Seq(DiskNames) /\ diskSel \in Nat /\ diskHist \subseteq DiskNames
  /\ networks \in Seq(NetNames) /\ netSel \in Nat /\ netHist \subseteq NetNames
  /\ gpus \in {0, GpuCount} /\ gpuSel \in Nat /\ gpuHist \in Nat
  /\ active_tab \in {"Overview", "GpuDetail", "Processes"}

InRange(sel, n) == sel = 0 \/ sel < n

\* No selection points past the end of its list, although the lists shrink,
\* grow and are re-ordered under it and the code clamps none of them.
SelectionsInRange ==
  /\ InRange(diskSel, Len(disks))
  /\ InRange(netSel, Len(networks))
  /\ InRange(gpuSel, gpus)

\* Whatever is selected has a history to chart: the views look it up by the
\* name, or the index, of the selection.
SelectedHasHistory ==
  /\ diskSel < Len(disks) => disks[diskSel + 1] \in diskHist
  /\ netSel < Len(networks) => networks[netSel + 1] \in netHist
  /\ gpuSel < gpus => gpuSel < gpuHist

\* What the views look up by a selection exists: the row and its history.
SelectionsResolve == SelectionsInRange /\ SelectedHasHistory

\* A new list never moves the selection to another device while the selected
\* one is still there ("Preserves the selected disk by name across re-sorting").
SelectionFollowsDevice ==
  [][/\ disks' # disks /\ diskSel < Len(disks) /\ disks[diskSel + 1] \in Names(disks')
          => disks'[diskSel' + 1] = disks[diskSel + 1]
     /\ networks' # networks /\ netSel < Len(networks) /\ networks[netSel + 1] \in Names(networks')
          => networks'[netSel' + 1] = networks[netSel + 1]]_vars

\* The history of a device survives its absence: a disk that is unplugged and
\* comes back goes on with its chart.
HistoriesSurvive ==
  [][diskHist \subseteq diskHist' /\ netHist \subseteq netHist' /\ gpuHist <= gpuHist']_vars

=============================================================================
