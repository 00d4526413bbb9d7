-------------------------- MODULE ScreenPanels_proofs --------------------------
(***************************************************************************)
(* Proofs about DevicePanels and Layout.  For every set of devices and     *)
(* every number of GPUs, the selections stay inside their lists and follow *)
(* their devices, and whatever is selected has a history.  For every       *)
(* height of the terminal and every number of cores, GPUs and devices,     *)
(* nothing is drawn outside its panel, the sections of the overview share  *)
(* the rows as they promise, and the charts are legible.                   *)
(***************************************************************************)
EXTENDS DevicePanels, Layout, SumTheorems, SequenceTheorems, TLAPS

\* The part of the inductive invariant that the properties do not name: every
\* device listed has a history, and so has every GPU.
ListedHaveHistories ==
  /\ Names(disks) \subseteq diskHist
  /\ Names(networks) \subseteq netHist
  /\ gpus <= gpuHist

IInv == TypeOK /\ SelectionsInRange /\ ListedHaveHistories

-----------------------------------------------------------------------------
(* Lists of devices. *)

\* A report is a sequence of device names.
LEMMA ReportIsSeq ==
  ASSUME NEW names, NEW report \in Reports(names)
  PROVE  report \in Seq(names)
BY DEF Reports

\* The names of a sequence of devices are devices.
LEMMA NamesOfSeq ==
  ASSUME NEW names, NEW s \in Seq(names)
  PROVE  Names(s) \subseteq names
BY DEF Names

\* position().unwrap_or(0) yields an index of the list, of the device it looks
\* for when the list has it, and 0 when it has not.
LEMMA PositionFinds ==
  ASSUME NEW names, NEW s \in Seq(names), NEW name
  PROVE  /\ Position(s, name) \in Nat
         /\ InRange(Position(s, name), Len(s))
         /\ name \in Names(s) => /\ Position(s, name) < Len(s)
                                 /\ s[Position(s, name) + 1] = name
<1>1. CASE name \in Names(s)
  <2>1. PICK j \in 1..Len(s) : s[j] = name
    BY <1>1 DEF Names
  <2>2. /\ j - 1 \in 0..(Len(s) - 1)
        /\ s[(j - 1) + 1] = name
    BY <2>1
  <2>3. \E i \in 0..(Len(s) - 1) : s[i + 1] = name
    BY <2>2
  <2>4. /\ Position(s, name) \in 0..(Len(s) - 1)
        /\ s[Position(s, name) + 1] = name
    BY <1>1, <2>3 DEF Position
  <2> QED
    BY <2>4 DEF InRange
<1>2. CASE name \notin Names(s)
  BY <1>2 DEF Position, InRange
<1> QED
  BY <1>1, <1>2

\* An update keeps the selection inside the new list, and on its device while
\* the list has it.
LEMMA ReselectFollows ==
  ASSUME NEW names, NEW old \in Seq(names), NEW new \in Seq(names),
         NEW sel \in Nat, InRange(sel, Len(old))
  PROVE  /\ Reselect(old, sel, new) \in Nat
         /\ InRange(Reselect(old, sel, new), Len(new))
         /\ sel < Len(old) /\ old[sel + 1] \in Names(new)
              => new[Reselect(old, sel, new) + 1] = old[sel + 1]
<1>1. CASE sel < Len(old)
  BY <1>1, PositionFinds DEF Reselect
<1>2. CASE ~(sel < Len(old))
  BY <1>2 DEF Reselect, InRange
<1> QED
  BY <1>1, <1>2

\* The keys wrap around: they never leave a list that is not empty.
LEMMA CyclingStaysInRange ==
  ASSUME NEW sel \in Nat, NEW len \in Nat \ {0}, InRange(sel, len)
  PROVE  /\ Following(sel, len) \in Nat /\ InRange(Following(sel, len), len)
         /\ Preceding(sel, len) \in Nat /\ InRange(Preceding(sel, len), len)
<1>1. sel < len
  BY DEF InRange
<1>2. (sel + 1) % len \in 0..(len - 1)
  OBVIOUS
<1> QED
  BY <1>1, <1>2 DEF Following, Preceding, InRange

-----------------------------------------------------------------------------
(* The inductive invariant. *)

LEMMA InitIInv == Init => IInv
BY GpuAssumption
   DEF Init, IInv, TypeOK, SelectionsInRange, InRange, ListedHaveHistories, Names

\* An update of the disks.
LEMMA UpdateDisksIInv ==
  ASSUME IInv, NEW report \in Reports(DiskNames), update_disks(report)
  PROVE  IInv'
<1> USE DEF update_disks, netPanel, gpuPanel
<1>1. report \in Seq(DiskNames) /\ disks' = report
  BY ReportIsSeq
<1>2. Names(report) \subseteq DiskNames
  BY <1>1, NamesOfSeq
<1>3. diskSel' \in Nat /\ InRange(diskSel', Len(disks'))
  BY <1>1, ReselectFollows DEF IInv, TypeOK, SelectionsInRange
<1>4. TypeOK'
  BY <1>1, <1>2, <1>3 DEF IInv, TypeOK
<1>5. SelectionsInRange'
  BY <1>3 DEF IInv, SelectionsInRange, InRange
<1>6. ListedHaveHistories'
  BY DEF IInv, ListedHaveHistories, Names
<1> QED
  BY <1>4, <1>5, <1>6 DEF IInv

\* An update of the interfaces.
LEMMA UpdateNetworksIInv ==
  ASSUME IInv, NEW report \in Reports(NetNames), update_networks(report)
  PROVE  IInv'
<1> USE DEF update_networks, diskPanel, gpuPanel
<1>1. report \in Seq(NetNames) /\ networks' = report
  BY ReportIsSeq
<1>2. Names(report) \subseteq NetNames
  BY <1>1, NamesOfSeq
<1>3. netSel' \in Nat /\ InRange(netSel', Len(networks'))
  BY <1>1, ReselectFollows DEF IInv, TypeOK, SelectionsInRange
<1>4. TypeOK'
  BY <1>1, <1>2, <1>3 DEF IInv, TypeOK
<1>5. SelectionsInRange'
  BY <1>3 DEF IInv, SelectionsInRange, InRange
<1>6. ListedHaveHistories'
  BY DEF IInv, ListedHaveHistories, Names
<1> QED
  BY <1>4, <1>5, <1>6 DEF IInv

\* Every step keeps the invariant.
LEMMA NextIInv == IInv /\ [Next]_vars => IInv'
<1> SUFFICES ASSUME IInv, [Next]_vars PROVE IInv'
  OBVIOUS
<1> USE DEF IInv, TypeOK, SelectionsInRange, InRange, ListedHaveHistories, Names
<1>1. CASE \E report \in Reports(DiskNames) : update_disks(report)
  BY <1>1, UpdateDisksIInv
<1>2. CASE \E report \in Reports(NetNames) : update_networks(report)
  BY <1>2, UpdateNetworksIInv
<1>3. CASE update_gpus
  BY <1>3, GpuAssumption DEF update_gpus, diskPanel, netPanel
<1>4. CASE SelectDisk
  <2>1. Len(disks) \in Nat \ {0}
    BY <1>4 DEF SelectDisk
  <2>2. diskSel' \in Nat /\ InRange(diskSel', Len(disks))
    BY <1>4, <2>1, CyclingStaysInRange DEF SelectDisk
  <2> QED
    BY <1>4, <2>2 DEF SelectDisk, netPanel, gpuPanel
<1>5. CASE SelectNetwork
  <2>1. Len(networks) \in Nat \ {0}
    BY <1>5 DEF SelectNetwork
  <2>2. netSel' \in Nat /\ InRange(netSel', Len(networks))
    BY <1>5, <2>1, CyclingStaysInRange DEF SelectNetwork
  <2> QED
    BY <1>5, <2>2 DEF SelectNetwork, diskPanel, gpuPanel
<1>6. CASE NextGpu
  BY <1>6, GpuAssumption DEF NextGpu, LastIndex, diskPanel, netPanel
<1>7. CASE PrevGpu
  BY <1>7, GpuAssumption DEF PrevGpu, diskPanel, netPanel
<1>8. CASE ChangeTab
  BY <1>8 DEF ChangeTab, diskPanel, netPanel
<1>9. CASE UNCHANGED vars
  BY <1>9 DEF vars
<1> QED
  BY <1>1, <1>2, <1>3, <1>4, <1>5, <1>6, <1>7, <1>8, <1>9 DEF Next

\* The invariant holds in every reachable state.
THEOREM Invariance == Spec => []IInv
BY InitIInv, NextIInv, PTL DEF Spec

-----------------------------------------------------------------------------
(* The properties. *)

\* The variables keep their types (the state of the three panels in AppState).
THEOREM TypeCorrect == Spec => []TypeOK
<1>1. IInv => TypeOK
  BY DEF IInv
<1> QED
  BY <1>1, Invariance, PTL

\* No selection leaves its list, whatever the collectors report and the user
\* presses.
THEOREM SelectionsStayInRange == Spec => []SelectionsInRange
<1>1. IInv => SelectionsInRange
  BY DEF IInv
<1> QED
  BY <1>1, Invariance, PTL

\* Whatever is selected has a history: a chart is never looked up in vain.
THEOREM SelectionHasHistory == Spec => []SelectedHasHistory
<1>1. IInv => SelectedHasHistory
  <2> SUFFICES ASSUME IInv PROVE SelectedHasHistory
    OBVIOUS
  <2> USE DEF IInv, TypeOK, ListedHaveHistories, Names
  <2>1. diskSel < Len(disks) => disks[diskSel + 1] \in diskHist
    OBVIOUS
  <2>2. netSel < Len(networks) => networks[netSel + 1] \in netHist
    OBVIOUS
  <2>3. gpuSel < gpus => gpuSel < gpuHist
    BY GpuAssumption
  <2> QED
    BY <2>1, <2>2, <2>3 DEF SelectedHasHistory
<1> QED
  BY <1>1, Invariance, PTL

\* The views find the row and the history of whatever is selected.
THEOREM SelectionsAreResolved == Spec => []SelectionsResolve
<1>1. SelectionsInRange /\ SelectedHasHistory => SelectionsResolve
  BY DEF SelectionsResolve
<1> QED
  BY <1>1, SelectionsStayInRange, SelectionHasHistory, PTL

\* A new report leaves the selection on its device while the device is there.
THEOREM SelectionFollows == Spec => SelectionFollowsDevice
<1> DEFINE
  DiskFollows == disks' # disks /\ diskSel < Len(disks) /\ disks[diskSel + 1] \in Names(disks')
                   => disks'[diskSel' + 1] = disks[diskSel + 1]
  NetFollows == networks' # networks /\ netSel < Len(networks)
                  /\ networks[netSel + 1] \in Names(networks')
                    => networks'[netSel' + 1] = networks[netSel + 1]
<1>1. IInv /\ [Next]_vars => [DiskFollows /\ NetFollows]_vars
  <2> SUFFICES ASSUME IInv, Next PROVE DiskFollows /\ NetFollows
    OBVIOUS
  <2>1. CASE \E report \in Reports(DiskNames) : update_disks(report)
    <3>1. PICK report \in Reports(DiskNames) : update_disks(report)
      BY <2>1
    <3>2. /\ disks \in Seq(DiskNames) /\ report \in Seq(DiskNames)
          /\ diskSel \in Nat /\ InRange(diskSel, Len(disks))
      BY ReportIsSeq DEF IInv, TypeOK, SelectionsInRange
    <3>3. diskSel < Len(disks) /\ disks[diskSel + 1] \in Names(report)
            => report[Reselect(disks, diskSel, report) + 1] = disks[diskSel + 1]
      BY <3>2, ReselectFollows
    <3>4. DiskFollows
      BY <3>1, <3>3 DEF update_disks
    <3> QED
      BY <3>1, <3>4 DEF update_disks, netPanel
  <2>2. CASE \E report \in Reports(NetNames) : update_networks(report)
    <3>1. PICK report \in Reports(NetNames) : update_networks(report)
      BY <2>2
    <3>2. /\ networks \in Seq(NetNames) /\ report \in Seq(NetNames)
          /\ netSel \in Nat /\ InRange(netSel, Len(networks))
      BY ReportIsSeq DEF IInv, TypeOK, SelectionsInRange
    <3>3. netSel < Len(networks) /\ networks[netSel + 1] \in Names(report)
            => report[Reselect(networks, netSel, report) + 1] = networks[netSel + 1]
      BY <3>2, ReselectFollows
    <3>4. NetFollows
      BY <3>1, <3>3 DEF update_networks
    <3> QED
      BY <3>1, <3>4 DEF update_networks, diskPanel
  <2>3. CASE update_gpus \/ SelectDisk \/ SelectNetwork \/ NextGpu \/ PrevGpu \/ ChangeTab
    BY <2>3 DEF update_gpus, SelectDisk, SelectNetwork, NextGpu, PrevGpu, ChangeTab,
                diskPanel, netPanel, gpuPanel
  <2> QED
    BY <2>1, <2>2, <2>3 DEF Next
<1> QED
  BY <1>1, Invariance, PTL DEF Spec, SelectionFollowsDevice

\* No history is ever dropped.
THEOREM HistoriesAreKept == Spec => HistoriesSurvive
<1>1. IInv /\ [Next]_vars =>
        [diskHist \subseteq diskHist' /\ netHist \subseteq netHist' /\ gpuHist <= gpuHist']_vars
  BY GpuAssumption
     DEF IInv, TypeOK, Next, vars, update_disks, update_networks, update_gpus, SelectDisk,
         SelectNetwork, NextGpu, PrevGpu, ChangeTab, diskPanel, netPanel, gpuPanel
<1> QED
  BY <1>1, Invariance, PTL DEF Spec, HistoriesSurvive

-----------------------------------------------------------------------------
(* Layout: dividing an area. *)

\* The totals of the first parts grow part by part.
LEMMA TotalFacts ==
  ASSUME NEW n \in Nat, NEW s, s \in [1..n -> Nat]
  PROVE  /\ Total(s, 0) = 0
         /\ \A k \in 0..n : Total(s, k) \in Nat
         /\ \A k \in 0..n : k < n => Total(s, k + 1) = Total(s, k) + s[k + 1]
         /\ \A j, k \in 0..n : j <= k => Total(s, j) <= Total(s, k)
<1>1. \A x \in 1..n : s[x] \in Nat /\ s[x] \in Int
  OBVIOUS
<1>2. \A k \in 0..n : IsFiniteSet(1..k) /\ \A x \in 1..k : x \in 1..n
  <2> TAKE k \in 0..n
  <2> QED
    BY FS_Interval
<1>3. Total(s, 0) = 0
  <2>1. 1..0 = {}
    OBVIOUS
  <2> QED
    BY <2>1, SumEmpty DEF Total
<1>4. \A k \in 0..n : Total(s, k) \in Nat
  BY <1>1, <1>2, SumNat DEF Total
<1>5. ASSUME NEW k \in 0..n, k < n PROVE Total(s, k + 1) = Total(s, k) + s[k + 1]
  <2>1. /\ 1..(k + 1) = (1..k) \cup {k + 1} /\ k + 1 \notin 1..k /\ k + 1 \in 1..n
        /\ \A x \in (1..k) \cup {k + 1} : x \in 1..n
    BY <1>5
  <2>2. PICK z : z = k + 1
    OBVIOUS
  <2>3. PICK K : K = 1..k
    OBVIOUS
  <2>4. IsFiniteSet(K) /\ z \notin K /\ \A x \in K \cup {z} : s[x] \in Int
    BY <1>1, <1>2, <2>1, <2>2, <2>3
  <2>5. SumFunctionOnSet(s, K \cup {z}) = s[z] + SumFunctionOnSet(s, K)
    BY ONLY <2>4, SumAdd
  <2>6. Total(s, z) = s[z] + Total(s, k)
    BY <2>1, <2>2, <2>3, <2>5 DEF Total
  <2> QED
    BY <1>1, <1>4, <2>1, <2>2, <2>6
<1>6. ASSUME NEW j \in 0..n, NEW k \in 0..n, j <= k PROVE Total(s, j) <= Total(s, k)
  <2>1. PICK J : J = 1..j
    OBVIOUS
  <2>2. PICK R : R = (j + 1)..k
    OBVIOUS
  <2>3. /\ 1..k = J \cup R /\ J \cap R = {}
        /\ \A x \in R \cup J : x \in 1..n
    BY <1>6, <2>1, <2>2
  <2>4. IsFiniteSet(R) /\ IsFiniteSet(J) /\ \A x \in R \cup J : s[x] \in Int /\ s[x] \in Nat
    <3>1. j + 1 \in Int /\ k \in Int /\ j \in Int /\ 1 \in Int
      OBVIOUS
    <3>2. IsFiniteSet(1..j) /\ IsFiniteSet((j + 1)..k)
      BY <3>1, FS_Interval
    <3> QED
      BY <1>1, <2>1, <2>2, <2>3, <3>2
  <2>5. SumFunctionOnSet(s, J \cup R) = SumFunctionOnSet(s, J) + SumFunctionOnSet(s, R)
    BY <2>3, <2>4, SumUnion
  <2>6. SumFunctionOnSet(s, R) \in Nat
    BY <2>4, SumNat
  <2>7. Total(s, k) = Total(s, j) + SumFunctionOnSet(s, R)
    BY <2>1, <2>3, <2>5 DEF Total
  <2> QED
    BY <1>4, <2>6, <2>7
<1> QED
  BY <1>3, <1>4, <1>5, <1>6

\* Parts of one length.
LEMMA TotalOfEqual ==
  ASSUME NEW n \in Nat, NEW c \in Nat, NEW s, s \in [1..n -> Nat], \A i \in 1..n : s[i] = c
  PROVE  Total(s, n) = n * c
<1> DEFINE B == {k \in Nat : k <= n => Total(s, k) = k * c}
<1>1. 0 \in B
  BY TotalFacts
<1>2. ASSUME NEW k \in Nat, k \in B PROVE k + 1 \in B
  <2>1. CASE k + 1 <= n
    <3>1. Total(s, k + 1) = Total(s, k) + s[k + 1] /\ Total(s, k) = k * c
      BY <1>2, <2>1, TotalFacts
    <3>2. s[k + 1] = c /\ k * c + c = (k + 1) * c
      BY <2>1
    <3> QED
      BY <3>1, <3>2
  <2>2. CASE ~(k + 1 <= n)
    BY <2>2
  <2> QED
    BY <2>1, <2>2
<1> HIDE DEF B
<1>3. Nat \subseteq B
  BY <1>1, <1>2, NatSetInduction
<1> QED
  BY <1>3 DEF B

\* What is asked for: lengths, and at most one part that takes the rest.
PartsType(parts, n) ==
  /\ n \in Nat \ {0} /\ Len(parts) = n /\ DOMAIN parts = 1..n
  /\ \A i \in 1..n : parts[i] \in Nat \cup {Fill}
  /\ \A i, j \in 1..n : parts[i] = Fill /\ parts[j] = Fill => i = j

\* The heights the solver may choose: none more than was asked for, all of it taken where
\* some part takes the rest, and every length kept where they all fit.
LEMMA SplitFacts ==
  ASSUME NEW total \in Nat, NEW n, NEW parts, PartsType(parts, n), NEW s \in Split(total, parts)
  PROVE  /\ s \in [1..n -> Nat] /\ Lengths(parts) \in [1..n -> Nat]
         /\ Total(s, n) <= total
         /\ (\E i \in 1..n : parts[i] = Fill) => Total(s, n) = total
         /\ \A i \in 1..n : parts[i] # Fill => s[i] <= parts[i]
         /\ Total(Lengths(parts), n) <= total =>
              \A i \in 1..n : parts[i] # Fill => s[i] = parts[i]
<1> USE DEF PartsType
<1> DEFINE fills == {i \in DOMAIN parts : parts[i] = Fill}
           lengths == Lengths(parts)
           rest == total - Total(lengths, Len(parts))
           longest == Max({lengths[i] : i \in DOMAIN lengths})
           Cut == {q \in [DOMAIN parts -> 0..longest] :
                     (\A i \in DOMAIN q : q[i] <= lengths[i]) /\ Total(q, Len(parts)) = total}
           Shared(more) == [i \in DOMAIN parts |->
               lengths[i] + (IF i \in fills THEN rest \div Cardinality(fills) ELSE 0)
                          + (IF i \in more THEN 1 ELSE 0)]
<1>1. lengths \in [1..n -> Nat] /\ DOMAIN lengths = 1..n
      /\ \A i \in 1..n : lengths[i] = IF parts[i] = Fill THEN 0 ELSE parts[i]
  BY DEF Lengths, Fill
<1>2. /\ n \in Nat /\ Total(lengths, n) \in Nat /\ Total(lengths, n) \in Int /\ rest \in Int
      /\ Len(parts) = n /\ rest = total - Total(lengths, n)
  BY <1>1, TotalFacts
<1>3. /\ rest < 0 => s \in Cut
      /\ rest >= 0 /\ fills = {} => s = lengths
      /\ rest >= 0 /\ fills # {} =>
           \E more \in SUBSET fills : /\ Cardinality(more) = rest % Cardinality(fills)
                                      /\ s = Shared(more)
  <2>1. Split(total, parts) =
          IF rest < 0 THEN Cut
          ELSE IF fills = {} THEN {lengths}
          ELSE {Shared(more) :
                  more \in {S \in SUBSET fills : Cardinality(S) = rest % Cardinality(fills)}}
    BY DEF Split
  <2> HIDE DEF Cut, fills, rest, lengths, Shared
  <2>2. s \in IF rest < 0 THEN Cut
          ELSE IF fills = {} THEN {lengths}
          ELSE {Shared(more) :
                  more \in {S \in SUBSET fills : Cardinality(S) = rest % Cardinality(fills)}}
    BY <2>1
  <2>3. rest < 0 <=> ~(rest >= 0)
    BY <1>2
  <2> QED
    BY <2>2, <2>3
<1>4. longest \in Nat
  <2>1. IsFiniteSet(1..n)
    BY <1>2, FS_Interval
  <2>2. PICK T : T = {lengths[i] : i \in 1..n}
    OBVIOUS
  <2>3. IsFiniteSet(T)
    BY <2>1, <2>2, ImageFinite
  <2>4. T \in SUBSET Int /\ T \subseteq Nat /\ T # {}
    BY <1>1, <2>2
  <2>5. Max(T) \in T
    BY <2>3, <2>4, MaxOfFinite
  <2>6. longest = Max(T)
    BY <1>1, <2>2
  <2> HIDE DEF longest
  <2> QED
    BY <2>4, <2>5, <2>6
<1> HIDE DEF lengths, longest
<1>5. CASE rest < 0
  <2>1. s \in [1..n -> 0..longest] /\ Total(s, n) = total /\ \A i \in 1..n : s[i] <= lengths[i]
    BY <1>2, <1>3, <1>5
  <2>2. s \in [1..n -> Nat]
    BY <1>4, <2>1
  <2>3. \A i \in 1..n : parts[i] # Fill => s[i] <= parts[i]
    BY <1>1, <2>1
  <2>4. ~(Total(lengths, n) <= total)
    BY <1>2, <1>5
  <2> QED
    BY <1>1, <2>1, <2>2, <2>3, <2>4 DEF lengths
<1>6. CASE rest >= 0 /\ fills = {}
  <2>1. s = lengths /\ \A i \in 1..n : parts[i] # Fill
    BY <1>3, <1>6
  <2>2. Total(s, n) <= total
    BY <1>2, <1>6, <2>1
  <2>3. \A i \in 1..n : s[i] = parts[i] /\ s[i] <= parts[i]
    BY <1>1, <2>1
  <2> QED
    BY <1>1, <2>1, <2>2, <2>3 DEF lengths
<1>7. CASE rest >= 0 /\ fills # {}
  <2>1. PICK f \in 1..n : f \in fills
    BY <1>7
  <2>2. fills = {f} /\ parts[f] = Fill
    BY <2>1
  <2>3. Cardinality(fills) = 1
    BY <2>2, FS_Singleton
  <2>4. PICK more \in SUBSET fills : /\ Cardinality(more) = rest % Cardinality(fills)
                                     /\ s = Shared(more)
    BY <1>3, <1>7
  <2> HIDE DEF fills, rest
  <2>5. rest % 1 = 0 /\ rest \div 1 = rest
    BY <1>2, <1>7
  <2>6. more = {}
    <3>1. IsFiniteSet(fills)
      BY <2>2, FS_Singleton
    <3>2. IsFiniteSet(more) /\ Cardinality(more) = 0
      BY <2>3, <2>4, <2>5, <3>1, FS_Subset
    <3> QED
      BY <3>2, FS_EmptySet
  <2>7. s = [i \in 1..n |-> IF i = f THEN rest ELSE lengths[i]]
    <3>1. s = [i \in 1..n |-> lengths[i] + (IF i = f THEN rest ELSE 0) + 0]
      BY <2>2, <2>3, <2>4, <2>5, <2>6
    <3>2. lengths[f] = 0 /\ \A i \in 1..n : lengths[i] \in Nat
      BY <1>1, <2>1, <2>2
    <3>3. \A i \in 1..n : lengths[i] + (IF i = f THEN rest ELSE 0) + 0
                            = IF i = f THEN rest ELSE lengths[i]
      <4> TAKE i \in 1..n
      <4>1. CASE i = f
        BY <1>2, <3>2, <4>1
      <4>2. CASE i # f
        BY <3>2, <4>2
      <4> QED
        BY <4>1, <4>2
    <3> QED
      BY <3>1, <3>3
  <2>8. s \in [1..n -> Nat] /\ s[f] = rest /\ \A i \in 1..n : i # f => s[i] = lengths[i]
    BY <1>1, <1>2, <1>7, <2>7
  <2>9. Total(s, n) = total
    <3>1. PICK N : N = 1..n
      OBVIOUS
    <3>2. /\ IsFiniteSet(N) /\ IsFiniteSet(N \ {f}) /\ f \in N
          /\ \A x \in N : s[x] \in Int /\ lengths[x] \in Int
      <4>1. IsFiniteSet(N)
        BY <1>2, <3>1, FS_Interval
      <4>2. IsFiniteSet(N \ {f})
        BY <4>1, FS_Subset
      <4>3. \A x \in N : s[x] \in Nat /\ lengths[x] \in Nat
        BY <1>1, <2>8, <3>1
      <4> QED
        BY <3>1, <4>1, <4>2, <4>3
    <3>3. /\ SumFunctionOnSet(s, N) = s[f] + SumFunctionOnSet(s, N \ {f})
          /\ SumFunctionOnSet(lengths, N) = lengths[f] + SumFunctionOnSet(lengths, N \ {f})
      BY <3>2, SumRemove
    <3>4. SumFunctionOnSet(s, N \ {f}) = SumFunctionOnSet(lengths, N \ {f})
      <4>1. \A x \in N \ {f} : s[x] \in Int /\ s[x] = lengths[x]
        BY <2>8, <3>1, <3>2
      <4> QED
        BY <3>2, <4>1, SumEqual
    <3>5. SumFunctionOnSet(s, N \ {f}) \in Int
      BY <3>2, SumInt
    <3>6. lengths[f] = 0
      BY <1>1, <2>2
    <3>7. Total(s, n) = SumFunctionOnSet(s, N) /\ Total(lengths, n) = SumFunctionOnSet(lengths, N)
      BY <3>1 DEF Total
    <3> QED
      BY <1>2, <2>8, <3>3, <3>4, <3>5, <3>6, <3>7
  <2>10. \A i \in 1..n : parts[i] # Fill => s[i] = parts[i] /\ s[i] <= parts[i]
    BY <1>1, <2>2, <2>8
  <2> QED
    BY <1>1, <2>8, <2>9, <2>10 DEF lengths
<1> QED
  BY <1>2, <1>5, <1>6, <1>7

Area == [y : Nat, h : Nat]

\* The parts lie one below the other and inside the area; a part that asks for a
\* length gets no more, and gets it if all lengths fit.
LEMMA VerticalFacts ==
  ASSUME NEW area \in Area, NEW n, NEW parts, PartsType(parts, n), NEW a \in Vertical(area, parts)
  PROVE  /\ \A i \in 1..n : a[i] \in Area
         /\ a[1].y = area.y
         /\ \A i \in 1..n : i < n => a[i + 1].y = a[i].y + a[i].h
         /\ \A i \in 1..n : a[i].y >= area.y /\ a[i].y + a[i].h <= area.y + area.h
         /\ (\E i \in 1..n : parts[i] = Fill) => a[n].y + a[n].h = area.y + area.h
         /\ \A i \in 1..n : parts[i] # Fill => a[i].h <= parts[i]
         /\ Total(Lengths(parts), n) <= area.h =>
              \A i \in 1..n : parts[i] # Fill => a[i].h = parts[i]
<1>1. PICK s \in Split(area.h, parts) : a = Areas(area, s)
  BY DEF Vertical
<1>2. area.y \in Nat /\ area.h \in Nat /\ n \in Nat \ {0}
  BY DEF Area, PartsType
<1>3. /\ s \in [1..n -> Nat] /\ Total(s, n) <= area.h
      /\ (\E i \in 1..n : parts[i] = Fill) => Total(s, n) = area.h
      /\ \A i \in 1..n : parts[i] # Fill => s[i] <= parts[i]
      /\ Total(Lengths(parts), n) <= area.h => \A i \in 1..n : parts[i] # Fill => s[i] = parts[i]
  BY <1>2, SplitFacts
<1>4. /\ Total(s, 0) = 0
      /\ \A k \in 0..n : Total(s, k) \in Nat
      /\ \A k \in 0..n : k < n => Total(s, k + 1) = Total(s, k) + s[k + 1]
      /\ \A j, k \in 0..n : j <= k => Total(s, j) <= Total(s, k)
  BY <1>2, <1>3, TotalFacts
<1>5. \A i \in 1..n : a[i] = [y |-> area.y + Total(s, i - 1), h |-> s[i]]
  BY <1>1, <1>3 DEF Areas
<1>6. \A i \in 1..n : a[i].y = area.y + Total(s, i - 1) /\ a[i].h = s[i] /\ s[i] \in Nat
  <2> TAKE i \in 1..n
  <2>1. a[i] = [y |-> area.y + Total(s, i - 1), h |-> s[i]]
    BY <1>5
  <2>2. s[i] \in Nat
    BY <1>3
  <2> QED
    BY <2>1, <2>2
<1>7. \A i \in 1..n : i - 1 \in 0..n /\ i \in 0..n /\ i - 1 < n /\ (i - 1) + 1 = i
  BY <1>2
<1>8. \A i \in 1..n : Total(s, i - 1) \in Nat /\ Total(s, i) = Total(s, i - 1) + s[i]
  BY <1>4, <1>7
<1>9. \A i \in 1..n : a[i] \in Area
  <2> TAKE i \in 1..n
  <2>1. area.y + Total(s, i - 1) \in Nat /\ s[i] \in Nat
    <3>1. PICK t : t = Total(s, i - 1)
      OBVIOUS
    <3>2. t \in Nat /\ s[i] \in Nat
      BY <1>6, <1>8, <3>1
    <3> QED
      BY <1>2, <3>1, <3>2
  <2>2. a[i] = [y |-> area.y + Total(s, i - 1), h |-> s[i]]
    BY <1>5
  <2> QED
    BY <2>1, <2>2 DEF Area
<1>10. a[1].y = area.y
  BY <1>2, <1>4, <1>6
<1>11. ASSUME NEW i \in 1..n, i < n PROVE a[i + 1].y = a[i].y + a[i].h
  <2>1. i + 1 \in 1..n /\ (i + 1) - 1 = i
    BY <1>2, <1>11
  <2>2. a[i + 1].y = area.y + Total(s, i)
    BY <1>6, <2>1
  <2> QED
    BY <1>2, <1>6, <1>8, <2>2
<1>12. ASSUME NEW i \in 1..n
       PROVE  /\ a[i].y >= area.y
              /\ a[i].y + a[i].h = area.y + Total(s, i) /\ a[i].y + a[i].h <= area.y + area.h
  <2>1. Total(s, i) <= Total(s, n) /\ Total(s, i) \in Nat /\ Total(s, n) \in Nat
    BY <1>2, <1>4
  <2>2. PICK t, u, v : t = Total(s, i - 1) /\ u = Total(s, i) /\ v = Total(s, n)
    OBVIOUS
  <2>3. /\ t \in Nat /\ u = t + s[i] /\ s[i] \in Nat /\ u <= v /\ v <= area.h /\ v \in Nat
        /\ a[i].y = area.y + t /\ a[i].h = s[i]
    BY <1>3, <1>6, <1>8, <2>1, <2>2
  <2>4. area.y + t >= area.y /\ (area.y + t) + s[i] = area.y + u /\ area.y + u <= area.y + area.h
    BY <1>2, <2>3
  <2> QED
    BY <2>2, <2>3, <2>4
<1>13. (\E i \in 1..n : parts[i] = Fill) => a[n].y + a[n].h = area.y + area.h
  BY <1>2, <1>3, <1>12
<1>14. /\ \A i \in 1..n : parts[i] # Fill => a[i].h <= parts[i]
       /\ Total(Lengths(parts), n) <= area.h =>
            \A i \in 1..n : parts[i] # Fill => a[i].h = parts[i]
  BY <1>3, <1>6
<1> QED
  BY <1>9, <1>10, <1>11, <1>12, <1>13, <1>14

\* The lengths of few parts.
LEMMA FewLengths ==
  ASSUME NEW n, NEW parts, PartsType(parts, n)
  PROVE  /\ n = 2 => Total(Lengths(parts), n) = Lengths(parts)[1] + Lengths(parts)[2]
         /\ n = 3 => Total(Lengths(parts), n)
                       = Lengths(parts)[1] + Lengths(parts)[2] + Lengths(parts)[3]
         /\ \A i \in 1..n : Lengths(parts)[i] = IF parts[i] = Fill THEN 0 ELSE parts[i]
         /\ \A i \in 1..n : Lengths(parts)[i] \in Nat
<1>1. PICK s : s = Lengths(parts)
  OBVIOUS
<1>2. /\ n \in Nat /\ s \in [1..n -> Nat]
      /\ \A i \in 1..n : s[i] = (IF parts[i] = Fill THEN 0 ELSE parts[i]) /\ s[i] \in Nat
  BY <1>1 DEF Lengths, PartsType, Fill
<1>3. /\ Total(s, 0) = 0
      /\ \A k \in 0..n : Total(s, k) \in Nat
      /\ \A k \in 0..n : k < n => Total(s, k + 1) = Total(s, k) + s[k + 1]
  BY <1>2, TotalFacts
<1>4. ASSUME n >= 2 PROVE Total(s, 2) = s[1] + s[2]
  <2>1. Total(s, 0 + 1) = Total(s, 0) + s[0 + 1] /\ Total(s, 1 + 1) = Total(s, 1) + s[1 + 1]
    BY <1>2, <1>3, <1>4
  <2> QED
    BY <1>2, <1>3, <1>4, <2>1
<1>5. ASSUME n = 3 PROVE Total(s, 3) = s[1] + s[2] + s[3]
  <2>1. Total(s, 2 + 1) = Total(s, 2) + s[2 + 1]
    BY <1>2, <1>3, <1>5
  <2> QED
    BY <1>2, <1>4, <1>5, <2>1
<1> QED
  BY <1>1, <1>2, <1>4, <1>5

\* One length and the rest.
LEMMA TwoParts ==
  ASSUME NEW area \in Area, NEW c \in Nat, NEW a \in Vertical(area, <<c, Fill>>)
  PROVE  /\ a[1] \in Area /\ a[2] \in Area
         /\ a[1].y = area.y /\ a[2].y = a[1].y + a[1].h /\ a[2].y + a[2].h = area.y + area.h
         /\ a[1].h <= c /\ (c <= area.h => a[1].h = c)
<1>1. PICK parts : parts = <<c, Fill>>
  OBVIOUS
<1>2. PartsType(parts, 2) /\ parts[1] = c /\ parts[2] = Fill /\ c # Fill
  BY <1>1 DEF PartsType, Fill
<1>3. Total(Lengths(parts), 2) = c
  <2>1. /\ Total(Lengths(parts), 2) = Lengths(parts)[1] + Lengths(parts)[2]
        /\ Lengths(parts)[1] = c /\ Lengths(parts)[2] = 0
    BY <1>2, FewLengths
  <2> QED
    BY <2>1
<1>4. a \in Vertical(area, parts)
  BY <1>1
<1>5. area.h \in Nat
  BY DEF Area
<1>6. 1 \in 1..2 /\ 2 \in 1..2 /\ 1 < 2 /\ 1 + 1 = 2
  OBVIOUS
<1> QED
  BY <1>2, <1>3, <1>4, <1>6, VerticalFacts

\* Two lengths and a rest, at the end or between them.
LEMMA ThreeParts ==
  ASSUME NEW area \in Area, NEW c \in Nat, NEW d \in Nat, NEW last \in BOOLEAN,
         NEW a \in Vertical(area, IF last THEN <<c, d, Fill>> ELSE <<c, Fill, d>>)
  PROVE  /\ a[1] \in Area /\ a[2] \in Area /\ a[3] \in Area
         /\ a[1].y = area.y /\ a[2].y = a[1].y + a[1].h /\ a[3].y = a[2].y + a[2].h
         /\ a[3].y + a[3].h = area.y + area.h
         /\ a[1].h <= c /\ a[IF last THEN 2 ELSE 3].h <= d
         /\ c + d <= area.h => a[1].h = c /\ a[IF last THEN 2 ELSE 3].h = d
<1>1. PICK parts : parts = IF last THEN <<c, d, Fill>> ELSE <<c, Fill, d>>
  OBVIOUS
<1>2. PICK k \in {2, 3} : k = IF last THEN 2 ELSE 3
  OBVIOUS
<1>3. /\ PartsType(parts, 3) /\ parts[1] = c /\ parts[k] = d /\ parts[5 - k] = Fill
      /\ c # Fill /\ d # Fill
  <2>1. CASE last
    BY <1>1, <1>2, <2>1 DEF PartsType, Fill
  <2>2. CASE ~last
    BY <1>1, <1>2, <2>2 DEF PartsType, Fill
  <2> QED
    BY <2>1, <2>2
<1>4. Total(Lengths(parts), 3) = c + d
  <2>1. PICK s : s = Lengths(parts)
    OBVIOUS
  <2>2. /\ Total(s, 3) = s[1] + s[2] + s[3]
        /\ \A i \in 1..3 : s[i] = IF parts[i] = Fill THEN 0 ELSE parts[i]
    BY <1>3, <2>1, FewLengths
  <2>3. s[1] = c /\ s[k] = d /\ s[5 - k] = 0
    BY <1>3, <2>2
  <2>4. s[1] + s[2] + s[3] = c + d
    BY <2>3
  <2> QED
    BY <2>1, <2>2, <2>4
<1>5. a \in Vertical(area, parts)
  BY <1>1
<1>6. /\ 1 \in 1..3 /\ 2 \in 1..3 /\ 3 \in 1..3 /\ 1 < 3 /\ 2 < 3 /\ 1 + 1 = 2 /\ 2 + 1 = 3
      /\ k \in 1..3 /\ 5 - k \in 1..3
  OBVIOUS
<1>7. /\ \A i \in 1..3 : a[i] \in Area
      /\ a[1].y = area.y
      /\ \A i \in 1..3 : i < 3 => a[i + 1].y = a[i].y + a[i].h
      /\ a[3].y + a[3].h = area.y + area.h
      /\ a[1].h <= c /\ a[k].h <= d
      /\ c + d <= area.h => a[1].h = c /\ a[k].h = d
  BY <1>3, <1>4, <1>5, <1>6, VerticalFacts
<1> QED
  BY <1>2, <1>6, <1>7

-----------------------------------------------------------------------------
(* Layout: the height budget of the overview. *)

\* The quotient is the number of times the divisor fits.
LEMMA Quotient ==
  ASSUME NEW a \in Nat, NEW d \in Nat \ {0}
  PROVE  /\ a \div d \in Nat
         /\ d * (a \div d) <= a /\ a < d * (a \div d) + d
         /\ \A q \in Nat : q < a \div d => d * q + d <= a
         /\ \A q \in Nat : q > a \div d => a < d * q
<1>1. PICK m \in Nat : m = a \div d
  OBVIOUS
<1>2. d * m <= a /\ a < d * m + d
  BY <1>1
<1>3. ASSUME NEW q \in Nat, q < m PROVE d * q + d <= a
  <2>1. m = q + 1 + (m - q - 1) /\ m - q - 1 \in Nat
    BY <1>3
  <2>2. d * m = d * q + d + d * (m - q - 1) /\ d * (m - q - 1) \in Nat /\ d * q \in Nat
    BY <2>1
  <2> QED
    BY <1>2, <2>2
<1>4. ASSUME NEW q \in Nat, q > m PROVE a < d * q
  <2>1. q = m + 1 + (q - m - 1) /\ q - m - 1 \in Nat
    BY <1>4
  <2>2. d * q = d * m + d + d * (q - m - 1) /\ d * (q - m - 1) \in Nat /\ d * m \in Nat
    BY <2>1
  <2> QED
    BY <1>2, <2>2
<1> QED
  BY <1>1, <1>2, <1>3, <1>4

\* The proportional share m of m + 6 of x: of one row more at most one, and one less
\* than m when 5 rows more than m are shared.
LEMMA Share ==
  ASSUME NEW x \in Nat, NEW m \in Nat \ {0}
  PROVE  /\ (x * m) \div (m + 6) \in Nat
         /\ (x * m) \div (m + 6) <= x
         /\ (x * m) \div (m + 6) <= ((x + 1) * m) \div (m + 6)
         /\ ((x + 1) * m) \div (m + 6) <= (x * m) \div (m + 6) + 1
         /\ x = m + 5 => (x * m) \div (m + 6) = m - 1
<1>1. PICK d \in Nat \ {0} : d = m + 6
  OBVIOUS
<1>2. PICK a \in Nat, b \in Nat : a = x * m /\ b = (x + 1) * m
  OBVIOUS
<1>3. PICK q \in Nat, r \in Nat : q = a \div d /\ r = b \div d
  BY <1>1, <1>2
<1>4. b = a + m /\ a <= d * x
  <2>1. (x + 1) * m = x * m + m /\ d * x = x * m + 6 * x
    BY <1>1
  <2> QED
    BY <1>2, <2>1
<1>5. /\ d * q <= a /\ a < d * q + d
      /\ \A p \in Nat : (p < q => d * p + d <= a) /\ (p > q => a < d * p)
  BY <1>3, Quotient
<1>6. /\ d * r <= b /\ b < d * r + d
      /\ \A p \in Nat : (p < r => d * p + d <= b) /\ (p > r => b < d * p)
  BY <1>3, Quotient
<1>7. q <= x
  <2> SUFFICES ASSUME x < q PROVE FALSE
    OBVIOUS
  <2>1. d * x + d <= a /\ d * x \in Nat
    BY <1>5
  <2> QED
    BY <1>4, <2>1
<1>8. q <= r
  <2> SUFFICES ASSUME r < q PROVE FALSE
    OBVIOUS
  <2>1. d * r + d <= a /\ d * r \in Nat
    BY <1>5
  <2> QED
    BY <1>4, <1>6, <2>1
<1>9. r <= q + 1
  <2> SUFFICES ASSUME q + 1 < r PROVE FALSE
    OBVIOUS
  <2>1. d * (q + 1) + d <= b /\ d * (q + 1) = d * q + d /\ d * q \in Nat
    BY <1>6
  <2> QED
    BY <1>1, <1>4, <1>5, <2>1
<1>10. ASSUME x = m + 5 PROVE q = m - 1
  <2>1. m - 1 \in Nat /\ a = d * (m - 1) + 6 /\ d * (m - 1) + d > a
    <3>1. (m + 5) * m = m * m + 5 * m /\ (m + 6) * (m - 1) = m * m + 5 * m - 6
      OBVIOUS
    <3> QED
      BY <1>1, <1>2, <1>10, <3>1
  <2>2. ~(m - 1 < q)
    BY <1>5, <2>1
  <2>3. ~(m - 1 > q)
    BY <1>5, <2>1
  <2> QED
    BY <2>1, <2>2, <2>3
<1> QED
  BY <1>1, <1>2, <1>3, <1>7, <1>8, <1>9, <1>10

\* What CPU and memory get of a budget that is enough for the minima: between the
\* minimum and what they want, and never what the I/O row must have.
LEMMA CpuMemHeight ==
  ASSUME NEW b \in Nat, NEW w \in Nat, w >= 10
  PROVE  /\ cpu_mem_h(b, w) \in Nat
         /\ b >= 13 => /\ cpu_mem_h(b, w) >= 7 /\ cpu_mem_h(b, w) <= w
                       /\ cpu_mem_h(b, w) + 6 <= b
         /\ b >= w + 12 => cpu_mem_h(b, w) = w
<1> USE DEF cpu_mem_min, io_min, io_want
<1>1. CASE b >= w + 12
  BY <1>1 DEF cpu_mem_h
<1>2. CASE b < w + 12 /\ b >= 13
  <2>1. PICK x \in Nat, m \in Nat \ {0} : x = b - 13 /\ m = w - 7
    BY <1>2
  <2>2. PICK q \in Nat : q = (x * m) \div (m + 6) /\ q <= x
    BY Share
  <2>3. cpu_mem_h(b, w) = 7 + Least(q, m)
    <3>1. b - (7 + 6) = x /\ w - 7 = m /\ 12 - 6 = 6
      BY <2>1
    <3>2. ~(b >= w + 12) /\ b >= 7 + 6
      BY <1>2
    <3> QED
      BY <2>2, <3>1, <3>2 DEF cpu_mem_h
  <2> QED
    BY <1>2, <2>1, <2>2, <2>3 DEF Least
<1>3. CASE b < 13
  BY <1>3 DEF cpu_mem_h, Most, Minus
<1> QED
  BY <1>1, <1>2, <1>3

\* One row more in the budget goes to one of the two sides and is taken from none.
LEMMA CpuMemGrows ==
  ASSUME NEW b \in Nat, NEW w \in Nat, w >= 10, b >= 13
  PROVE  /\ cpu_mem_h(b, w) <= cpu_mem_h(b + 1, w)
         /\ cpu_mem_h(b + 1, w) <= cpu_mem_h(b, w) + 1
<1> USE DEF cpu_mem_min, io_min, io_want
<1>1. CASE b >= w + 12
  BY <1>1 DEF cpu_mem_h
<1>2. CASE b < w + 12
  <2>1. PICK x \in Nat, m \in Nat \ {0} : x = b - 13 /\ m = w - 7
    BY <1>2
  <2>2. PICK q \in Nat, r \in Nat : q = (x * m) \div (m + 6) /\ r = ((x + 1) * m) \div (m + 6)
    <3>1. PICK z \in Nat : z = x + 1
      OBVIOUS
    <3>2. (z * m) \div (m + 6) \in Nat /\ (x * m) \div (m + 6) \in Nat
      BY Share
    <3> QED
      BY <3>1, <3>2
  <2>3. q <= r /\ r <= q + 1 /\ (x = m + 5 => q = m - 1)
    BY <2>2, Share
  <2>4. cpu_mem_h(b, w) = 7 + Least(q, m)
    <3>1. b - (7 + 6) = x /\ w - 7 = m /\ 12 - 6 = 6
      BY <2>1
    <3>2. ~(b >= w + 12) /\ b >= 7 + 6
      BY <1>2
    <3> QED
      BY <2>2, <3>1, <3>2 DEF cpu_mem_h
  <2>5. CASE b + 1 < w + 12
    <3>1. (b + 1) - (7 + 6) = x + 1 /\ w - 7 = m /\ 12 - 6 = 6
      BY <2>1
    <3>2. ~(b + 1 >= w + 12) /\ b + 1 >= 7 + 6
      BY <2>5
    <3>3. cpu_mem_h(b + 1, w) = 7 + Least(r, m)
      BY <2>2, <3>1, <3>2 DEF cpu_mem_h
    <3> QED
      BY <2>3, <2>4, <3>3 DEF Least
  \* The last row of the share, after which everything is there.
  <2>6. CASE b + 1 = w + 12
    <3>1. x = m + 5 /\ w = m + 7
      BY <2>1, <2>6
    <3>2. cpu_mem_h(b + 1, w) = w
      BY <2>6 DEF cpu_mem_h
    <3> QED
      BY <2>3, <2>4, <3>1, <3>2 DEF Least
  <2> QED
    BY <1>2, <2>5, <2>6
<1> QED
  BY <1>1, <1>2

\* What is wanted for the cores and for the GPUs.
LEMMA WantFacts ==
  ASSUME NEW c \in Nat, NEW g \in Nat, NEW per_core \in BOOLEAN
  PROVE  /\ per_core_columns(c) \in {2, 4, 8} /\ core_rows(c) \in Nat
         /\ c <= core_rows(c) * per_core_columns(c)
         /\ cpu_mem_want(per_core, c) \in Nat /\ cpu_mem_want(per_core, c) >= 10
         /\ per_core => cpu_mem_want(per_core, c) >= 4 + core_rows(c)
         /\ gpu_want(g) \in Nat
         /\ g \in 1..4 => gpu_want(g) = 3 * g + 2
<1>1. PICK m \in {2, 4, 8} : m = per_core_columns(c)
  BY DEF per_core_columns
<1>2. /\ core_rows(c) = (c + m - 1) \div m /\ core_rows(c) \in Nat
      /\ c <= core_rows(c) * m
  BY <1>1 DEF core_rows
<1>3. /\ cpu_mem_want(per_core, c) \in Nat /\ cpu_mem_want(per_core, c) >= 10
      /\ per_core => cpu_mem_want(per_core, c) >= 4 + core_rows(c)
  BY <1>2 DEF cpu_mem_want, Most
<1>4. gpu_want(g) \in Nat /\ (g \in 1..4 => gpu_want(g) = 3 * g + 2)
  BY DEF gpu_want, Least
<1> QED
  BY <1>1, <1>2, <1>3, <1>4

-----------------------------------------------------------------------------
(* Layout: the frames. *)

\* The sections of an overview lie one below the other and fill the body.  When the
\* minima fit, each gets its share of the budget.
Stacked(area, o) ==
  /\ o.cpu_mem \in Area /\ o.gpu \in Area /\ o.io \in Area /\ o.process \in Area
  /\ o.cpu_mem.y = area.y /\ o.gpu.y = o.cpu_mem.y + o.cpu_mem.h
  /\ o.io.y = o.gpu.y + o.gpu.h /\ o.process.y = o.io.y + o.io.h
  /\ o.process.y + o.process.h = area.y + area.h

\* Where the minima fit, each section gets its share of the budget.
LEMMA OverviewFacts ==
  ASSUME NEW area \in Area, NEW per_core \in BOOLEAN, NEW g \in Nat, NEW c \in Nat,
         NEW o \in Overview(area, per_core, g, c),
         NEW w, w = cpu_mem_want(per_core, c), NEW b, b = area.h - (gpu_want(g) + 4)
  PROVE  /\ Stacked(area, o)
         /\ b >= 13 => /\ b \in Nat /\ o.cpu_mem.h = cpu_mem_h(b, w) /\ o.gpu.h = gpu_want(g)
                       /\ o.io.h = Least(b - cpu_mem_h(b, w), 12)
                       /\ o.process.h = 4 + (b - cpu_mem_h(b, w)) - Least(b - cpu_mem_h(b, w), 12)
<1> DEFINE budget == Budget(area.h, g)
<1>1. /\ w \in Nat /\ w >= 10 /\ gpu_want(g) \in Nat /\ area.h \in Nat /\ area.y \in Nat
      /\ area.h \in Int
  BY WantFacts DEF Area
<1>2. b \in Int /\ budget \in Nat /\ (b >= 0 => budget = b)
  BY <1>1 DEF Budget, Minus, process_min
<1>3. PICK k \in Nat : k = cpu_mem_h(budget, w)
  BY <1>1, <1>2, CpuMemHeight
<1>4. PICK i \in Nat : i = io_h(budget, w)
  <2>1. io_h(budget, w) \in Nat
    BY <1>2, <1>3 DEF io_h, Least, Most, Minus, io_want, io_min
  <2> QED
    BY <2>1
<1> HIDE DEF budget
<1>5. PICK a \in Vertical(area, <<k, gpu_want(g), Fill>>) :
        \E d \in Vertical(a[3], <<i, Fill>>) :
          o = [cpu_mem |-> a[1], gpu |-> a[2], io |-> d[1], process |-> d[2]]
  BY <1>3, <1>4 DEF Overview, budget
<1>6. PICK d \in Vertical(a[3], <<i, Fill>>) :
        o = [cpu_mem |-> a[1], gpu |-> a[2], io |-> d[1], process |-> d[2]]
  BY <1>5
<1>7. /\ a[1] \in Area /\ a[2] \in Area /\ a[3] \in Area
      /\ a[1].y = area.y /\ a[2].y = a[1].y + a[1].h /\ a[3].y = a[2].y + a[2].h
      /\ a[3].y + a[3].h = area.y + area.h
      /\ k + gpu_want(g) <= area.h => a[1].h = k /\ a[2].h = gpu_want(g)
  <2>1. PICK last \in BOOLEAN, gw \in Nat : last = TRUE /\ gw = gpu_want(g)
    BY <1>1
  <2>2. a \in Vertical(area, IF last THEN <<k, gw, Fill>> ELSE <<k, Fill, gw>>)
    BY <2>1
  <2>3. /\ a[1] \in Area /\ a[2] \in Area /\ a[3] \in Area
        /\ a[1].y = area.y /\ a[2].y = a[1].y + a[1].h /\ a[3].y = a[2].y + a[2].h
        /\ a[3].y + a[3].h = area.y + area.h
        /\ k + gw <= area.h => a[1].h = k /\ a[IF last THEN 2 ELSE 3].h = gw
    BY <2>2, ThreeParts
  <2> QED
    BY <2>1, <2>3
<1>8. /\ d[1] \in Area /\ d[2] \in Area
      /\ d[1].y = a[3].y /\ d[2].y = d[1].y + d[1].h /\ d[2].y + d[2].h = a[3].y + a[3].h
      /\ i <= a[3].h => d[1].h = i
  BY <1>7, TwoParts
<1>9. o.cpu_mem = a[1] /\ o.gpu = a[2] /\ o.io = d[1] /\ o.process = d[2]
  BY <1>6
<1>10. Stacked(area, o)
  BY <1>7, <1>8, <1>9 DEF Stacked
<1>11. ASSUME b >= 13
       PROVE  /\ b \in Nat /\ a[1].h = cpu_mem_h(b, w) /\ a[2].h = gpu_want(g)
              /\ d[1].h = Least(b - cpu_mem_h(b, w), 12)
              /\ d[2].h = 4 + (b - cpu_mem_h(b, w)) - Least(b - cpu_mem_h(b, w), 12)
  <2>1. b = budget /\ b \in Nat /\ k = cpu_mem_h(b, w) /\ k + 6 <= b
    <3>1. b = budget /\ b \in Nat
      BY <1>2, <1>11
    <3>2. k = cpu_mem_h(b, w)
      BY <1>3, <3>1
    <3>3. cpu_mem_h(b, w) + 6 <= b
      BY <1>1, <1>11, <3>1, CpuMemHeight
    <3> QED
      BY <3>1, <3>2, <3>3
  <2>2. i = Least(b - k, 12) /\ i <= b - k
    BY <1>4, <2>1 DEF io_h, Least, Most, Minus, io_want, io_min
  <2>3. PICK gw \in Nat, ah \in Nat, ay \in Nat : gw = gpu_want(g) /\ ah = area.h /\ ay = area.y
    BY <1>1
  <2>4. b = ah - (gw + 4) /\ k + gw <= ah
    BY <2>1, <2>3
  <2>5. a[1].h = k /\ a[2].h = gw
    BY <1>7, <2>3, <2>4
  <2>6. PICK h3 \in Nat, y3 \in Nat, h5 \in Nat, y5 \in Nat, h4 \in Nat :
          h3 = a[3].h /\ y3 = a[3].y /\ h5 = d[2].h /\ y5 = d[2].y /\ h4 = d[1].h
    BY <1>7, <1>8 DEF Area
  <2>7. y3 = ay + k + gw /\ y3 + h3 = ay + ah
    BY <1>7, <2>3, <2>5, <2>6
  <2>8. h3 = b - k + 4
    <3>1. b \in Nat /\ k \in Nat /\ ah \in Nat /\ ay \in Nat /\ gw \in Nat /\ h3 \in Nat /\ y3 \in Nat
      BY <2>1
    <3> QED
      BY ONLY <3>1, <2>4, <2>7
  <2>9. h4 = i /\ y5 = y3 + h4 /\ y5 + h5 = y3 + h3
    BY <1>8, <2>1, <2>2, <2>6, <2>8
  <2> QED
    BY <2>1, <2>2, <2>3, <2>5, <2>6, <2>8, <2>9
<1> QED
  BY <1>9, <1>10, <1>11

\* The sections of the process tab, or none.
LEMMA OtherTabs ==
  ASSUME NEW area \in Area, NEW t \in {"GpuDetail", "Processes"}, NEW per_core, NEW g, NEW c,
         NEW o \in BodySections(area, t, per_core, g, c)
  PROVE  /\ o.cpu_mem = Nowhere /\ o.gpu = Nowhere /\ o.io = Nowhere /\ o.process \in Area
         /\ o.process = Nowhere \/ (/\ area.y <= o.process.y
                                    /\ o.process.y + o.process.h <= area.y + area.h)
<1>1. Nowhere \in Area
  BY DEF Nowhere, Area
<1>2. CASE t = "GpuDetail"
  BY <1>1, <1>2 DEF BodySections
<1>3. CASE t = "Processes"
  <2>1. PICK b \in Vertical(area, <<3, Fill>>) :
          o = [cpu_mem |-> Nowhere, gpu |-> Nowhere, io |-> Nowhere, process |-> b[2]]
    BY <1>3 DEF BodySections
  <2>2. PICK c3 \in Nat : c3 = 3
    OBVIOUS
  <2>3. /\ b[1] \in Area /\ b[2] \in Area
        /\ b[1].y = area.y /\ b[2].y = b[1].y + b[1].h /\ b[2].y + b[2].h = area.y + area.h
    BY <2>1, <2>2, TwoParts
  <2>4. area.y <= b[2].y /\ b[2].y + b[2].h <= area.y + area.h
    BY <2>3 DEF Area
  <2> QED
    BY <2>1, <2>3, <2>4
<1> QED
  BY <1>2, <1>3

\* Header and footer have a row each, the rest is the body.
LEMMA FrameFacts ==
  ASSUME NEW h \in Nat \ {0, 1}, NEW t, NEW per_core, NEW g, NEW c,
         NEW f \in Frames(h, t, per_core, g, c)
  PROVE  /\ f.header = [y |-> 0, h |-> 1] /\ f.footer = [y |-> h - 1, h |-> 1]
         /\ f.body = [y |-> 1, h |-> h - 2] /\ f.body \in Area
         /\ \E o \in BodySections(f.body, t, per_core, g, c) :
              /\ f.cpu_mem = o.cpu_mem /\ f.gpu = o.gpu /\ f.io = o.io /\ f.process = o.process
<1>1. PICK a \in Vertical([y |-> 0, h |-> h], <<1, Fill, 1>>) :
        \E o \in BodySections(a[2], t, per_core, g, c) :
          f = [header |-> a[1], body |-> a[2], footer |-> a[3],
               cpu_mem |-> o.cpu_mem, gpu |-> o.gpu, io |-> o.io, process |-> o.process]
  BY DEF Frames
<1>2. PICK o \in BodySections(a[2], t, per_core, g, c) :
          f = [header |-> a[1], body |-> a[2], footer |-> a[3],
               cpu_mem |-> o.cpu_mem, gpu |-> o.gpu, io |-> o.io, process |-> o.process]
  BY <1>1
<1>3. PICK area \in Area : area = [y |-> 0, h |-> h]
  BY DEF Area
<1>4. /\ a[1] \in Area /\ a[2] \in Area /\ a[3] \in Area
      /\ a[1].y = 0 /\ a[2].y = a[1].y + a[1].h /\ a[3].y = a[2].y + a[2].h
      /\ a[3].y + a[3].h = h /\ a[1].h = 1 /\ a[3].h = 1
  <2>1. PICK last \in BOOLEAN, k \in Nat : last = FALSE /\ k = 1
    OBVIOUS
  <2>2. a \in Vertical(area, IF last THEN <<k, k, Fill>> ELSE <<k, Fill, k>>)
    BY <1>3, <2>1
  <2>3. /\ a[1] \in Area /\ a[2] \in Area /\ a[3] \in Area
        /\ a[1].y = area.y /\ a[2].y = a[1].y + a[1].h /\ a[3].y = a[2].y + a[2].h
        /\ a[3].y + a[3].h = area.y + area.h
        /\ k + k <= area.h => a[1].h = k /\ a[IF last THEN 2 ELSE 3].h = k
    BY <2>2, ThreeParts
  <2> QED
    BY <1>3, <2>1, <2>3
<1>5. a[1] = [y |-> 0, h |-> 1] /\ a[2] = [y |-> 1, h |-> h - 2] /\ a[3] = [y |-> h - 1, h |-> 1]
  <2>1. \A x \in Area : x = [y |-> x.y, h |-> x.h] /\ x.y \in Nat /\ x.h \in Nat
    BY DEF Area
  <2>2. PICK p \in Nat, q \in Nat, r \in Nat : p = a[2].y /\ q = a[2].h /\ r = a[3].y
    BY <1>4, <2>1
  <2>3. p = 1 /\ r = p + q /\ r + 1 = h
    BY <1>4, <2>2
  <2>4. q = h - 2 /\ r = h - 1
    BY <2>3
  <2> QED
    BY <1>4, <2>1, <2>2, <2>3, <2>4
<1> QED
  BY <1>2, <1>4, <1>5

-----------------------------------------------------------------------------
(* Layout: the properties. *)

\* Every frame is one of the numbers it was drawn from.
ScreenIsDrawn ==
  /\ height \in Heights /\ tab \in Tabs /\ show_per_core \in BOOLEAN
  /\ gpu_count \in GpuCounts /\ cores \in CoreCounts /\ devices \in DeviceCounts
  /\ windows \in 0..4
  /\ screen \in Frames(height, tab, show_per_core, gpu_count, cores)

\* The first frame, and every later one: a step that changes a number draws.
LEMMA InitDrawn == LayoutInit => ScreenIsDrawn
<1> SUFFICES ASSUME LayoutInit PROVE ScreenIsDrawn
  OBVIOUS
<1>1. show_per_core \in BOOLEAN
  BY Zenon DEF LayoutInit
<1>2. tab \in Tabs /\ windows \in 0..4
  BY DEF LayoutInit, Tabs
<1> QED
  BY <1>1, <1>2 DEF LayoutInit, ScreenIsDrawn

\* Every step that changes a number draws the frame for it.
LEMMA NextDrawn == ScreenIsDrawn /\ [LayoutNext]_layoutVars => ScreenIsDrawn'
<1> SUFFICES ASSUME ScreenIsDrawn, [LayoutNext]_layoutVars PROVE ScreenIsDrawn'
  OBVIOUS
<1> USE DEF ScreenIsDrawn, Draw
<1>1. CASE Resize
  BY <1>1 DEF Resize
<1>2. CASE Collected
  BY <1>2 DEF Collected
<1>3. CASE WindowPasses
  BY <1>3 DEF WindowPasses
<1>4. CASE TogglePerCore
  <2>1. show_per_core' \in BOOLEAN
    BY <1>4, Zenon DEF TogglePerCore
  <2> QED
    BY <1>4, <2>1 DEF TogglePerCore
<1>5. CASE SwitchTab
  BY <1>5 DEF SwitchTab
<1>6. CASE UNCHANGED layoutVars
  BY <1>6 DEF layoutVars
<1> QED
  BY <1>1, <1>2, <1>3, <1>4, <1>5, <1>6 DEF LayoutNext

\* The frame shown, part by part.
LEMMA ScreenFacts ==
  ASSUME ScreenIsDrawn
  PROVE  /\ height \in Nat \ {0, 1} /\ gpu_count \in Nat /\ cores \in Nat /\ devices \in Nat
         /\ windows \in Nat
         /\ show_per_core \in BOOLEAN
         /\ screen.header = [y |-> 0, h |-> 1] /\ screen.footer = [y |-> height - 1, h |-> 1]
         /\ screen.body = [y |-> 1, h |-> height - 2] /\ screen.body \in Area
         /\ \E o \in BodySections(screen.body, tab, show_per_core, gpu_count, cores) :
              /\ screen.cpu_mem = o.cpu_mem /\ screen.gpu = o.gpu
              /\ screen.io = o.io /\ screen.process = o.process
<1>1. /\ height \in Nat \ {0, 1} /\ gpu_count \in Nat /\ cores \in Nat /\ devices \in Nat
      /\ show_per_core \in BOOLEAN /\ windows \in Nat
      /\ screen \in Frames(height, tab, show_per_core, gpu_count, cores)
  BY CountAssumption, HeightAssumption DEF ScreenIsDrawn
<1> QED
  BY <1>1, FrameFacts

\* The heights of the frame shown, when it is an overview.
LEMMA ScreenOverview ==
  ASSUME ScreenIsDrawn, tab = "Overview",
         NEW w, w = cpu_mem_want(show_per_core, cores),
         NEW b, b = screen.body.h - (gpu_want(gpu_count) + 4)
  PROVE  /\ Stacked(screen.body, screen)
         /\ b >= 13 =>
              /\ b \in Nat /\ screen.cpu_mem.h = cpu_mem_h(b, w)
              /\ screen.gpu.h = gpu_want(gpu_count)
              /\ screen.io.h = Least(b - cpu_mem_h(b, w), 12)
              /\ screen.process.h = 4 + (b - cpu_mem_h(b, w)) - Least(b - cpu_mem_h(b, w), 12)
<1>1. PICK o \in Overview(screen.body, show_per_core, gpu_count, cores) :
        /\ screen.cpu_mem = o.cpu_mem /\ screen.gpu = o.gpu
        /\ screen.io = o.io /\ screen.process = o.process
  BY ScreenFacts DEF BodySections
<1>2. PICK area \in Area, per_core \in BOOLEAN, g \in Nat, c \in Nat :
        area = screen.body /\ per_core = show_per_core /\ g = gpu_count /\ c = cores
  BY ScreenFacts
<1>3. o \in Overview(area, per_core, g, c) /\ w = cpu_mem_want(per_core, c)
      /\ b = area.h - (gpu_want(g) + 4)
  BY <1>1, <1>2
<1>4. /\ Stacked(area, o)
      /\ b >= 13 => /\ b \in Nat /\ o.cpu_mem.h = cpu_mem_h(b, w) /\ o.gpu.h = gpu_want(g)
                    /\ o.io.h = Least(b - cpu_mem_h(b, w), 12)
                    /\ o.process.h = 4 + (b - cpu_mem_h(b, w)) - Least(b - cpu_mem_h(b, w), 12)
  BY <1>3, OverviewFacts
<1>5. Stacked(screen.body, screen)
  BY <1>1, <1>2, <1>4 DEF Stacked
<1> QED
  BY <1>1, <1>2, <1>4, <1>5

\* The budget when a list of needs fits.
LEMMA NeedsFit ==
  ASSUME ScreenIsDrawn, NEW w, w = cpu_mem_want(show_per_core, cores),
         NEW b, b = screen.body.h - (gpu_want(gpu_count) + 4)
  PROVE  /\ b \in Int /\ w \in Nat /\ w >= 10
         /\ FitsIn(screen.body.h, Smallest) <=> b >= 13
         /\ FitsIn(screen.body.h, Wanted) <=> b >= w + 12
         /\ Smallest.cpu_mem = 7 /\ Smallest.gpu = gpu_want(gpu_count)
         /\ Smallest.io = 6 /\ Smallest.process = 4
         /\ Wanted.cpu_mem = w /\ Wanted.gpu = gpu_want(gpu_count)
         /\ Wanted.io = 12 /\ Wanted.process = 4
<1>1. /\ screen.body.h \in Nat /\ gpu_want(gpu_count) \in Nat /\ w \in Nat /\ w >= 10
  BY ScreenFacts, WantFacts DEF Area
<1>2. /\ Wanted.cpu_mem = w /\ Wanted.gpu = gpu_want(gpu_count)
      /\ Wanted.io = 12 /\ Wanted.process = 4
  BY DEF Wanted, io_want, process_min
<1>3. /\ Smallest.cpu_mem = 7 /\ Smallest.gpu = gpu_want(gpu_count)
      /\ Smallest.io = 6 /\ Smallest.process = 4
  BY DEF Smallest, cpu_mem_min, io_min, process_min
<1>4. PICK gw \in Nat, h \in Nat : gw = gpu_want(gpu_count) /\ h = screen.body.h
  BY <1>1
<1>5. /\ FitsIn(h, Smallest) <=> 7 + gw + 6 + 4 <= h
      /\ FitsIn(h, Wanted) <=> w + gw + 12 + 4 <= h
  BY <1>2, <1>3, <1>4 DEF FitsIn
<1>6. b = h - (gw + 4)
  BY <1>4
<1>7. /\ FitsIn(h, Smallest) <=> b >= 13
      /\ FitsIn(h, Wanted) <=> b >= w + 12
      /\ b \in Int
  BY <1>1, <1>5, <1>6
<1> QED
  BY <1>1, <1>2, <1>3, <1>4, <1>7

\* Every section of an overview gets its minimum, however the rest is shared.
LEMMA MinimumIsKept == ScreenIsDrawn => SectionsKeepMinimum
<1> SUFFICES ASSUME ScreenIsDrawn, tab = "Overview", FitsIn(screen.body.h, Smallest)
             PROVE  /\ \A part \in Sections : screen[part].h >= Smallest[part]
                    /\ ProcessRows(screen.process) >= 1
  BY DEF SectionsKeepMinimum
<1>1. PICK w, b : /\ w = cpu_mem_want(show_per_core, cores)
                  /\ b = screen.body.h - (gpu_want(gpu_count) + 4)
  OBVIOUS
<1>2. b >= 13 /\ w \in Nat /\ w >= 10
  BY <1>1, NeedsFit
<1>3. PICK k \in Nat : k = cpu_mem_h(b, w) /\ k >= 7 /\ k + 6 <= b /\ b \in Nat
  BY <1>1, <1>2, ScreenOverview, CpuMemHeight
<1>4. /\ screen.cpu_mem.h = k /\ screen.gpu.h = gpu_want(gpu_count)
      /\ screen.io.h = Least(b - k, 12) /\ screen.process.h = 4 + (b - k) - Least(b - k, 12)
  BY <1>1, <1>2, <1>3, ScreenOverview
<1>5. gpu_want(gpu_count) \in Nat
  BY ScreenFacts, WantFacts
<1>6. screen.io.h \in Nat /\ screen.io.h >= 6 /\ screen.process.h \in Nat /\ screen.process.h >= 4
  BY <1>3, <1>4 DEF Least
<1>7. /\ Smallest.cpu_mem = 7 /\ Smallest.gpu = gpu_want(gpu_count)
      /\ Smallest.io = 6 /\ Smallest.process = 4
  BY <1>1, NeedsFit
<1>8. \A part \in Sections : screen[part].h >= Smallest[part]
  BY <1>3, <1>4, <1>5, <1>6, <1>7 DEF Sections
<1>9. ProcessRows(screen.process) >= 1
  BY <1>6 DEF ProcessRows, Inner, Minus
<1> QED
  BY <1>8, <1>9

\* Cores are shown in rows of as many as there are columns, each in a place of its own.
LEMMA EveryCoreHasAPlace ==
  ASSUME NEW area \in Area, NEW c \in Nat, area.h = core_rows(c)
  PROVE  Cardinality(CoreCells(area, c)) = c
<1>1. PICK m \in {2, 4, 8} : m = per_core_columns(c)
  BY WantFacts
<1>2. c <= core_rows(c) * m /\ core_rows(c) \in Nat /\ area.y \in Nat
  BY <1>1, WantFacts DEF Area
<1>3. PICK K : K = 0..(c - 1)
  OBVIOUS
<1>4. ASSUME NEW k \in K
      PROVE  \E q, r \in Nat : q = k \div m /\ r = k % m /\ k = m * q + r /\ q < area.h
  <2>1. k \in Nat /\ k < c
    BY <1>3
  <2>2. PICK q \in Nat, r \in Nat : q = k \div m /\ r = k % m /\ k = m * q + r
    <3>1. CASE m = 2
      BY <2>1, <3>1
    <3>2. CASE m = 4
      BY <2>1, <3>2
    <3>3. CASE m = 8
      BY <2>1, <3>3
    <3> QED
      BY <3>1, <3>2, <3>3
  <2>3. ~(q >= area.h)
    <3> SUFFICES ASSUME q >= area.h PROVE FALSE
      OBVIOUS
    <3>1. PICK p \in Nat, z \in Nat : z = area.h /\ q = z + p
      <4>1. PICK z \in Nat : z = area.h
        BY <1>2
      <4>2. q - z \in Nat /\ q = z + (q - z)
        BY <4>1
      <4> QED
        BY <4>1, <4>2
    <3>2. m * q = z * m + m * p /\ m * p \in Nat /\ z * m \in Nat
      BY <3>1
    <3>3. c <= z * m
      BY <1>2, <3>1
    <3> QED
      BY <2>1, <2>2, <3>2, <3>3
  <2> QED
    <3>1. q < area.h
      <4>1. area.h \in Nat /\ q \in Nat
        BY <1>2
      <4> QED
        BY <2>3, <4>1
    <3> QED
      BY <2>1, <2>2, <3>1
<1>5. PICK cell : cell = [k \in K |-> [row |-> area.y + k \div m, col |-> k % m]]
  OBVIOUS
<1>6. CoreCells(area, c) = {cell[k] : k \in K}
  <2>1. {k \in K : k \div m < area.h} = K
    <3>1. \A k \in K : k \div m < area.h
      BY <1>4
    <3> QED
      BY <3>1
  <2>2. CoreCells(area, c) = {[row |-> area.y + k \div m, col |-> k % m] :
                                k \in {j \in K : j \div m < area.h}}
    BY <1>1, <1>3 DEF CoreCells
  <2> QED
    BY <1>5, <2>1, <2>2
<1>7. \A j, k \in K : cell[j] = cell[k] => j = k
  <2> SUFFICES ASSUME NEW j \in K, NEW k \in K, cell[j] = cell[k] PROVE j = k
    OBVIOUS
  <2>1. area.y + j \div m = area.y + k \div m /\ j % m = k % m
    BY <1>5
  <2>2. PICK q \in Nat, r \in Nat : q = j \div m /\ r = j % m /\ j = m * q + r
    BY <1>4
  <2>3. PICK p \in Nat, z \in Nat : p = k \div m /\ z = k % m /\ k = m * p + z
    BY <1>4
  <2>4. area.y + q = area.y + p /\ r = z
    BY <2>1, <2>2, <2>3
  <2>5. q = p
    BY <1>2, <2>4
  <2> QED
    BY <2>2, <2>3, <2>4, <2>5
<1>8. IsFiniteSet(K) /\ Cardinality(K) = c
  <2>1. /\ IsFiniteSet(0..(c - 1))
        /\ Cardinality(0..(c - 1)) = IF 0 > c - 1 THEN 0 ELSE (c - 1) - 0 + 1
    <3>1. 0 \in Int /\ c - 1 \in Int
      OBVIOUS
    <3> QED
      BY <3>1, FS_Interval, Zenon
  <2> QED
    BY <1>3, <2>1
<1> QED
  BY <1>6, <1>7, <1>8, ImageCardinality

\* What is left of an area inside its border.
LEMMA InnerFacts ==
  ASSUME NEW area \in Area
  PROVE  /\ Inner(area) \in Area
         /\ Inner(area).h = (IF area.h < 2 THEN 0 ELSE area.h - 2)
         /\ Inner(area).h > 0 => Inner(area).y = area.y + 1
<1>1. area.y \in Nat /\ area.h \in Nat
  BY DEF Area
<1>2. Inner(area) = [y |-> area.y + Least(1, area.h), h |-> Minus(area.h, 2)]
  BY DEF Inner
<1>3. /\ Least(1, area.h) \in Nat /\ Minus(area.h, 2) \in Nat
      /\ Minus(area.h, 2) = (IF area.h < 2 THEN 0 ELSE area.h - 2)
      /\ Minus(area.h, 2) > 0 => Least(1, area.h) = 1
  BY <1>1 DEF Least, Minus
<1> QED
  BY <1>1, <1>2, <1>3 DEF Area

\* A card of three rows per GPU: with the room they want all have theirs.
LEMMA CardsAreWhole ==
  ASSUME NEW area \in Area, NEW g \in Nat \ {0}, area.h >= 3 * g + 2, NEW a \in Cards(area, g)
  PROVE  \A i \in 1..g : a[i].h = 3
<1>1. PICK parts : parts = [i \in 1..g |-> 3]
  OBVIOUS
<1>2. PartsType(parts, g) /\ \A i \in 1..g : parts[i] = 3 /\ parts[i] # Fill
  BY <1>1 DEF PartsType, Fill
<1>3. Total(Lengths(parts), g) = g * 3
  <2>1. PICK s : s = Lengths(parts)
    OBVIOUS
  <2>2. s \in [1..g -> Nat] /\ \A i \in 1..g : s[i] = 3
    BY <1>1, <1>2, <2>1 DEF Lengths
  <2>3. g \in Nat /\ 3 \in Nat
    OBVIOUS
  <2> QED
    BY <2>1, <2>2, <2>3, TotalOfEqual
<1>4. Inner(area) \in Area /\ Inner(area).h = area.h - 2 /\ area.h \in Nat
  <2>1. area.h \in Nat /\ area.h >= 2
    BY DEF Area
  <2> QED
    BY <2>1, InnerFacts
<1>5. Total(Lengths(parts), g) <= Inner(area).h
  BY <1>3, <1>4
<1>6. PICK inner \in Area : inner = Inner(area)
  BY <1>4
<1>7. a \in Vertical(inner, parts)
  BY <1>1, <1>6 DEF Cards
<1> QED
  BY <1>2, <1>5, <1>6, <1>7, VerticalFacts

\* What CPU and memory want is what the cores need.
LEMMA CoresAreShown ==
  ASSUME NEW area \in Area, NEW c \in Nat, area.h >= 4 + core_rows(c),
         NEW a \in PerCoreAreas(Inner(area), c)
  PROVE  Cardinality(CoreCells(a[2], c)) = c
<1>1. PICK d \in Nat, one \in Nat, last \in BOOLEAN : d = core_rows(c) /\ one = 1 /\ last = TRUE
  BY WantFacts
<1>2. PICK inner \in Area : inner = Inner(area) /\ one + d <= inner.h
  <2>1. area.h \in Nat /\ area.h >= 4 + d
    BY <1>1 DEF Area
  <2> QED
    BY <1>1, <2>1, InnerFacts
<1>3. a \in Vertical(inner, IF last THEN <<one, d, Fill>> ELSE <<one, Fill, d>>)
  BY <1>1, <1>2 DEF PerCoreAreas
<1>4. /\ a[2] \in Area
      /\ one + d <= inner.h => a[1].h = one /\ a[IF last THEN 2 ELSE 3].h = d
  BY <1>3, ThreeParts
<1>5. a[2] \in Area /\ a[2].h = core_rows(c)
  BY <1>1, <1>2, <1>4
<1> QED
  BY <1>5, EveryCoreHasAPlace

\* With room for all that is wanted, all of it is shown.
LEMMA AllIsShown == ScreenIsDrawn => EnoughRoomShowsAll
<1> SUFFICES ASSUME ScreenIsDrawn, tab = "Overview", FitsIn(screen.body.h, Wanted)
             PROVE  /\ \A part \in Sections : screen[part].h >= Wanted[part]
                    /\ show_per_core =>
                         \A a \in PerCoreAreas(Inner(screen.cpu_mem), cores) :
                           Cardinality(CoreCells(a[2], cores)) = cores
                    /\ gpu_count \in 1..4 =>
                         \A a \in Cards(screen.gpu, gpu_count) : \A i \in 1..gpu_count : a[i].h = 3
  BY DEF EnoughRoomShowsAll
<1>1. PICK w, b : /\ w = cpu_mem_want(show_per_core, cores)
                  /\ b = screen.body.h - (gpu_want(gpu_count) + 4)
  OBVIOUS
<1>2. b >= w + 12 /\ w \in Nat /\ w >= 10 /\ b \in Int
  BY <1>1, NeedsFit
<1>3. b \in Nat /\ b >= 13 /\ cpu_mem_h(b, w) = w
  BY <1>2, CpuMemHeight
<1>4. /\ screen.cpu_mem.h = w /\ screen.gpu.h = gpu_want(gpu_count)
      /\ screen.io.h = Least(b - w, 12) /\ screen.process.h = 4 + (b - w) - Least(b - w, 12)
      /\ Stacked(screen.body, screen)
  BY <1>1, <1>3, ScreenOverview
<1>5. gpu_want(gpu_count) \in Nat /\ gpu_count \in Nat /\ cores \in Nat /\ show_per_core \in BOOLEAN
  BY ScreenFacts, WantFacts
<1>6. screen.io.h = 12 /\ screen.process.h \in Nat /\ screen.process.h >= 4
  BY <1>2, <1>3, <1>4 DEF Least
<1>7. /\ Wanted.cpu_mem = w /\ Wanted.gpu = gpu_want(gpu_count)
      /\ Wanted.io = 12 /\ Wanted.process = 4
  BY <1>1, NeedsFit
<1>8. \A part \in Sections : screen[part].h >= Wanted[part]
  BY <1>2, <1>4, <1>5, <1>6, <1>7 DEF Sections
<1>9. screen.cpu_mem \in Area /\ screen.gpu \in Area
  BY <1>4 DEF Stacked
<1>10. ASSUME show_per_core, NEW a \in PerCoreAreas(Inner(screen.cpu_mem), cores)
       PROVE  Cardinality(CoreCells(a[2], cores)) = cores
  <2>1. screen.cpu_mem.h >= 4 + core_rows(cores)
    BY <1>1, <1>4, <1>5, <1>10, WantFacts
  <2> QED
    BY <1>5, <1>9, <1>10, <2>1, CoresAreShown
<1>11. ASSUME gpu_count \in 1..4, NEW a \in Cards(screen.gpu, gpu_count)
       PROVE  \A i \in 1..gpu_count : a[i].h = 3
  <2>1. PICK g \in Nat \ {0} : g = gpu_count /\ g \in 1..4
    BY <1>11
  <2>2. gpu_want(g) = 3 * g + 2
    BY <2>1 DEF gpu_want, Least
  <2>3. PICK area \in Area : area = screen.gpu /\ area.h >= 3 * g + 2
    BY <1>4, <1>9, <2>1, <2>2
  <2> QED
    BY <1>11, <2>1, <2>3, CardsAreWhole
<1> QED
  BY <1>8, <1>10, <1>11

\* In a terminal of any height and with any number of cores, GPUs and devices, every
\* section of the overview gets what it must have, and all it wants where there is
\* room (render and compute_cpu_mem_want).
THEOREM HeightIsSharedOut == LayoutSpec => []HeightIsShared
<1>1. ScreenIsDrawn => HeightIsShared
  BY MinimumIsKept, AllIsShown DEF HeightIsShared
<1> QED
  BY InitDrawn, NextDrawn, <1>1, PTL DEF LayoutSpec

\* The heights of an overview in which the minima fit.
OverviewHeights ==
  tab = "Overview" =>
    \A w, b : /\ w = cpu_mem_want(show_per_core, cores)
              /\ b = screen.body.h - (gpu_want(gpu_count) + 4) /\ b >= 13
      => /\ screen.cpu_mem.h = cpu_mem_h(b, w) /\ screen.gpu.h = gpu_want(gpu_count)
         /\ screen.io.h = Least(b - cpu_mem_h(b, w), 12)
         /\ screen.process.h = 4 + (b - cpu_mem_h(b, w)) - Least(b - cpu_mem_h(b, w), 12)

\* A state formula, so that it can be stated of the frame before and after a step.
LEMMA HeightsAreThose == ScreenIsDrawn => OverviewHeights /\ screen.body.h = height - 2
<1> SUFFICES ASSUME ScreenIsDrawn PROVE OverviewHeights /\ screen.body.h = height - 2
  OBVIOUS
<1>1. screen.body.h = height - 2
  BY ScreenFacts
<1>2. OverviewHeights
  BY ScreenOverview DEF OverviewHeights
<1> QED
  BY <1>1, <1>2

\* A row more goes to one section and is taken from none.
LEMMA RowIsAdded ==
  ASSUME ScreenIsDrawn, OverviewHeights', screen'.body.h = height' - 2,
         [LayoutNext]_layoutVars,
         tab = "Overview", FitsIn(screen.body.h, Smallest), height' > height
  PROVE  \A part \in Sections : screen'[part].h >= screen[part].h
<1>1. /\ height' = height + 1
      /\ UNCHANGED <<tab, show_per_core, gpu_count, cores>>
  <2>1. height \in Nat
    BY ScreenFacts
  <2>2. ~(height > height)
    BY <2>1
  <2>3. CASE Resize
    <3>1. height' \in {height - 1, height + 1}
      BY <2>3 DEF Resize
    <3> QED
      BY <2>1, <2>3, <3>1 DEF Resize
  <2>4. CASE Collected \/ WindowPasses \/ TogglePerCore \/ SwitchTab \/ UNCHANGED layoutVars
    <3>1. height' = height
      BY <2>4 DEF Collected, WindowPasses, TogglePerCore, SwitchTab, layoutVars
    <3> QED
      BY <2>2, <3>1
  <2> QED
    BY <2>3, <2>4 DEF LayoutNext
<1>2. PICK w, b : /\ w = cpu_mem_want(show_per_core, cores)
                  /\ b = screen.body.h - (gpu_want(gpu_count) + 4)
  OBVIOUS
<1>3. b >= 13 /\ w \in Nat /\ w >= 10 /\ b \in Int
  BY <1>2, NeedsFit
<1>4. /\ b \in Nat /\ screen.cpu_mem.h = cpu_mem_h(b, w)
      /\ screen.gpu.h = gpu_want(gpu_count)
      /\ screen.io.h = Least(b - cpu_mem_h(b, w), 12)
      /\ screen.process.h = 4 + (b - cpu_mem_h(b, w)) - Least(b - cpu_mem_h(b, w), 12)
  BY <1>2, <1>3, ScreenOverview
<1>5. PICK c \in Nat : c = b + 1 /\ c = screen'.body.h - (gpu_want(gpu_count) + 4) /\ c >= 13
  <2>1. screen.body.h = height - 2 /\ height \in Nat
    BY ScreenFacts
  <2>2. gpu_want(gpu_count) \in Nat
    BY ScreenFacts, WantFacts
  <2> QED
    BY <1>1, <1>2, <1>3, <1>4, <2>1, <2>2
<1>6. /\ screen'.cpu_mem.h = cpu_mem_h(c, w)
      /\ screen'.gpu.h = gpu_want(gpu_count)
      /\ screen'.io.h = Least(c - cpu_mem_h(c, w), 12)
      /\ screen'.process.h = 4 + (c - cpu_mem_h(c, w)) - Least(c - cpu_mem_h(c, w), 12)
  BY <1>1, <1>2, <1>5 DEF OverviewHeights
<1>7. PICK k \in Nat, l \in Nat :
        k = cpu_mem_h(b, w) /\ l = cpu_mem_h(c, w) /\ k <= l /\ l <= k + 1 /\ k + 6 <= b
  BY <1>3, <1>4, <1>5, CpuMemHeight, CpuMemGrows
<1>8. /\ Least(b - k, 12) <= Least(c - l, 12)
      /\ 4 + (b - k) - Least(b - k, 12) <= 4 + (c - l) - Least(c - l, 12)
  BY <1>4, <1>5, <1>7 DEF Least
<1>9. gpu_want(gpu_count) \in Nat
  BY ScreenFacts, WantFacts
<1>10. /\ screen'.cpu_mem.h >= screen.cpu_mem.h /\ screen'.gpu.h >= screen.gpu.h
       /\ screen'.io.h >= screen.io.h /\ screen'.process.h >= screen.process.h
  <2>1. screen'.cpu_mem.h >= screen.cpu_mem.h /\ screen'.gpu.h >= screen.gpu.h
    BY <1>4, <1>6, <1>7, <1>9
  <2>2. PICK p \in Int, q \in Int, r \in Int, s \in Int :
          /\ p = Least(b - k, 12) /\ q = Least(c - l, 12)
          /\ r = 4 + (b - k) - Least(b - k, 12) /\ s = 4 + (c - l) - Least(c - l, 12)
    BY <1>4, <1>5, <1>7 DEF Least
  <2>3. /\ screen.io.h = p /\ screen'.io.h = q /\ screen.process.h = r /\ screen'.process.h = s
    BY <1>4, <1>6, <1>7, <2>2
  <2> QED
    BY <1>8, <2>1, <2>2, <2>3
<1> QED
  BY <1>10 DEF Sections

\* A terminal that grows takes no row from any section of the overview, whatever its
\* height: the proportional shares of the budget never shrink when they are rounded.
THEOREM TallerTakesNothing == LayoutSpec => TallerShowsMore
<1>1. ScreenIsDrawn /\ ScreenIsDrawn' /\ [LayoutNext]_layoutVars =>
        [/\ tab = "Overview" /\ FitsIn(screen.body.h, Smallest) /\ height' > height
         => \A part \in Sections : screen'[part].h >= screen[part].h]_layoutVars
  <2>1. ScreenIsDrawn' => OverviewHeights' /\ (screen.body.h = height - 2)'
    BY HeightsAreThose, PTL
  <2> QED
    BY <2>1, RowIsAdded
<1> QED
  BY InitDrawn, NextDrawn, <1>1, PTL DEF LayoutSpec, TallerShowsMore

\* Rows of an area, and of one that lies inside it.
LEMMA RowsInside ==
  ASSUME NEW area \in Area, NEW x \in Area, area.y <= x.y, x.y + x.h <= area.y + area.h
  PROVE  Rows(x) \subseteq Rows(area)
<1>1. PICK ay \in Nat, ah \in Nat, xy \in Nat, xh \in Nat :
        ay = area.y /\ ah = area.h /\ xy = x.y /\ xh = x.h
  BY DEF Area
<1>2. Rows(x) = xy..(xy + xh - 1) /\ Rows(area) = ay..(ay + ah - 1)
  BY <1>1 DEF Rows
<1>3. ay <= xy /\ xy + xh <= ay + ah
  BY <1>1
<1> QED
  BY <1>2, <1>3

\* What begins inside the border of a panel begins on a row of the panel, though it may
\* have no row itself: then on the border below.
LEMMA GaugeInside ==
  ASSUME NEW area \in Area, Inner(area).h > 0, NEW x \in Area,
         Inner(area).y <= x.y, x.y + x.h <= Inner(area).y + Inner(area).h
  PROVE  /\ x.y \in Rows(area) /\ GaugeRows(x) \subseteq Rows(area)
         /\ \A q \in Nat : q < x.h => x.y + q \in Rows(area)
<1>1. PICK ay \in Nat, ah \in Nat, xy \in Nat, xh \in Nat :
        ay = area.y /\ ah = area.h /\ xy = x.y /\ xh = x.h
  BY DEF Area
<1>2. /\ ah >= 3 /\ Inner(area).y = ay + 1 /\ Inner(area).h = ah - 2
  <2>1. Inner(area).h = (IF ah < 2 THEN 0 ELSE ah - 2) /\ Inner(area).y = ay + 1
    BY <1>1, InnerFacts
  <2>2. ~(ah < 2)
    BY <2>1
  <2> QED
    BY <2>1, <2>2
<1>3. xy >= ay + 1 /\ xy + xh <= ay + ah - 1
  BY <1>1, <1>2
<1>4. Rows(area) = ay..(ay + ah - 1)
  BY <1>1 DEF Rows
<1>5. x.y \in Rows(area)
  BY <1>1, <1>3, <1>4
<1>6. \A q \in Nat : q < x.h => x.y + q \in Rows(area)
  <2>1. \A q \in Nat : q < xh => xy + q \in ay..(ay + ah - 1)
    BY <1>3
  <2> QED
    BY <1>1, <1>4, <2>1
<1>7. GaugeRows(x) \subseteq Rows(area)
  BY <1>1, <1>5, <1>6 DEF GaugeRows
<1> QED
  BY <1>5, <1>6, <1>7

\* The parts of a panel's inside.
LEMMA PartsInside ==
  ASSUME NEW area \in Area, Inner(area).h > 0,
         NEW n, NEW parts, PartsType(parts, n), NEW a \in Vertical(Inner(area), parts)
  PROVE  \A i \in 1..n : /\ a[i] \in Area
                         /\ Inner(area).y <= a[i].y
                         /\ a[i].y + a[i].h <= Inner(area).y + Inner(area).h
                         /\ a[i].y \in Rows(area) /\ GaugeRows(a[i]) \subseteq Rows(area)
                         /\ \A q \in Nat : q < a[i].h => a[i].y + q \in Rows(area)
<1>1. PICK inner \in Area : inner = Inner(area)
  BY InnerFacts
<1>2. \A i \in 1..n : a[i] \in Area /\ a[i].y >= inner.y /\ a[i].y + a[i].h <= inner.y + inner.h
  BY <1>1, VerticalFacts
<1>3. ASSUME NEW i \in 1..n
      PROVE  /\ a[i] \in Area
             /\ Inner(area).y <= a[i].y
             /\ a[i].y + a[i].h <= Inner(area).y + Inner(area).h
             /\ a[i].y \in Rows(area) /\ GaugeRows(a[i]) \subseteq Rows(area)
             /\ \A q \in Nat : q < a[i].h => a[i].y + q \in Rows(area)
  <2>1. PICK x \in Area : x = a[i]
    BY <1>2
  <2>2. Inner(area).y <= x.y /\ x.y + x.h <= Inner(area).y + Inner(area).h
    <3>1. x.y \in Nat /\ inner.y \in Nat
      BY DEF Area
    <3> QED
      BY <1>1, <1>2, <2>1, <3>1
  <2> QED
    BY <2>1, <2>2, GaugeInside
<1> QED
  BY <1>3

\* The gauges of the cores, or of the CPU as a whole.
LEMMA CpuInside ==
  ASSUME ScreenIsDrawn, NEW area \in Area
  PROVE  CpuRows(area) \subseteq Rows(area)
<1> SUFFICES ASSUME cores # 0, Inner(area).h # 0 PROVE CpuRows(area) \subseteq Rows(area)
  BY DEF CpuRows
<1>1. Inner(area).h > 0
  BY InnerFacts DEF Area
<1>2. cores \in Nat /\ core_rows(cores) \in Nat /\ per_core_columns(cores) \in {2, 4, 8}
  BY ScreenFacts, WantFacts
<1>3. CASE show_per_core
  <2>1. PICK parts : parts = <<1, core_rows(cores), Fill>>
    OBVIOUS
  <2>2. PartsType(parts, 3) /\ 2 \in 1..3
    BY <1>2, <2>1 DEF PartsType, Fill
  <2>3. CpuRows(area) =
          {cell.row : cell \in UNION {CoreCells(a[2], cores) : a \in Vertical(Inner(area), parts)}}
    BY <1>3, <2>1 DEF CpuRows, PerCoreAreas
  <2>4. ASSUME NEW a \in Vertical(Inner(area), parts), NEW cell \in CoreCells(a[2], cores)
        PROVE  cell.row \in Rows(area)
    <3>1. \A q \in Nat : q < a[2].h => a[2].y + q \in Rows(area)
      BY <1>1, <2>2, PartsInside
    <3>2. PICK i \in 0..(cores - 1) :
            i \div per_core_columns(cores) < a[2].h /\ cell.row = a[2].y + i \div per_core_columns(cores)
      BY DEF CoreCells
    <3>3. PICK m \in Nat \ {0} : m = per_core_columns(cores)
      BY <1>2
    <3>4. i \in Nat
      BY <1>2
    <3>5. i \div m \in Nat
      BY <3>3, <3>4, Quotient
    <3> QED
      BY <3>1, <3>2, <3>3, <3>5
  <2> QED
    BY <2>3, <2>4
<1>4. CASE ~show_per_core
  <2>1. PICK parts : parts = <<1, 2, 1, Fill>>
    OBVIOUS
  <2>2. PartsType(parts, 4) /\ 2 \in 1..4
    BY <2>1 DEF PartsType, Fill
  <2>3. CpuRows(area) = UNION {GaugeRows(a[2]) : a \in Vertical(Inner(area), parts)}
    BY <1>4, <2>1 DEF CpuRows
  <2>4. \A a \in Vertical(Inner(area), parts) : GaugeRows(a[2]) \subseteq Rows(area)
    BY <1>1, <2>2, PartsInside
  <2> QED
    BY <2>3, <2>4
<1> QED
  BY <1>3, <1>4

\* The gauges of memory and swap.
LEMMA MemoryInside ==
  ASSUME NEW area \in Area
  PROVE  MemoryRows(area) \subseteq Rows(area)
<1> SUFFICES ASSUME Inner(area).h # 0 PROVE MemoryRows(area) \subseteq Rows(area)
  BY DEF MemoryRows
<1>1. Inner(area).h > 0
  BY InnerFacts DEF Area
<1>2. PICK parts : parts = <<1, 1, 1, 1, 1, 1, Fill>>
  OBVIOUS
<1>3. PartsType(parts, 7) /\ 2 \in 1..7 /\ 4 \in 1..7
  <2>1. Len(parts) = 7 /\ DOMAIN parts = 1..7
    BY <1>2
  <2>2. \A i \in 1..7 : parts[i] = IF i = 7 THEN Fill ELSE 1
    <3>1. \A i \in 1..7 : i = 1 \/ i = 2 \/ i = 3 \/ i = 4 \/ i = 5 \/ i = 6 \/ i = 7
      OBVIOUS
    <3> QED
      BY <1>2, <3>1
  <2> QED
    BY <2>1, <2>2 DEF PartsType, Fill
<1>4. MemoryRows(area) = UNION {{a[2].y, a[4].y} : a \in Vertical(Inner(area), parts)}
  BY <1>2 DEF MemoryRows
<1>5. \A a \in Vertical(Inner(area), parts) : a[2].y \in Rows(area) /\ a[4].y \in Rows(area)
  BY <1>1, <1>3, PartsInside
<1> QED
  BY <1>4, <1>5

\* A card asks for three rows for each GPU.
LEMMA CardParts ==
  ASSUME NEW g \in Nat \ {0}
  PROVE  PartsType([i \in 1..g |-> 3], g)
<1>1. PICK parts : parts = [i \in 1..g |-> 3]
  OBVIOUS
<1> QED
  BY <1>1 DEF PartsType, Fill

\* The gauges of the cards.
LEMMA GpuInside ==
  ASSUME ScreenIsDrawn, NEW area \in Area
  PROVE  GpuRows(area) \subseteq Rows(area)
<1> SUFFICES ASSUME gpu_count # 0, Inner(area).h # 0 PROVE GpuRows(area) \subseteq Rows(area)
  BY DEF GpuRows
<1>1. Inner(area).h > 0
  BY InnerFacts DEF Area
<1>2. PICK g \in Nat \ {0} : g = gpu_count
  BY ScreenFacts
<1>3. GpuRows(area) = UNION {UNION {CardRows(a[i]) : i \in 1..g} : a \in Cards(area, g)}
  BY <1>2 DEF GpuRows
<1>4. ASSUME NEW a \in Cards(area, g), NEW i \in 1..g PROVE CardRows(a[i]) \subseteq Rows(area)
  <2> SUFFICES ASSUME a[i].h # 0 PROVE CardRows(a[i]) \subseteq Rows(area)
    BY DEF CardRows
  <2>1. PICK parts : parts = [k \in 1..g |-> 3]
    OBVIOUS
  <2>2. PartsType(parts, g) /\ a \in Vertical(Inner(area), parts)
    BY <2>1, CardParts DEF Cards
  <2>3. PICK card \in Area : /\ card = a[i] /\ Inner(area).y <= card.y
                             /\ card.y + card.h <= Inner(area).y + Inner(area).h
    BY <1>1, <2>2, PartsInside
  <2>4. PICK three : three = <<1, 1, 1>>
    OBVIOUS
  <2>5. PartsType(three, 3) /\ 2 \in 1..3 /\ 3 \in 1..3
    BY <2>4 DEF PartsType, Fill
  <2>6. CardRows(card) = UNION {{b[2].y, b[3].y} : b \in Vertical(card, three)}
    BY <2>3, <2>4 DEF CardRows
  <2>7. ASSUME NEW b \in Vertical(card, three), NEW j \in 2..3 PROVE b[j].y \in Rows(area)
    <3>1. PICK x \in Area : x = b[j] /\ x.y >= card.y /\ x.y + x.h <= card.y + card.h
      BY <2>5, VerticalFacts
    <3>2. PICK inner \in Area : inner = Inner(area)
      BY InnerFacts
    <3>3. /\ x.y \in Nat /\ x.h \in Nat /\ card.y \in Nat /\ card.h \in Nat
          /\ inner.y \in Nat /\ inner.h \in Nat
      BY DEF Area
    <3>4. Inner(area).y <= x.y /\ x.y + x.h <= Inner(area).y + Inner(area).h
      BY <2>3, <3>1, <3>2, <3>3
    <3> QED
      BY <1>1, <3>1, <3>4, GaugeInside
  <2> QED
    BY <2>3, <2>6, <2>7
<1> QED
  BY <1>3, <1>4

\* The sections lie inside the body, no two of them on one row.
LEMMA SectionsApart ==
  ASSUME ScreenIsDrawn
  PROVE  /\ \A part \in Sections : Rows(screen[part]) \subseteq Rows(screen.body)
         /\ \A p, q \in Sections : p # q => Rows(screen[p]) \cap Rows(screen[q]) = {}
<1>1. PICK body \in Area : body = screen.body
  BY ScreenFacts
<1>2. CASE tab = "Overview"
  <2>1. Stacked(body, screen)
    BY <1>1, <1>2, ScreenOverview
  <2>2. PICK c \in Area, g \in Area, i \in Area, p \in Area :
          c = screen.cpu_mem /\ g = screen.gpu /\ i = screen.io /\ p = screen.process
    BY <2>1 DEF Stacked
  <2>3. /\ c.y = body.y /\ g.y = c.y + c.h /\ i.y = g.y + g.h /\ p.y = i.y + i.h
        /\ p.y + p.h = body.y + body.h
    BY <2>1, <2>2 DEF Stacked
  <2>4. /\ c.y \in Nat /\ c.h \in Nat /\ g.y \in Nat /\ g.h \in Nat /\ i.y \in Nat /\ i.h \in Nat
        /\ p.y \in Nat /\ p.h \in Nat /\ body.y \in Nat /\ body.h \in Nat
    BY DEF Area
  <2>5. /\ body.y <= c.y /\ c.y + c.h <= body.y + body.h
        /\ body.y <= g.y /\ g.y + g.h <= body.y + body.h
        /\ body.y <= i.y /\ i.y + i.h <= body.y + body.h
        /\ body.y <= p.y /\ p.y + p.h <= body.y + body.h
    BY ONLY <2>3, <2>4
  <2>6. /\ Rows(c) \subseteq Rows(body) /\ Rows(g) \subseteq Rows(body)
        /\ Rows(i) \subseteq Rows(body) /\ Rows(p) \subseteq Rows(body)
    BY <2>5, RowsInside
  <2>7. /\ Rows(c) \cap Rows(g) = {} /\ Rows(c) \cap Rows(i) = {} /\ Rows(c) \cap Rows(p) = {}
        /\ Rows(g) \cap Rows(i) = {} /\ Rows(g) \cap Rows(p) = {} /\ Rows(i) \cap Rows(p) = {}
    BY ONLY <2>3, <2>4 DEF Rows
  <2>8. \A part \in Sections : Rows(screen[part]) \subseteq Rows(screen.body)
    BY <1>1, <2>2, <2>6 DEF Sections
  <2>9. \A x, y \in Sections : x # y => Rows(screen[x]) \cap Rows(screen[y]) = {}
    BY <2>2, <2>7 DEF Sections
  <2> QED
    BY <2>8, <2>9
<1>3. CASE tab \in {"GpuDetail", "Processes"}
  <2>1. PICK o \in BodySections(body, tab, show_per_core, gpu_count, cores) :
          /\ screen.cpu_mem = o.cpu_mem /\ screen.gpu = o.gpu
          /\ screen.io = o.io /\ screen.process = o.process
    BY <1>1, ScreenFacts
  <2>2. /\ o.cpu_mem = Nowhere /\ o.gpu = Nowhere /\ o.io = Nowhere /\ o.process \in Area
        /\ o.process = Nowhere \/ (/\ body.y <= o.process.y
                                   /\ o.process.y + o.process.h <= body.y + body.h)
    BY <1>3, OtherTabs
  <2>3. Rows(Nowhere) = {}
    BY DEF Rows, Nowhere
  <2>4. Rows(o.process) \subseteq Rows(body)
    BY <2>2, <2>3, RowsInside
  <2>5. \A part \in Sections : Rows(screen[part]) \subseteq Rows(screen.body)
    BY <1>1, <2>1, <2>2, <2>3, <2>4 DEF Sections
  <2>6. \A x, y \in Sections : x # y => Rows(screen[x]) \cap Rows(screen[y]) = {}
    BY <2>1, <2>2, <2>3 DEF Sections
  <2> QED
    BY <2>5, <2>6
<1> QED
  BY <1>2, <1>3 DEF ScreenIsDrawn, Tabs

\* The parts of the screen, its sections and the gauges in them together.
LEMMA NothingOutside == ScreenIsDrawn => DrawsInside
<1> SUFFICES ASSUME ScreenIsDrawn PROVE DrawsInside
  OBVIOUS
<1>1. screen.header = [y |-> 0, h |-> 1] /\ screen.footer = [y |-> height - 1, h |-> 1]
  BY ScreenFacts
<1>2. Rows(screen.body) = 1..(height - 2)
  <2>1. screen.body.y = 1 /\ screen.body.h = height - 2 /\ height \in Nat
    BY ScreenFacts
  <2>2. 1 + (height - 2) - 1 = height - 2
    BY <2>1
  <2> QED
    BY <2>1, <2>2 DEF Rows
<1>3. ASSUME tab = "Overview"
      PROVE  /\ CpuRows(screen.cpu_mem) \cup MemoryRows(screen.cpu_mem) \subseteq Rows(screen.cpu_mem)
             /\ GpuRows(screen.gpu) \subseteq Rows(screen.gpu)
  <2>1. screen.cpu_mem \in Area /\ screen.gpu \in Area
    BY <1>3, ScreenOverview DEF Stacked
  <2> QED
    BY <2>1, CpuInside, MemoryInside, GpuInside
<1> QED
  BY <1>1, <1>2, <1>3, SectionsApart DEF DrawsInside

\* However low the terminal, and whatever was collected, nothing is written outside the
\* panel it belongs to (render_cpu_panel, render_memory_panel, render_gpu_overview).
THEOREM NothingIsDrawnOutside == LayoutSpec => []DrawsInside
BY InitDrawn, NextDrawn, NothingOutside, PTL DEF LayoutSpec

\* What the columns of the charts ask for: a line for each label, the rest for the charts,
\* and the lines of the statistics.
ChartParts(n, stats_h) ==
  [i \in 1..(2 * n) |-> IF i % 2 = 1 THEN 1 ELSE Fill] \o <<stats_h>>

\* The parts one by one, and their sum.
ChartColumn(parts, n, m, stats_h) ==
  /\ DOMAIN parts = 1..(m + 1) /\ Len(parts) = m + 1
  /\ \A i \in 1..m : parts[i] = IF i % 2 = 1 THEN 1 ELSE Fill
  /\ parts[m + 1] = stats_h
ChartSums(parts, n, m, stats_h) ==
  /\ Lengths(parts) \in [1..(m + 1) -> Nat]
  /\ \A k \in 1..n : Lengths(parts)[2 * k] = 0
  /\ Lengths(parts)[m + 1] = stats_h
  /\ Total(Lengths(parts), m + 1) = n + stats_h
  /\ Cardinality({i \in DOMAIN parts : parts[i] = Fill}) = n

\* The parts are those of the column.
LEMMA ChartPartsFacts ==
  ASSUME NEW n \in Nat \ {0}, NEW stats_h \in Nat, NEW m \in Nat, m = 2 * n,
         NEW parts, parts = ChartParts(n, stats_h)
  PROVE  ChartColumn(parts, n, m, stats_h)
<1>1. PICK p : p = [i \in 1..m |-> IF i % 2 = 1 THEN 1 ELSE Fill]
  OBVIOUS
<1>2. p \in Seq(Int) /\ Len(p) = m /\ \A i \in 1..m : p[i] = IF i % 2 = 1 THEN 1 ELSE Fill
  BY <1>1 DEF Fill
<1>3. PICK t : t = <<stats_h>>
  OBVIOUS
<1>4. t \in Seq(Int) /\ Len(t) = 1 /\ t[1] = stats_h
  BY <1>3
<1>5. parts = p \o t
  BY <1>1, <1>3 DEF ChartParts
<1>6. /\ parts \in Seq(Int) /\ Len(parts) = Len(p) + Len(t)
      /\ \A i \in 1..(Len(p) + Len(t)) : parts[i] = IF i <= Len(p) THEN p[i] ELSE t[i - Len(p)]
  BY ONLY <1>2, <1>4, <1>5, ConcatProperties
<1>7. Len(parts) = m + 1 /\ DOMAIN parts = 1..(m + 1)
  BY <1>2, <1>4, <1>6, LenProperties
<1>8. \A i \in 1..m : parts[i] = p[i]
  BY <1>2, <1>4, <1>6
<1>9. parts[m + 1] = stats_h
  BY <1>2, <1>4, <1>6
<1> QED
  BY <1>2, <1>7, <1>8, <1>9 DEF ChartColumn

\* Their sum, and the number of charts: a row for every label, the rest for the charts.
LEMMA ChartLengths ==
  ASSUME NEW n \in Nat \ {0}, NEW stats_h \in Nat, NEW m \in Nat, m = 2 * n,
         NEW parts, ChartColumn(parts, n, m, stats_h)
  PROVE  ChartSums(parts, n, m, stats_h)
<1>1. /\ DOMAIN parts = 1..(m + 1)
      /\ \A i \in 1..m : parts[i] = IF i % 2 = 1 THEN 1 ELSE Fill
      /\ parts[m + 1] = stats_h
  BY DEF ChartColumn
<1>2. /\ \A k \in 1..n : 2 * k \in 1..m /\ (2 * k) % 2 = 0
      /\ \A k \in 0..(n - 1) : 2 * k + 1 \in 1..m /\ (2 * k + 1) % 2 = 1
  OBVIOUS
<1>3. PICK s : s = Lengths(parts)
  OBVIOUS
<1>4. /\ s \in [1..(m + 1) -> Nat]
      /\ \A i \in 1..m : s[i] = IF i % 2 = 1 THEN 1 ELSE 0
      /\ s[m + 1] = stats_h
  <2>1. s = [i \in 1..(m + 1) |-> IF parts[i] = Fill THEN 0 ELSE parts[i]]
    BY <1>1, <1>3 DEF Lengths
  <2>2. \A i \in 1..(m + 1) : i \in 1..m \/ i = m + 1
    OBVIOUS
  <2>3. \A i \in 1..m : s[i] = IF i % 2 = 1 THEN 1 ELSE 0
    BY <1>1, <2>1 DEF Fill
  <2>4. s[m + 1] = stats_h
    BY <1>1, <2>1 DEF Fill
  <2>5. \A i \in 1..(m + 1) : s[i] \in Nat
    BY <2>2, <2>3, <2>4
  <2> QED
    BY <2>1, <2>3, <2>4, <2>5
<1>5. /\ Total(s, 0) = 0
      /\ \A k \in 0..(m + 1) : Total(s, k) \in Nat
      /\ \A k \in 0..(m + 1) : k < m + 1 => Total(s, k + 1) = Total(s, k) + s[k + 1]
  <2>1. PICK l \in Nat : l = m + 1
    OBVIOUS
  <2> QED
    BY <1>4, <2>1, TotalFacts
<1>6. Total(s, m) = n
  <2> DEFINE B == {k \in Nat : k <= n => Total(s, 2 * k) = k}
  <2>1. 0 \in B
    BY <1>5
  <2>2. ASSUME NEW k \in Nat, k \in B PROVE k + 1 \in B
    <3> SUFFICES ASSUME k + 1 <= n PROVE Total(s, 2 * (k + 1)) = k + 1
      OBVIOUS
    <3>1. PICK j \in Nat : j = 2 * k
      OBVIOUS
    <3>2. /\ j \in 0..(m + 1) /\ j + 1 \in 0..(m + 1) /\ j < m + 1 /\ j + 1 < m + 1
          /\ 2 * (k + 1) = (j + 1) + 1 /\ k \in 0..(n - 1) /\ k + 1 \in 1..n
      BY <3>1
    <3>3. s[j + 1] = 1 /\ s[(j + 1) + 1] = 0
      <4>1. j + 1 \in 1..m /\ (j + 1) % 2 = 1
        BY <1>1, <1>2, <3>1, <3>2
      <4>2. (j + 1) + 1 \in 1..m /\ ((j + 1) + 1) % 2 = 0
        BY <1>1, <1>2, <3>2
      <4> QED
        BY <1>4, <4>1, <4>2
    <3>4. /\ Total(s, j + 1) = Total(s, j) + s[j + 1]
          /\ Total(s, (j + 1) + 1) = Total(s, j + 1) + s[(j + 1) + 1]
      BY <1>5, <3>2
    <3>5. Total(s, j) = k
      BY <2>2, <3>1, <3>2
    <3> QED
      BY <3>2, <3>3, <3>4, <3>5
  <2> HIDE DEF B
  <2>3. Nat \subseteq B
    BY <2>1, <2>2, NatSetInduction
  <2> QED
    BY <2>3 DEF B
<1>7. Total(s, m + 1) = n + stats_h
  BY <1>4, <1>5, <1>6
<1>8. Cardinality({i \in DOMAIN parts : parts[i] = Fill}) = n
  <2>1. PICK f : f = [k \in 1..n |-> 2 * k]
    OBVIOUS
  <2>2. {i \in DOMAIN parts : parts[i] = Fill} = {f[k] : k \in 1..n}
    <3>1. ASSUME NEW k \in 1..n PROVE f[k] \in DOMAIN parts /\ parts[f[k]] = Fill
      <4>1. f[k] = 2 * k /\ 2 * k \in 1..m /\ (2 * k) % 2 = 0
        BY <1>2, <2>1
      <4> QED
        BY <1>1, <4>1
    <3>2. ASSUME NEW i \in DOMAIN parts, parts[i] = Fill PROVE \E k \in 1..n : i = f[k]
      <4>1. i \in 1..(m + 1) /\ i # m + 1
        BY <1>1, <3>2 DEF Fill
      <4>2. i \in 1..m
        BY <4>1
      <4>3. i % 2 # 1
        BY <1>1, <3>2, <4>2 DEF Fill
      <4>4. PICK k \in Int : k = i \div 2 /\ i = 2 * k
        BY <4>2, <4>3
      <4>5. k \in 1..n
        BY <4>2, <4>4
      <4> QED
        BY <2>1, <4>4, <4>5
    <3> QED
      BY <3>1, <3>2
  <2>3. IsFiniteSet(1..n) /\ Cardinality(1..n) = n
    <3>1. 1 \in Int /\ n \in Int /\ ~(1 > n) /\ n - 1 + 1 = n
      OBVIOUS
    <3> QED
      BY <3>1, FS_Interval
  <2>4. \A j, k \in 1..n : f[j] = f[k] => j = k
    BY <2>1
  <2>5. PICK K : K = 1..n
    OBVIOUS
  <2> QED
    BY <2>2, <2>3, <2>4, <2>5, ImageCardinality
<1>9. \A k \in 1..n : s[2 * k] = 0
  BY <1>2, <1>4
<1> QED
  BY <1>3, <1>4, <1>7, <1>8, <1>9 DEF ChartSums

\* Three rows for each chart and its label: no chart has fewer than two, and the
\* statistics have theirs.
LEMMA ChartsHaveRoom ==
  ASSUME NEW area \in Area, NEW n \in Nat \ {0}, NEW stats_h \in Nat, NEW d \in Nat, d = 2 * n,
         3 * n + stats_h <= area.h,
         NEW parts, ChartColumn(parts, n, d, stats_h), NEW a \in Vertical(area, parts)
  PROVE  /\ \A i \in 1..n : a[2 * i].h >= 2
         /\ a[d + 1].h = stats_h
<1>1. /\ DOMAIN parts = 1..(d + 1) /\ Len(parts) = d + 1
      /\ \A i \in 1..d : parts[i] = IF i % 2 = 1 THEN 1 ELSE Fill
      /\ parts[d + 1] = stats_h
  BY DEF ChartColumn
<1>2. ChartSums(parts, n, d, stats_h)
  BY ChartLengths
<1>3. /\ Lengths(parts) \in [1..(d + 1) -> Nat]
      /\ \A k \in 1..n : Lengths(parts)[2 * k] = 0
      /\ Lengths(parts)[d + 1] = stats_h
      /\ Total(Lengths(parts), d + 1) = n + stats_h
      /\ Cardinality({i \in DOMAIN parts : parts[i] = Fill}) = n
  BY <1>2 DEF ChartSums
<1>4. PICK m \in Nat : m = d + 1
  OBVIOUS
<1>5. PICK h \in Nat : h = area.h
  BY DEF Area
<1>6. PICK l : l = Lengths(parts)
  OBVIOUS
<1>7. PICK fills : fills = {i \in DOMAIN parts : parts[i] = Fill}
  OBVIOUS
<1>8. /\ DOMAIN parts = 1..m /\ Len(parts) = m /\ parts[m] = stats_h
      /\ \A k \in 1..n : 2 * k \in 1..m /\ 2 * k \in fills
      /\ m \in 1..m /\ m \notin fills
  <2>1. ASSUME NEW k \in 1..n PROVE 2 * k \in 1..m /\ 2 * k \in fills
    <3>1. 2 * k \in 1..d /\ (2 * k) % 2 = 0
      OBVIOUS
    <3>2. 2 * k \in 1..m /\ parts[2 * k] = Fill
      BY <1>4, <1>1, <3>1
    <3> QED
      BY <1>1, <1>4, <1>7, <3>2
  <2>2. m \in 1..m /\ m \notin fills
    BY <1>4, <1>7, <1>1 DEF Fill
  <2> QED
    BY <1>1, <1>4, <2>1, <2>2
<1>9. /\ l \in [1..m -> Nat] /\ (\A k \in 1..n : l[2 * k] = 0) /\ l[m] = stats_h
      /\ Total(l, m) = n + stats_h /\ Cardinality(fills) = n
  BY <1>4, <1>6, <1>7, <1>3
<1>10. PICK rest \in Nat : rest = h - Total(l, m) /\ rest >= 2 * n
  <2>1. h - (n + stats_h) \in Nat /\ h - (n + stats_h) >= 2 * n
    BY <1>5
  <2> QED
    BY <1>9, <2>1
<1>11. PICK q \in Nat : q = rest \div n /\ q >= 2
  <2>1. PICK q \in Nat : q = rest \div n
    BY Quotient
  <2>2. ~(2 > q)
    <3>1. 2 > q => rest < n * 2
      BY <2>1, Quotient
    <3>2. ~(rest < n * 2)
      BY <1>10
    <3> QED
      BY <3>1, <3>2
  <2> QED
    BY <2>1, <2>2
<1>12. PICK s \in Split(h, parts) : a = Areas(area, s)
  BY <1>5 DEF Vertical
<1>13. PICK more \in SUBSET fills :
         s = [i \in 1..m |-> l[i] + (IF i \in fills THEN q ELSE 0) + (IF i \in more THEN 1 ELSE 0)]
  <2>1. 1 \in 1..n /\ fills # {}
    <3>1. 1 \in 1..n
      OBVIOUS
    <3> QED
      BY <1>8, <3>1
  <2>2. ~(h - Total(Lengths(parts), Len(parts)) < 0)
        /\ h - Total(Lengths(parts), Len(parts)) = rest
    BY <1>6, <1>8, <1>10
  <2> DEFINE spare == h - Total(Lengths(parts), Len(parts))
             longest == Max({Lengths(parts)[i] : i \in DOMAIN Lengths(parts)})
             Cut == {z \in [DOMAIN parts -> 0..longest] :
                       (\A i \in DOMAIN z : z[i] <= Lengths(parts)[i]) /\ Total(z, Len(parts)) = h}
             Shared(z) == [i \in DOMAIN parts |->
                 Lengths(parts)[i]
                   + (IF i \in {x \in DOMAIN parts : parts[x] = Fill}
                        THEN spare \div Cardinality({x \in DOMAIN parts : parts[x] = Fill}) ELSE 0)
                   + (IF i \in z THEN 1 ELSE 0)]
  <2>3. Split(h, parts) =
          IF spare < 0 THEN Cut
          ELSE IF {x \in DOMAIN parts : parts[x] = Fill} = {} THEN {Lengths(parts)}
          ELSE {Shared(z) : z \in {S \in SUBSET {x \in DOMAIN parts : parts[x] = Fill} :
                  Cardinality(S) = spare % Cardinality({x \in DOMAIN parts : parts[x] = Fill})}}
    BY DEF Split
  <2>4. spare = rest /\ ~(spare < 0)
    BY <2>2
  <2> HIDE DEF Cut, Shared, spare
  <2>5. PICK z \in SUBSET fills : s = Shared(z)
    BY <1>7, <1>12, <2>1, <2>3, <2>4
  <2>6. Shared(z) = [i \in 1..m |-> l[i] + (IF i \in fills THEN rest \div Cardinality(fills) ELSE 0)
                                        + (IF i \in z THEN 1 ELSE 0)]
    BY <1>6, <1>7, <1>8, <2>4 DEF Shared
  <2>7. rest \div Cardinality(fills) = q
    BY <1>9, <1>11
  <2> QED
    BY <2>5, <2>6, <2>7
<1>14. \A i \in 1..m : a[i].h = s[i]
  <2>1. DOMAIN s = 1..m
    BY <1>13
  <2> QED
    BY <1>12, <2>1 DEF Areas
<1>15. ASSUME NEW k \in 1..n PROVE a[2 * k].h >= 2
  <2>1. PICK j \in 1..m : j = 2 * k /\ j \in fills /\ l[j] = 0
    BY <1>8, <1>9
  <2>2. s[j] = 0 + q + (IF j \in more THEN 1 ELSE 0)
    BY <1>13, <2>1
  <2>3. s[j] >= 2
    BY <1>11, <2>2
  <2> QED
    BY <1>14, <2>1, <2>3
<1>16. a[m].h = stats_h
  <2>1. s[m] = stats_h + 0 + 0
    BY <1>8, <1>9, <1>13
  <2> QED
    BY <1>8, <1>14, <2>1
<1> QED
  BY <1>4, <1>15, <1>16

\* The charts of the GPU view.
LEMMA GpuChartsLegible ==
  ASSUME ScreenIsDrawn, NEW a \in GpuDetailAreas(screen.body)
  PROVE  /\ \A i \in DOMAIN a.charts : a.charts[i].h >= 2
         /\ a.stats.h = 2 * windows
<1>1. PICK area \in Area : area = Inner(screen.body)
  BY ScreenFacts, InnerFacts
<1>2. windows \in Nat /\ area.h \in Nat
  BY ScreenFacts DEF Area
<1>3. PICK st \in Nat : st = windows * 2 /\ st = 2 * windows
  BY <1>2
<1>4. PICK n \in Nat : n = num_charts(area.h, st) /\ (n # 0 => 3 * n + st <= area.h)
  <2>1. PICK r \in Nat, q \in Nat : r = Minus(area.h, st) /\ q = r \div 3 /\ 3 * q <= r
    <3>1. Minus(area.h, st) \in Nat
      BY <1>2 DEF Minus
    <3> QED
      BY <3>1
  <2>2. PICK n \in Nat : n = num_charts(area.h, st) /\ n <= q
    BY <2>1 DEF num_charts, Least
  <2>3. n # 0 => 3 * n + st <= area.h
    BY <1>2, <2>1, <2>2 DEF Minus
  <2> QED
    BY <2>2, <2>3
<1>5. a \in ChartAreas(area)
  BY <1>1 DEF GpuDetailAreas
<1>6. n # 0
  BY <1>3, <1>4, <1>5 DEF ChartAreas
<1>7. PICK d \in Nat : d = 2 * n
  OBVIOUS
<1>8. PICK parts : parts = ChartParts(n, st)
  OBVIOUS
<1>9. ChartColumn(parts, n, d, st)
  BY <1>6, <1>7, <1>8, ChartPartsFacts
<1>10. PICK b \in Vertical(area, parts) :
         a = [charts |-> [i \in 1..n |-> b[2 * i]], stats |-> b[2 * n + 1]]
  BY <1>3, <1>4, <1>5, <1>6, <1>8 DEF ChartAreas, ChartParts
<1>11. (\A i \in 1..n : b[2 * i].h >= 2) /\ b[d + 1].h = st
  BY <1>4, <1>6, <1>7, <1>9, ChartsHaveRoom
<1>12. /\ DOMAIN a.charts = 1..n /\ \A i \in 1..n : a.charts[i] = b[2 * i]
       /\ a.stats = b[d + 1]
  BY <1>7, <1>10
<1> QED
  BY <1>3, <1>11, <1>12

\* Two lengths are both kept where they fit.
LEMMA BothFit ==
  ASSUME NEW area \in Area, NEW c \in Nat, NEW d \in Nat, c + d <= area.h,
         NEW parts, parts = <<c, d>>, NEW a \in Vertical(area, parts)
  PROVE  a[1].h = c
<1>1. PartsType(parts, 2) /\ parts[1] = c /\ parts[2] = d /\ c # Fill /\ d # Fill
  BY DEF PartsType, Fill
<1>2. Total(Lengths(parts), 2) = c + d
  <2>1. PICK s : s = Lengths(parts)
    OBVIOUS
  <2>2. /\ Total(s, 2) = s[1] + s[2]
        /\ \A i \in 1..2 : s[i] = IF parts[i] = Fill THEN 0 ELSE parts[i]
    BY <1>1, <2>1, FewLengths
  <2> QED
    BY <1>1, <2>1, <2>2
<1>3. 1 \in 1..2
  OBVIOUS
<1> QED
  BY <1>1, <1>2, <1>3, VerticalFacts

\* A part more at the end of the list.
LEMMA OneMore ==
  ASSUME NEW x \in Int, NEW y \in Int, NEW z \in Int
  PROVE  <<x>> \o <<z>> = <<x, z>> /\ <<x, y>> \o <<z>> = <<x, y, z>>
<1>1. PICK s, t, u, v, w : s = <<x>> /\ t = <<z>> /\ u = <<x, z>> /\ v = <<x, y>> /\ w = <<x, y, z>>
  OBVIOUS
<1>2. /\ s \in Seq(Int) /\ t \in Seq(Int) /\ u \in Seq(Int) /\ v \in Seq(Int) /\ w \in Seq(Int)
      /\ Len(s) = 1 /\ Len(t) = 1 /\ Len(u) = 2 /\ Len(v) = 2 /\ Len(w) = 3
      /\ s[1] = x /\ t[1] = z /\ u[1] = x /\ u[2] = z /\ v[1] = x /\ v[2] = y
      /\ w[1] = x /\ w[2] = y /\ w[3] = z
  BY <1>1
<1>3. s \o t = u
  <2>1. /\ s \o t \in Seq(Int) /\ Len(s \o t) = Len(s) + Len(t)
        /\ \A i \in 1..(Len(s) + Len(t)) :
             (s \o t)[i] = IF i <= Len(s) THEN s[i] ELSE t[i - Len(s)]
    BY ONLY <1>2, ConcatProperties
  <2>2. \A i \in 1..Len(s \o t) : (s \o t)[i] = u[i]
    BY <1>2, <2>1
  <2>3. Len(s \o t) = Len(u)
    BY <1>2, <2>1
  <2> QED
    BY ONLY <1>2, <2>1, <2>2, <2>3, SeqEqual
<1>4. v \o t = w
  <2>1. /\ v \o t \in Seq(Int) /\ Len(v \o t) = Len(v) + Len(t)
        /\ \A i \in 1..(Len(v) + Len(t)) :
             (v \o t)[i] = IF i <= Len(v) THEN v[i] ELSE t[i - Len(v)]
    BY ONLY <1>2, ConcatProperties
  <2>2. \A i \in 1..Len(v \o t) : (v \o t)[i] = w[i]
    BY <1>2, <2>1
  <2>3. Len(v \o t) = Len(w)
    BY <1>2, <2>1
  <2> QED
    BY ONLY <1>2, <2>1, <2>2, <2>3, SeqEqual
<1> QED
  BY <1>1, <1>3, <1>4

\* The disk and network panels: what follows the table is drawn only where the table has
\* all its rows.
LEMMA PanelsLegible ==
  ASSUME ScreenIsDrawn, NEW area \in Area, NEW a \in PanelAreas(area)
  PROVE  a.chart.h > 0 \/ a.stats.h > 0 => a.table.h = 1 + a.rows /\ a.chart.h # 1
<1>1. PICK inner \in Area : inner = Inner(area)
  BY InnerFacts
<1>2. PICK h \in Nat : h = inner.h
  BY DEF Area
<1>3. PICK t \in Nat : t = Least(devices, MaxVisible)
  <2>1. devices \in Nat /\ MaxVisible \in Nat
    BY ScreenFacts, HeightAssumption
  <2> QED
    BY <2>1 DEF Least
<1>4. PICK b : /\ b \in Vertical(inner, <<1 + t>>
                                         \o (IF h > 1 + t + 1 + 2 THEN <<Fill>> ELSE <<>>)
                                         \o (IF h > 1 + t + 1 THEN <<1>> ELSE <<>>))
               /\ a = [table |-> b[1], rows |-> t,
                       chart |-> IF h > 1 + t + 1 + 2 THEN b[2] ELSE Nowhere,
                       stats |-> IF h > 1 + t + 1 THEN b[IF h > 1 + t + 1 + 2 THEN 3 ELSE 2]
                                 ELSE Nowhere]
  BY <1>1, <1>2, <1>3 DEF PanelAreas
<1>5. PICK c \in Nat, one \in Nat : c = 1 + t /\ one = 1
  OBVIOUS
<1>6. <<c>> \o <<Fill>> \o <<one>> = <<c, Fill, one>> /\ <<c>> \o <<>> \o <<one>> = <<c, one>>
  <2>1. <<c>> \o <<>> = <<c>>
    <3>1. <<c>> \in Seq(Int)
      OBVIOUS
    <3> QED
      BY <3>1, ConcatEmptySeq
  <2>2. Fill \in Int /\ c \in Int /\ one \in Int
    BY DEF Fill
  <2>3. <<c>> \o <<one>> = <<c, one>> /\ <<c>> \o <<Fill>> = <<c, Fill>>
    BY <2>2, OneMore
  <2>4. <<c, Fill>> \o <<one>> = <<c, Fill, one>>
    BY <2>2, OneMore
  <2> QED
    BY <2>1, <2>3, <2>4
<1>7. Nowhere.h = 0
  BY DEF Nowhere
<1>8. CASE h > t + 4
  <2>1. /\ h > 1 + t + 1 /\ h > 1 + t + 1 + 2
    BY <1>8
  <2>2. /\ b \in Vertical(inner, <<c, Fill, one>>)
        /\ a.table = b[1] /\ a.rows = t /\ a.chart = b[2] /\ a.stats = b[3]
    BY <1>4, <1>5, <1>6, <2>1
  <2>3. PICK last \in BOOLEAN : last = FALSE
    OBVIOUS
  <2>4. b \in Vertical(inner, IF last THEN <<c, one, Fill>> ELSE <<c, Fill, one>>)
    BY <2>2, <2>3
  <2>5. /\ b[1] \in Area /\ b[2] \in Area /\ b[3] \in Area
        /\ b[1].y = inner.y /\ b[2].y = b[1].y + b[1].h /\ b[3].y = b[2].y + b[2].h
        /\ b[3].y + b[3].h = inner.y + inner.h
        /\ c + one <= inner.h => b[1].h = c /\ b[IF last THEN 2 ELSE 3].h = one
    BY <2>4, ThreeParts
  <2>6. b[1].h = 1 + t /\ b[3].h = 1
    BY <1>2, <1>5, <1>8, <2>3, <2>5
  <2>7. PICK y \in Nat, y2 \in Nat, h2 \in Nat, y3 \in Nat :
          y = inner.y /\ y2 = b[2].y /\ h2 = b[2].h /\ y3 = b[3].y
    BY <2>5 DEF Area
  <2>8. y2 = y + (1 + t) /\ y3 = y2 + h2 /\ y3 + 1 = y + h
    BY <1>2, <2>5, <2>6, <2>7
  <2>9. h2 # 1
    BY <1>8, <2>8
  <2> QED
    BY <2>2, <2>6, <2>7, <2>9
<1>9. CASE h <= t + 4 /\ h > t + 2
  <2>1. h > 1 + t + 1 /\ ~(h > 1 + t + 1 + 2)
    BY <1>9
  <2>2. /\ b \in Vertical(inner, <<c, one>>)
        /\ a.table = b[1] /\ a.rows = t /\ a.chart = Nowhere
    BY <1>4, <1>5, <1>6, <2>1
  <2>3. c + one <= inner.h
    BY <1>2, <1>5, <1>9
  <2>4. PICK parts : parts = <<c, one>> /\ b \in Vertical(inner, parts)
    BY <2>2
  <2>5. b[1].h = c
    BY <2>3, <2>4, BothFit
  <2> QED
    BY <1>5, <1>7, <2>2, <2>5
<1>10. CASE h <= t + 2
  <2>1. ~(h > 1 + t + 1) /\ ~(h > 1 + t + 1 + 2)
    BY <1>10
  <2>2. a.chart = Nowhere /\ a.stats = Nowhere
    BY <1>4, <2>1
  <2> QED
    BY <1>7, <2>2
<1> QED
  BY <1>8, <1>9, <1>10

\* The charts of both tabs.
LEMMA AllLegible == ScreenIsDrawn => ChartsAreLegible
<1> SUFFICES ASSUME ScreenIsDrawn PROVE ChartsAreLegible
  OBVIOUS
<1>1. ASSUME tab = "GpuDetail", NEW a \in GpuDetailAreas(screen.body)
      PROVE  (\A i \in DOMAIN a.charts : a.charts[i].h >= 2) /\ a.stats.h = 2 * windows
  BY <1>1, GpuChartsLegible
<1>2. ASSUME tab = "Overview", NEW a \in PanelAreas(screen.io)
      PROVE  a.chart.h > 0 \/ a.stats.h > 0 => a.table.h = 1 + a.rows /\ a.chart.h # 1
  <2>1. screen.io \in Area
    BY <1>2, ScreenOverview DEF Stacked
  <2> QED
    BY <1>2, <2>1, PanelsLegible
<1> QED
  BY <1>1, <1>2 DEF ChartsAreLegible

\* In a terminal of any height a chart of the GPU view has its two rows and costs no line
\* of the statistics, and what the disk and network panels add to their tables costs the
\* tables no row (render_charts_column, render_disk_panel, render_network_panel).
THEOREM EveryChartIsLegible == LayoutSpec => []ChartsAreLegible
BY InitDrawn, NextDrawn, AllLegible, PTL DEF LayoutSpec

=============================================================================
