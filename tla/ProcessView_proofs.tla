--------------------------- MODULE ProcessView_proofs --------------------------
(***************************************************************************)
(* Proofs about ProcessView, for every set of pids, every table and every  *)
(* filter.  The sort: the table is always in the order of its column and   *)
(* direction.  The kill dialogue: between K and the signal the pid does    *)
(* not change, and only the pid on the screen is signalled.  The types:    *)
(* also the filtered table, which K takes a pid from, is made of rows.     *)
(***************************************************************************)
EXTENDS ProcessView, FiniteSetTheorems, SequenceTheorems, TLAPS

-----------------------------------------------------------------------------
(* Sorting.  Rank numbers the rows by a strict total order, so that every   *)
(* place of the sorted table is the rank of exactly one row.                *)

\* A table of n rows has n places.
LEMMA Places == ASSUME NEW n \in Nat PROVE IsFiniteSet(1..n) /\ Cardinality(1..n) = n
<1>1. 1 \in Int /\ n \in Int
  OBVIOUS
<1>2. IsFiniteSet(1..n) /\ Cardinality(1..n) = IF 1 > n THEN 0 ELSE n - 1 + 1
  BY <1>1, FS_Interval, Zenon
<1> QED
  BY <1>2

\* The sort columns of a row are numbers.
LEMMA ColumnIsNat ==
  ASSUME NEW row \in Row, NEW c \in SortColumns
  PROVE  Column(row, c) \in Nat
BY PidAssumption, TableAssumption DEF Column, Row, SortColumns

\* Precedes is a strict total order of the rows' positions.
LEMMA PrecedesIsOrder ==
  ASSUME NEW s \in Seq(Row), NEW c \in SortColumns, NEW up \in BOOLEAN,
         NEW i \in 1..Len(s), NEW j \in 1..Len(s), NEW k \in 1..Len(s)
  PROVE  /\ ~Precedes(s, c, up, i, i)
         /\ Precedes(s, c, up, i, j) /\ Precedes(s, c, up, j, k) => Precedes(s, c, up, i, k)
         /\ i # j => Precedes(s, c, up, i, j) \/ Precedes(s, c, up, j, i)
<1> DEFINE x == Column(s[i], c)
           y == Column(s[j], c)
           z == Column(s[k], c)
<1>1. s[i] \in Row /\ s[j] \in Row /\ s[k] \in Row
  BY ElementOfSeq
<1>2. x \in Nat /\ y \in Nat /\ z \in Nat /\ i \in Nat /\ j \in Nat /\ k \in Nat
  BY <1>1, ColumnIsNat
<1>3. /\ Precedes(s, c, up, i, i) <=> (i < i)
      /\ Precedes(s, c, up, i, j) <=> IF x = y THEN i < j ELSE IF up THEN x < y ELSE y < x
      /\ Precedes(s, c, up, j, i) <=> IF y = x THEN j < i ELSE IF up THEN y < x ELSE x < y
      /\ Precedes(s, c, up, j, k) <=> IF y = z THEN j < k ELSE IF up THEN y < z ELSE z < y
      /\ Precedes(s, c, up, i, k) <=> IF x = z THEN i < k ELSE IF up THEN x < z ELSE z < x
  BY Zenon DEF Precedes
<1> HIDE DEF x, y, z
<1>4. ~Precedes(s, c, up, i, i)
  BY <1>2, <1>3
<1>5. i # j => Precedes(s, c, up, i, j) \/ Precedes(s, c, up, j, i)
  <2>1. CASE x = y
    BY <1>2, <1>3, <2>1
  <2>2. CASE x # y
    BY <1>2, <1>3, <2>2
  <2> QED
    BY <2>1, <2>2
<1>6. ASSUME Precedes(s, c, up, i, j), Precedes(s, c, up, j, k)
      PROVE  Precedes(s, c, up, i, k)
  <2>1. CASE x = y /\ y = z
    BY <1>2, <1>3, <1>6, <2>1
  <2>2. CASE up /\ ~(x = y /\ y = z)
    <3>1. x <= y /\ y <= z
      BY <1>2, <1>3, <1>6, <2>2
    <3>2. x # z /\ x < z
      BY <1>2, <2>2, <3>1
    <3> QED
      BY <1>3, <2>2, <3>2
  <2>3. CASE ~up /\ ~(x = y /\ y = z)
    <3>1. y <= x /\ z <= y
      BY <1>2, <1>3, <1>6, <2>3
    <3>2. x # z /\ z < x
      BY <1>2, <2>3, <3>1
    <3> QED
      BY <1>3, <2>3, <3>2
  <2> QED
    BY <2>1, <2>2, <2>3
<1> QED
  BY <1>4, <1>5, <1>6

\* A rank is a place of the table, and rows that precede have lower ranks.
LEMMA RankProperties ==
  ASSUME NEW s \in Seq(Row), NEW c \in SortColumns, NEW up \in BOOLEAN
  PROVE  /\ \A i \in 1..Len(s) : Rank(s, c, up, i) \in 1..Len(s)
         /\ \A i, j \in 1..Len(s) :
              Precedes(s, c, up, i, j) => Rank(s, c, up, i) < Rank(s, c, up, j)
<1> DEFINE n == Len(s)
           Before(i) == {j \in 1..n : Precedes(s, c, up, j, i)}
<1>1. n \in Nat /\ DOMAIN s = 1..n
  OBVIOUS
<1>11. IsFiniteSet(1..n) /\ Cardinality(1..n) = n
  BY <1>1, Places
<1>2. \A i \in 1..n : Rank(s, c, up, i) = 1 + Cardinality(Before(i))
  BY <1>1 DEF Rank
<1>0. \A i : Before(i) \in SUBSET (1..n)
  OBVIOUS
<1>4. \A i \in 1..n : i \notin Before(i)
  BY PrecedesIsOrder
<1>10. \A i, j \in 1..n : Precedes(s, c, up, i, j) => Before(i) \cup {i} \in SUBSET Before(j)
  BY PrecedesIsOrder
<1> HIDE DEF Before
<1>3. \A i \in 1..n : IsFiniteSet(Before(i)) /\ Cardinality(Before(i)) \in Nat
  BY <1>0, <1>11, FS_Subset, FS_CardinalityType
<1>5. \A i \in 1..n : /\ IsFiniteSet(Before(i) \cup {i})
                      /\ Cardinality(Before(i) \cup {i}) = Cardinality(Before(i)) + 1
  BY <1>3, <1>4, FS_AddElement
<1>6. ASSUME NEW i \in 1..n PROVE Rank(s, c, up, i) \in 1..n
  <2>1. Before(i) \cup {i} \in SUBSET (1..n)
    BY <1>0
  <2>2. Cardinality(Before(i) \cup {i}) <= n
    BY <1>11, <2>1, FS_Subset
  <2>3. /\ Cardinality(Before(i)) \in Nat /\ Cardinality(Before(i)) + 1 <= n
        /\ Rank(s, c, up, i) = 1 + Cardinality(Before(i))
    BY <1>2, <1>3, <1>5, <2>2
  <2> QED
    BY <1>1, <2>3
<1>7. ASSUME NEW i \in 1..n, NEW j \in 1..n, Precedes(s, c, up, i, j)
      PROVE  Rank(s, c, up, i) < Rank(s, c, up, j)
  <2>1. Before(i) \cup {i} \in SUBSET Before(j)
    BY <1>7, <1>10
  <2>2. Cardinality(Before(i) \cup {i}) <= Cardinality(Before(j))
    BY <1>3, <2>1, FS_Subset
  <2>3. /\ Cardinality(Before(i)) \in Nat /\ Cardinality(Before(j)) \in Nat
        /\ Cardinality(Before(i)) + 1 <= Cardinality(Before(j))
    BY <1>3, <1>5, <2>2
  <2>4. /\ Rank(s, c, up, i) = 1 + Cardinality(Before(i))
        /\ Rank(s, c, up, j) = 1 + Cardinality(Before(j))
    BY <1>2
  <2> QED
    BY <2>3, <2>4
<1> QED
  BY <1>6, <1>7

\* Every place of the table is the rank of a row.
LEMMA RankIsOnto ==
  ASSUME NEW s \in Seq(Row), NEW c \in SortColumns, NEW up \in BOOLEAN,
         NEW m \in 1..Len(s)
  PROVE  \E i \in 1..Len(s) : Rank(s, c, up, i) = m
<1> DEFINE n == Len(s)
           rank == [i \in 1..n |-> Rank(s, c, up, i)]
<1>0. n \in Nat
  OBVIOUS
<1>1. IsFiniteSet(1..n) /\ Cardinality(1..n) = n
  BY <1>0, Places
<1>2. rank \in [1..n -> 1..n]
  BY RankProperties
<1>3. \A i, j \in 1..n : i # j => rank[i] # rank[j]
  <2> SUFFICES ASSUME NEW i \in 1..n, NEW j \in 1..n, i # j PROVE rank[i] # rank[j]
    OBVIOUS
  <2>1. Precedes(s, c, up, i, j) \/ Precedes(s, c, up, j, i)
    BY PrecedesIsOrder
  <2>2. Rank(s, c, up, i) < Rank(s, c, up, j) \/ Rank(s, c, up, j) < Rank(s, c, up, i)
    BY <2>1, RankProperties
  <2>3. Rank(s, c, up, i) \in 1..n /\ Rank(s, c, up, j) \in 1..n
    BY RankProperties
  <2> QED
    BY <2>2, <2>3
<1> HIDE DEF rank
<1>4. rank \in Injection(1..n, 1..n)
  BY <1>2, <1>3 DEF Injection, IsInjective
<1>5. rank \in Surjection(1..n, 1..n)
  BY <1>1, <1>4, FS_Injection
<1>6. \E i \in 1..n : rank[i] = m
  BY <1>5 DEF Surjection
<1> QED
  BY <1>6 DEF rank

\* Sorting gives a table of the same length, made of the same rows, in order.
LEMMA SortedIsInOrder ==
  ASSUME NEW s \in Seq(Row), NEW c \in SortColumns, NEW up \in BOOLEAN
  PROVE  /\ Sorted(s, c, up) \in Seq(Row) /\ Len(Sorted(s, c, up)) = Len(s)
         /\ \A i, j \in 1..Len(s) : i < j =>
              IF up THEN Column(Sorted(s, c, up)[i], c) <= Column(Sorted(s, c, up)[j], c)
                    ELSE Column(Sorted(s, c, up)[i], c) >= Column(Sorted(s, c, up)[j], c)
<1> DEFINE n == Len(s)
           at(m) == CHOOSE i \in 1..n : Rank(s, c, up, i) = m
           t == Sorted(s, c, up)
<1>1. \A m \in 1..n : at(m) \in 1..n /\ Rank(s, c, up, at(m)) = m
  BY RankIsOnto
<1>2. n \in Nat /\ t = [m \in 1..n |-> s[at(m)]]
  BY DEF Sorted
<1> HIDE DEF at, t
<1>3. \A m \in 1..n : s[at(m)] \in Row
  BY <1>1, ElementOfSeq
<1>4. t \in Seq(Row) /\ Len(t) = n
  BY <1>2, <1>3
<1>5. ASSUME NEW i \in 1..n, NEW j \in 1..n, i < j
      PROVE  IF up THEN Column(t[i], c) <= Column(t[j], c)
                   ELSE Column(t[i], c) >= Column(t[j], c)
  <2>1. at(i) \in 1..n /\ at(j) \in 1..n
    BY <1>1
  <2>2. ~Precedes(s, c, up, at(j), at(i))
    <3> SUFFICES ASSUME Precedes(s, c, up, at(j), at(i)) PROVE FALSE
      OBVIOUS
    <3>1. Rank(s, c, up, at(j)) < Rank(s, c, up, at(i))
      BY <2>1, RankProperties
    <3> QED
      BY <1>1, <1>5, <3>1
  <2>3. t[i] = s[at(i)] /\ t[j] = s[at(j)]
    BY <1>2
  <2>4. Column(t[i], c) \in Nat /\ Column(t[j], c) \in Nat
    BY <1>3, <2>3, ColumnIsNat
  <2> QED
    BY <2>2, <2>3, <2>4 DEF Precedes
<1> QED
  BY <1>4, <1>5 DEF t

\* The table with what sorts it, and the processes it can show.
TableType ==
  /\ alive \subseteq Pids /\ inc \in [Pids -> Incarnations]
  /\ rows \in Seq(Row) /\ sort \in SortColumns /\ asc \in BOOLEAN

SortInv == TableType /\ TableSorted

\* What the collector reports is a table of rows.
LEMMA SnapshotsAreTables ==
  ASSUME TableType, NEW s \in Snapshots
  PROVE  s \in Seq(Row)
<1> DEFINE Live == {[pid |-> p, inc |-> inc[p], profile |-> f] : p \in alive, f \in Profiles}
<1>1. PICK n \in 0..MaxRows : s \in [1..n -> Live]
  BY DEF Snapshots
<1>2. Live \subseteq Row
  BY DEF TableType, Row
<1>3. n \in Nat
  BY <1>1, TableAssumption
<1> HIDE DEF Live
<1> QED
  BY <1>1, <1>2, <1>3

\* Whatever sorts the table leaves it sorted.
LEMMA SortingIsSorted ==
  ASSUME TableType, NEW s \in Seq(Row), NEW c \in SortColumns, NEW up \in BOOLEAN,
         rows' = Sorted(s, c, up), sort' = c, asc' = up, UNCHANGED world
  PROVE  SortInv'
<1>1. rows' \in Seq(Row) /\ Len(rows') = Len(s)
  BY SortedIsInOrder
<1>2. TableType'
  BY <1>1 DEF TableType, world
<1>3. TableSorted'
  BY <1>1, SortedIsInOrder DEF TableSorted
<1> QED
  BY <1>2, <1>3 DEF SortInv

LEMMA NextSortInv == SortInv /\ [Next]_vars => SortInv'
<1> SUFFICES ASSUME SortInv, [Next]_vars PROVE SortInv'
  OBVIOUS
<1>1. TableType
  BY DEF SortInv
<1>2. ASSUME UNCHANGED <<alive, inc, rows, sort, asc>> PROVE SortInv'
  BY <1>2 DEF SortInv, TableType, TableSorted
<1>3. ASSUME NEW p \in Pids, ProcessStarts(p) PROVE SortInv'
  <2>1. UNCHANGED <<rows, sort, asc>> /\ alive' \subseteq Pids
    BY <1>1, <1>3 DEF ProcessStarts, TableType, table
  <2>2. inc' \in [Pids -> Incarnations]
    <3>1. inc[p] \in Incarnations /\ inc[p] + 1 <= MaxInc /\ inc' = [inc EXCEPT ![p] = inc[p] + 1]
      BY <1>1, <1>3, TableAssumption DEF ProcessStarts, TableType, Incarnations
    <3>2. inc[p] + 1 \in Incarnations
      BY <3>1, TableAssumption DEF Incarnations
    <3> QED
      BY <1>1, <3>1, <3>2 DEF TableType
  <2> QED
    BY <2>1, <2>2 DEF SortInv, TableType, TableSorted
<1>4. ASSUME NEW p \in Pids, ProcessExits(p) PROVE SortInv'
  BY <1>4 DEF ProcessExits, SortInv, TableType, TableSorted, table
<1>5. CASE TickEvent
  <2>1. PICK s \in Snapshots : rows' = Sorted(s, sort, asc)
    BY <1>5 DEF TickEvent, update_gpu_processes
  <2>2. UNCHANGED <<world, sort, asc>> /\ sort \in SortColumns /\ asc \in BOOLEAN
    BY <1>1, <1>5 DEF TickEvent, TableType
  <2> QED
    BY <1>1, <2>1, <2>2, SnapshotsAreTables, SortingIsSorted
<1>6. CASE NextSortColumn
  <2>1. next_column[sort] \in SortColumns /\ rows \in Seq(Row) /\ asc \in BOOLEAN
    BY <1>1 DEF TableType, SortColumns, next_column
  <2> QED
    BY <1>1, <1>6, <2>1, SortingIsSorted DEF NextSortColumn
<1>7. CASE ReverseSort
  <2>1. rows \in Seq(Row) /\ sort \in SortColumns
    BY <1>1 DEF TableType
  <2>2. (~asc) \in BOOLEAN
    BY Zenon
  <2> QED
    BY <1>1, <1>7, <2>1, <2>2, SortingIsSorted DEF ReverseSort
<1>8. CASE \/ Draw \/ SendSignal \/ Ended \/ UNCHANGED vars
  BY <1>2, <1>8 DEF Draw, SendSignal, Ended, vars, world, table
<1>9. CASE Key /\ ~NextSortColumn /\ ~ReverseSort
  BY <1>2, <1>9 DEF Key, Quit, CtrlCElsewhere, IgnoredKey, ChangeTab, MoveSelection,
     EnterMode, LeaveMode, EditFilter, AskKill, CancelKill, ConfirmKill, world, table
<1> QED
  BY <1>3, <1>4, <1>5, <1>6, <1>7, <1>8, <1>9 DEF Next

\* The table is in the order of its column and direction after every tick and
\* every key, for any column values and any number of rows: update_gpu_processes
\* and the sort keys never leave rows in an order that the header contradicts.
THEOREM TableStaysSorted == Spec => []TableSorted
<1>1. Init => SortInv
  <2> SUFFICES ASSUME Init PROVE SortInv
    OBVIOUS
  <2>1. rows = <<>> /\ alive = {} /\ sort \in SortColumns /\ asc \in BOOLEAN
    BY DEF Init, SortColumns
  <2>2. inc \in [Pids -> Incarnations]
    BY TableAssumption DEF Init, Incarnations
  <2>3. TableSorted
    BY <2>1 DEF TableSorted
  <2> QED
    BY <2>1, <2>2, <2>3 DEF SortInv, TableType
<1>2. SortInv => TableSorted
  BY DEF SortInv
<1> QED
  BY <1>1, <1>2, NextSortInv, PTL DEF Spec

-----------------------------------------------------------------------------
(* The kill dialogue. *)

\* What the last frame says of the prompt is what y will confirm.
PromptIsShown ==
  phase = "recv" => shown = (IF mode = "ProcessKill" THEN confirm ELSE NoPid)

\* The pid to confirm is the one of the row that K picked.
ConfirmIsChosen == confirm # NoPid => confirm = chosen.pid

\* kill_process runs with the pid that it has taken out of the prompt.
SignalIsPrompted ==
  phase = "signal" => /\ confirm = NoPid
                      /\ target # NoPid /\ target = shown /\ target = chosen.pid

IInv ==
  /\ alive \subseteq Pids
  /\ ConfirmOnlyInKillMode /\ PromptIsShown /\ ConfirmIsChosen /\ SignalIsPrompted

USE DEF ConfirmOnlyInKillMode, PromptIsShown, ConfirmIsChosen, SignalIsPrompted

\* No process has the pid 0 that stands for None.
LEMMA LivePids == alive \subseteq Pids => NoPid \notin alive
BY PidAssumption

LEMMA InitIInv == Init => IInv
BY DEF Init, IInv

\* Starting and exiting processes do not reach into the program.
LEMMA WorldIInv ==
  ASSUME IInv, NEW p \in Pids, ProcessStarts(p) \/ ProcessExits(p)
  PROVE  IInv'
BY DEF IInv, ProcessStarts, ProcessExits, table, killing

\* A frame shows the prompt; a tick changes the table under it and nothing else.
LEMMA DrawIInv == ASSUME IInv, Draw \/ TickEvent PROVE IInv'
BY DEF IInv, Draw, TickEvent, world, table, killing

\* The keys that leave the dialogue alone.
LEMMA OtherKeysIInv ==
  ASSUME IInv,
         \/ Quit \/ CtrlCElsewhere \/ IgnoredKey \/ ChangeTab \/ MoveSelection
         \/ NextSortColumn \/ ReverseSort \/ EditFilter
  PROVE  IInv'
<1>1. /\ phase = "recv" /\ phase' \in {"draw", "done"}
      /\ UNCHANGED <<alive, mode, confirm, target, chosen, shown>>
  BY DEF Quit, CtrlCElsewhere, IgnoredKey, ChangeTab, MoveSelection, NextSortColumn,
         ReverseSort, EditFilter, Handled, world, table, killing
<1> QED
  BY <1>1 DEF IInv

\* Changing the mode by the other keys neither starts nor ends a dialogue.
LEMMA ModesIInv ==
  ASSUME IInv, NEW m \in {"ProcessSort", "ProcessFilter", "Help"}, EnterMode(m) \/ LeaveMode(m)
  PROVE  IInv'
<1>1. /\ phase = "recv" /\ phase' = "draw" /\ mode # "ProcessKill"
      /\ UNCHANGED <<alive, confirm, target, chosen, shown>>
  BY DEF EnterMode, LeaveMode, Handled, world, table, killing
<1> QED
  BY <1>1 DEF IInv

\* K: in Normal mode there is no pid left from an earlier dialogue.
LEMMA AskKillIInv == ASSUME IInv, AskKill PROVE IInv'
<1>1. /\ phase = "recv" /\ phase' = "draw" /\ mode' = "ProcessKill" /\ confirm = NoPid
      /\ UNCHANGED <<alive, target, shown>>
  BY DEF IInv, AskKill, Handled, world
<1>2. \/ confirm' = chosen'.pid
      \/ confirm' = confirm /\ chosen' = chosen
  BY DEF AskKill
<1> QED
  BY <1>1, <1>2 DEF IInv

\* n ends the dialogue and forgets the pid.
LEMMA CancelKillIInv == ASSUME IInv, CancelKill PROVE IInv'
BY DEF IInv, CancelKill, Handled, world, table

\* y hands the pid that the frame shows to kill(), if it takes it and a process has it.
LEMMA ConfirmKillIInv == ASSUME IInv, ConfirmKill PROVE IInv'
<1>1. /\ phase = "recv" /\ mode = "ProcessKill" /\ shown = confirm
      /\ mode' = "Normal" /\ confirm' = NoPid /\ alive' = alive /\ shown' = shown
  BY DEF IInv, ConfirmKill, world
<1>2. CASE Signalable(confirm) /\ confirm \in alive
  <2>1. confirm # NoPid
    BY <1>2, LivePids DEF IInv
  <2>2. phase' = "signal" /\ target' = confirm /\ chosen' = chosen
    BY <1>2 DEF ConfirmKill
  <2> QED
    BY <1>1, <2>1, <2>2 DEF IInv
<1>3. CASE ~(Signalable(confirm) /\ confirm \in alive)
  BY <1>1, <1>3 DEF IInv, ConfirmKill
<1> QED
  BY <1>2, <1>3

\* The signal ends the call of kill_process; no dialogue is under way by then.
LEMMA SendSignalIInv == ASSUME IInv, SendSignal PROVE IInv'
BY DEF IInv, SendSignal, world, table

LEMMA NextIInv == IInv /\ [Next]_vars => IInv'
<1> SUFFICES ASSUME IInv, [Next]_vars PROVE IInv'
  OBVIOUS
<1>1. CASE \E p \in Pids : ProcessStarts(p) \/ ProcessExits(p)
  BY <1>1, WorldIInv
<1>2. CASE Key
  BY <1>2, OtherKeysIInv, ModesIInv, AskKillIInv, CancelKillIInv, ConfirmKillIInv DEF Key
<1>3. CASE UNCHANGED vars
  BY <1>3 DEF vars, IInv
<1> QED
  BY <1>1, <1>2, <1>3, DrawIInv, SendSignalIInv DEF Next, Ended

\* The inductive invariant holds in every reachable state.
THEOREM Invariance == Spec => []IInv
BY InitIInv, NextIInv, PTL DEF Spec

\* A pid never survives its prompt, so that no later prompt confirms it.
THEOREM ConfirmNeedsPrompt == Spec => []ConfirmOnlyInKillMode
<1>1. IInv => ConfirmOnlyInKillMode
  BY DEF IInv
<1> QED
  BY <1>1, Invariance, PTL

\* kill_process is called with the pid of the last frame's prompt and of the row
\* that K picked, whatever happened to the table in between.
THEOREM ShownPidIsKilled == Spec => []OnlyShownPidIsKilled
<1>1. IInv => OnlyShownPidIsKilled
  BY DEF IInv, OnlyShownPidIsKilled, ConfirmOnlyInKillMode
<1> QED
  BY <1>1, Invariance, PTL

\* No step changes the pid of a prompt that stays up.
THEOREM PromptStaysStable == Spec => PromptIsStable
<1>1. [Next]_vars => [mode = "ProcessKill" /\ mode' = "ProcessKill" => confirm' = confirm]_vars
  <2> SUFFICES ASSUME Next, mode = "ProcessKill", mode' = "ProcessKill"
               PROVE  confirm' = confirm
    OBVIOUS
  <2>1. CASE \E p \in Pids : ProcessStarts(p) \/ ProcessExits(p)
    BY <2>1 DEF ProcessStarts, ProcessExits, killing
  <2>2. CASE Draw \/ TickEvent \/ SendSignal \/ Ended
    BY <2>2 DEF Draw, TickEvent, SendSignal, Ended, vars, killing
  <2>3. CASE Key
    BY <2>3 DEF Key, Quit, CtrlCElsewhere, IgnoredKey, ChangeTab, MoveSelection, EnterMode,
                LeaveMode, NextSortColumn, ReverseSort, EditFilter, AskKill, CancelKill,
                ConfirmKill, Handled, killing
  <2> QED
    BY <2>1, <2>2, <2>3 DEF Next
<1> QED
  BY <1>1, PTL DEF Spec, PromptIsStable

-----------------------------------------------------------------------------
(* The types.  Filtering keeps rows: the filtered table numbers the rows    *)
(* that match, which are finitely many positions of the table.              *)

\* The n-th of a finite set of positions.
LEMMA NthExists ==
  ASSUME NEW n \in Nat, NEW K, K \in SUBSET (1..n)
  PROVE  /\ IsFiniteSet(K) /\ Cardinality(K) \in Nat /\ Cardinality(K) <= n
         /\ \A m \in 1..Cardinality(K) : \E i \in K : Cardinality({j \in K : j <= i}) = m
<1> DEFINE Upto(i) == {j \in K : j <= i}
           c == Cardinality(K)
           rank == [i \in K |-> Cardinality(Upto(i))]
<1>1. IsFiniteSet(K) /\ c \in Nat /\ c <= n
  <2>1. IsFiniteSet(1..n) /\ Cardinality(1..n) = n
    BY Places
  <2> QED
    BY <2>1, FS_Subset, FS_CardinalityType
<1>2. ASSUME NEW i \in K
      PROVE  /\ IsFiniteSet(Upto(i)) /\ Cardinality(Upto(i)) \in 1..c
  <2>1. Upto(i) \subseteq K /\ i \in Upto(i)
    OBVIOUS
  <2> HIDE DEF Upto
  <2>2. IsFiniteSet(Upto(i)) /\ Cardinality(Upto(i)) <= c /\ Cardinality(Upto(i)) \in Nat
    BY <1>1, <2>1, FS_Subset, FS_CardinalityType
  <2>3. Cardinality(Upto(i)) # 0
    BY <2>1, <2>2, FS_EmptySet
  <2> QED
    BY <1>1, <2>2, <2>3
<1>3. ASSUME NEW i \in K, NEW k \in K, i < k
      PROVE  Cardinality(Upto(i)) < Cardinality(Upto(k))
  <2>0. i \in Nat /\ k \in Nat /\ \A j \in K : j \in Nat
    OBVIOUS
  <2>1. Upto(i) \subseteq Upto(k) /\ k \in Upto(k) /\ k \notin Upto(i)
    <3>1. ASSUME NEW j \in Upto(i) PROVE j \in Upto(k)
      <4>1. j \in K /\ j \in Nat /\ j <= i
        BY <2>0
      <4> QED
        BY ONLY <1>3, <2>0, <4>1
    <3>2. k \in Upto(k)
      BY <2>0
    <3>3. k \notin Upto(i)
      BY ONLY <1>3, <2>0
    <3> QED
      BY <3>1, <3>2, <3>3
  <2>2. IsFiniteSet(Upto(k)) /\ Upto(i) # Upto(k)
    BY <1>2, <2>1
  <2> HIDE DEF Upto
  <2> QED
    BY <2>1, <2>2, FS_Subset, FS_CardinalityType
<1> HIDE DEF Upto, c
<1>4. rank \in [K -> 1..c]
  BY <1>2
<1>5. \A i, k \in K : i # k => rank[i] # rank[k]
  <2> SUFFICES ASSUME NEW i \in K, NEW k \in K, i # k PROVE rank[i] # rank[k]
    OBVIOUS
  <2>1. i < k \/ k < i
    OBVIOUS
  <2>2. Cardinality(Upto(i)) \in Nat /\ Cardinality(Upto(k)) \in Nat
    BY <1>1, <1>2
  <2> QED
    BY <1>3, <2>1, <2>2
<1>6. Cardinality(1..c) = c /\ IsFiniteSet(1..c)
  BY <1>1, Places
<1> HIDE DEF rank
<1>7. rank \in Injection(K, 1..c)
  BY <1>4, <1>5 DEF Injection, IsInjective
<1>8. rank \in Surjection(K, 1..c)
  BY <1>1, <1>6, <1>7, FS_Injection DEF c
<1>9. \A m \in 1..c : \E i \in K : rank[i] = m
  BY <1>8 DEF Surjection
<1> QED
  BY <1>1, <1>9 DEF rank, Upto, c

\* The filtered table is made of the rows of the table that match.
LEMMA FilteredRows ==
  ASSUME rows \in Seq(Row)
  PROVE  /\ filtered_processes \in Seq(Row) /\ Len(filtered_processes) <= Len(rows)
         /\ \A n \in 1..Len(filtered_processes) :
              \E i \in 1..Len(rows) : /\ filtered_processes[n] = rows[i]
                                      /\ Matches(filter, rows[i])
<1> DEFINE K == {i \in DOMAIN rows : Matches(filter, rows[i])}
           c == Cardinality(K)
           at(n) == CHOOSE i \in K : Cardinality({j \in K : j <= i}) = n
<1>1. filtered_processes = [n \in 1..c |-> rows[at(n)]]
  BY DEF filtered_processes
<1>2. Len(rows) \in Nat /\ DOMAIN rows = 1..Len(rows)
  OBVIOUS
<1>3. \A i \in K : i \in 1..Len(rows) /\ rows[i] \in Row /\ Matches(filter, rows[i])
  BY <1>2, ElementOfSeq
<1>4. K \in SUBSET (1..Len(rows))
  BY <1>3
<1> HIDE DEF K
<1>5. /\ c \in Nat /\ c <= Len(rows)
      /\ \A n \in 1..c : \E i \in K : Cardinality({j \in K : j <= i}) = n
  BY <1>2, <1>4, NthExists
<1>6. \A n \in 1..c : at(n) \in K
  BY <1>5
<1> HIDE DEF at, c
<1> QED
  BY <1>1, <1>3, <1>5, <1>6

\* Nothing is shown, and nothing to be killed, at the start.
LEMMA InitTypeOK == Init => TypeOK
<1> SUFFICES ASSUME Init PROVE TypeOK
  OBVIOUS
<1>1. inc \in [Pids -> Incarnations]
  BY TableAssumption DEF Init, Incarnations
<1>2. <<>> \in Seq(Row) /\ <<>> \in Seq(FilterChars) /\ Len(<<>>) = 0
  OBVIOUS
<1>3. rows \in Seq(Row) /\ Len(rows) <= MaxRows
  BY <1>2, TableAssumption DEF Init
<1>4. filter \in Seq(FilterChars) /\ Len(filter) <= MaxFilter
  BY <1>2, TableAssumption DEF Init
<1> QED
  BY <1>1, <1>3, <1>4 DEF Init, TypeOK, Phases, Modes, Tabs, SortColumns

\* A table that was sorted is a table.
LEMMA SortedTypeOK ==
  ASSUME NEW s \in Seq(Row), Len(s) <= MaxRows, NEW c \in SortColumns, NEW up \in BOOLEAN
  PROVE  Sorted(s, c, up) \in Seq(Row) /\ Len(Sorted(s, c, up)) <= MaxRows
BY SortedIsInOrder

\* Processes come and go.
LEMMA WorldTypeOK ==
  ASSUME TypeOK, NEW p \in Pids, ProcessStarts(p) \/ ProcessExits(p)
  PROVE  TypeOK'
<1>1. alive' \subseteq Pids /\ UNCHANGED <<phase, table, mode, tab, killing, shown>>
  BY DEF ProcessStarts, ProcessExits, TypeOK
<1>2. inc' \in [Pids -> Incarnations]
  <2>1. CASE ProcessStarts(p)
    <3>1. inc[p] \in Incarnations /\ inc[p] + 1 <= MaxInc /\ inc' = [inc EXCEPT ![p] = inc[p] + 1]
      BY <2>1, TableAssumption DEF ProcessStarts, TypeOK, Incarnations
    <3>2. inc[p] + 1 \in Incarnations
      BY <3>1, TableAssumption DEF Incarnations
    <3> QED
      BY <3>1, <3>2 DEF TypeOK
  <2>2. CASE ProcessExits(p)
    BY <2>2 DEF ProcessExits, TypeOK
  <2> QED
    BY <2>1, <2>2
<1> QED
  BY <1>1, <1>2 DEF TypeOK, table, killing

\* A tick replaces the table by a sorted snapshot.
LEMMA TickTypeOK == ASSUME TypeOK, TickEvent PROVE TypeOK'
<1>1. PICK s \in Snapshots : rows' = Sorted(s, sort, asc)
  BY DEF TickEvent, update_gpu_processes
<1>2. s \in Seq(Row)
  BY <1>1, SnapshotsAreTables DEF TableType, TypeOK
<1>3. Len(s) <= MaxRows
  <2>1. PICK n \in 0..MaxRows : DOMAIN s = 1..n
    BY <1>1 DEF Snapshots
  <2>2. n \in Nat /\ n <= MaxRows
    BY <2>1, TableAssumption
  <2> QED
    BY <1>2, <2>1, <2>2
<1>4. rows' \in Seq(Row) /\ Len(rows') <= MaxRows
  BY <1>1, <1>2, <1>3, SortedTypeOK DEF TypeOK
<1>5. phase' \in Phases /\ UNCHANGED <<world, mode, tab, sort, asc, sel, filter, killing, shown>>
  BY DEF TickEvent, Phases
<1> QED
  BY <1>4, <1>5 DEF TypeOK, world, killing

\* The keys that sort the table.
LEMMA SortTypeOK == ASSUME TypeOK, NextSortColumn \/ ReverseSort PROVE TypeOK'
<1>1. /\ UNCHANGED <<world, sel, filter, mode, tab, killing, shown>> /\ phase' \in Phases
      /\ rows' = Sorted(rows, sort', asc')
  BY DEF NextSortColumn, ReverseSort, Handled, Phases
<1>2. sort' \in SortColumns /\ asc' \in BOOLEAN
  <2>1. CASE NextSortColumn
    BY <2>1 DEF NextSortColumn, TypeOK, next_column, SortColumns
  <2>2. CASE ReverseSort
    <3>1. sort' = sort /\ asc' = ~asc
      BY <2>2 DEF ReverseSort
    <3>2. asc' \in BOOLEAN
      BY <3>1, Zenon
    <3> QED
      BY <3>1, <3>2 DEF TypeOK
  <2> QED
    BY <2>1, <2>2
<1>3. rows' \in Seq(Row) /\ Len(rows') <= MaxRows
  <2>1. PICK c \in SortColumns, up \in BOOLEAN : c = sort' /\ up = asc'
    BY <1>2
  <2> QED
    BY <1>1, <2>1, SortedTypeOK DEF TypeOK
<1> QED
  BY <1>1, <1>2, <1>3 DEF TypeOK, world, killing

\* The keys that edit the filter or move the selection.
LEMMA FilterTypeOK ==
  ASSUME TypeOK, EditFilter \/ CtrlCElsewhere \/ MoveSelection \/ \E m : LeaveMode(m)
  PROVE  TypeOK'
<1>0. Len(filter) \in Nat /\ MaxFilter \in Nat
  BY TableAssumption DEF TypeOK
<1>1. /\ UNCHANGED <<world, rows, sort, asc, tab, killing, shown>> /\ phase' \in Phases
      /\ mode' \in Modes
  BY DEF EditFilter, CtrlCElsewhere, MoveSelection, LeaveMode, Handled, Phases, Modes, TypeOK
<1>2. ASSUME NEW c \in FilterChars, Len(filter) < MaxFilter
      PROVE  Append(filter, c) \in Seq(FilterChars) /\ Len(Append(filter, c)) <= MaxFilter
  BY <1>0, <1>2 DEF TypeOK
<1>3. filter' \in Seq(FilterChars) /\ Len(filter') <= MaxFilter
  <2>1. CASE EditFilter
    <3>1. CASE filter' = IF filter = <<>> THEN <<>> ELSE SubSeq(filter, 1, Len(filter) - 1)
      BY <1>0, <3>1 DEF TypeOK
    <3>2. CASE \E c \in FilterChars : Len(filter) < MaxFilter /\ filter' = Append(filter, c)
      BY <1>2, <3>2
    <3> QED
      BY <2>1, <3>1, <3>2 DEF EditFilter
  <2>2. CASE CtrlCElsewhere
    BY <1>2, <2>2 DEF CtrlCElsewhere, TypeOK
  <2>3. CASE MoveSelection
    BY <2>3 DEF MoveSelection, TypeOK
  <2>4. CASE \E m : LeaveMode(m)
    <3>1. filter' \in {filter, <<>>}
      BY <2>4 DEF LeaveMode
    <3>2. <<>> \in Seq(FilterChars) /\ Len(<<>>) <= MaxFilter
      BY <1>0
    <3> QED
      BY <3>1, <3>2 DEF TypeOK
  <2> QED
    BY <2>1, <2>2, <2>3, <2>4
<1>4. sel' \in Nat
  BY DEF EditFilter, CtrlCElsewhere, MoveSelection, LeaveMode, TypeOK
<1> QED
  BY <1>1, <1>3, <1>4 DEF TypeOK, world, killing

\* The keys of the kill dialogue: the pid is one of a row on the screen.
LEMMA KillTypeOK == ASSUME TypeOK, AskKill \/ CancelKill \/ ConfirmKill PROVE TypeOK'
<1>1. /\ UNCHANGED <<world, table, tab, signalled, shown>>
      /\ phase' \in Phases /\ mode' \in Modes
  BY DEF AskKill, CancelKill, ConfirmKill, Handled, Phases, Modes
<1>2. CASE AskKill
  <2>1. CASE sel < Len(filtered_processes)
    <3>1. filtered_processes \in Seq(Row) /\ sel + 1 \in 1..Len(filtered_processes)
      BY <2>1, FilteredRows DEF TypeOK
    <3>2. filtered_processes[sel + 1] \in Row
      BY <3>1, ElementOfSeq
    <3> QED
      BY <1>1, <1>2, <2>1, <3>2 DEF AskKill, TypeOK, Row, Process, world, table
  <2>2. CASE ~(sel < Len(filtered_processes))
    BY <1>1, <1>2, <2>2 DEF AskKill, TypeOK, world, table
  <2> QED
    BY <2>1, <2>2
<1>3. CASE CancelKill
  BY <1>1, <1>3 DEF CancelKill, TypeOK, world, table
<1>4. CASE ConfirmKill
  BY <1>1, <1>4 DEF ConfirmKill, TypeOK, world, table
<1> QED
  BY <1>2, <1>3, <1>4

\* Every step keeps the types.
LEMMA NextTypeOK == TypeOK /\ [Next]_vars => TypeOK'
<1> SUFFICES ASSUME TypeOK, [Next]_vars PROVE TypeOK'
  OBVIOUS
<1>1. CASE Draw
  BY <1>1 DEF Draw, TypeOK, Phases, world, table
<1>2. CASE SendSignal
  BY <1>2 DEF SendSignal, TypeOK, Phases, world, table
<1>3. CASE Quit \/ IgnoredKey
  BY <1>3 DEF Quit, IgnoredKey, TypeOK, Phases, world, table, killing
<1>4. CASE ChangeTab
  BY <1>4 DEF ChangeTab, Handled, next_tab, prev_tab, TypeOK, Phases, Tabs, world, table, killing
<1>5. CASE \E m \in {"ProcessSort", "ProcessFilter", "Help"} : EnterMode(m)
  BY <1>5 DEF EnterMode, Handled, TypeOK, Phases, Modes, world, table, killing
<1>6. CASE UNCHANGED vars
  BY <1>6 DEF vars, TypeOK
<1> QED
  BY <1>1, <1>2, <1>3, <1>4, <1>5, <1>6, WorldTypeOK, TickTypeOK, SortTypeOK, FilterTypeOK,
     KillTypeOK DEF Next, Key, Ended

\* Every variable keeps its type: the selection is never negative, the table never
\* grows by sorting, and what K picks from the filtered table is a row, however the
\* filter, the table and the selection have changed against each other.
THEOREM TypeCorrect == Spec => []TypeOK
BY InitTypeOK, NextTypeOK, PTL DEF Spec

=============================================================================
