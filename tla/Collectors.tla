------------------------------- MODULE Collectors -------------------------------
(***************************************************************************)
(* The collectors of dgxtop that turn counters of the kernel into rates    *)
(* (src/collectors): disk and network throughput, the usage of each core,  *)
(* the CPU power that is derived from energy counters, and the CPU time of *)
(* GPU processes.  Each keeps the readings of an earlier tick and the time *)
(* it thinks they were taken; collect_all calls one after the other on     *)
(* every tick.                                                             *)
(*                                                                         *)
(* One counter stands for the counters of a device.  A rate is kept as the *)
(* pair (delta, elapsed) that the code divides.  A reading carries, beyond *)
(* the code's fields, what the source had really moved by then and when it *)
(* was taken (moved, at), and whether it succeeded (good).                 *)
(*                                                                         *)
(* The collectors share nothing but the clock: bound `subject` lets the    *)
(* world of one of them move in a behaviour, and its files fail.           *)
(***************************************************************************)
EXTENDS Integers, Sequences, FiniteSets

CONSTANTS
  Disks, Nics, Domains, Pids,  \* block devices, interfaces, energy domains, processes
  Cores,                       \* numbers of the CPU cores
  EnergyRange,                 \* where energy counters wrap around
  MaxMoved,                    \* bound: what a source moves in a run
  MaxTime,                     \* bound: length of the run
  MaxRows                      \* bound: rows of the process table

ASSUME RangeAssumption == EnergyRange \in Nat \ {0}
ASSUME CoreAssumption ==
  /\ IsFiniteSet(Cores) /\ Cores \subseteq Nat
  /\ Cores \cap (Disks \cup Nics \cup Domains \cup Pids) = {}
ASSUME BoundAssumption == MaxMoved \in Nat /\ MaxTime \in Nat /\ MaxRows \in Nat

VARIABLES
  subject,     \* bound: the sources that move in this behaviour
  now,         \* the clock
  counter,     \* counter[x]: the kernel's counter of each source that exists
  moved,       \* moved[x]: what sources called x have moved since the start
  prev_disks, disk_time,   \* DiskCollector: prev_counters, prev_time
  prev_nets, net_time,     \* NetworkCollector: prev_counters, prev_time
  prev_cores,              \* CpuCollector: prev_cores
  prev_power, cpu_time,    \* CpuCollector: prev_power_counters, prev_time
  prev_procs,  \* GpuProcessCollector: prev_cpu_times
  disk_rates, net_rates, core_rates, power,  \* the rates last reported
  procs        \* the rows of the process table, with their CPU time rates

world == <<subject, counter, moved>>
diskVars == <<prev_disks, disk_time, disk_rates>>
netVars == <<prev_nets, net_time, net_rates>>
coreVars == <<prev_cores, core_rates>>
powerVars == <<prev_power, cpu_time, power>>
procVars == <<prev_procs, procs>>
vars == <<subject, now, counter, moved, prev_disks, disk_time, prev_nets, net_time,
          prev_cores, prev_power, cpu_time, prev_procs, disk_rates, net_rates,
          core_rates, power, procs>>

Sources == Disks \cup Nics \cup Domains \cup Pids \cup Cores
Empty == [x \in {} |-> 0]

\* saturating_sub
Minus(a, b) == IF a < b THEN 0 ELSE a - b

\* The readings of the sources in S, of which those in bad cannot be read.
Readings(S, bad) ==
  [x \in S \cap DOMAIN counter |->
     [count |-> IF x \in bad THEN 0 ELSE counter[x],
      moved |-> moved[x], at |-> now, good |-> x \notin bad]]

Rate(delta, elapsed, prev, cur) ==
  [delta |-> delta, elapsed |-> elapsed, moved |-> cur.moved - prev.moved,
   span |-> cur.at - prev.at, good |-> prev.good]
NoRate == [delta |-> 0, elapsed |-> 0, moved |-> 0, span |-> 0, good |-> TRUE]

Init ==
  /\ subject \in {Disks, Nics, Domains, Pids, Cores}
  /\ now = 0 /\ moved = [x \in Sources |-> 0]
  /\ counter = [x \in subject |-> 0]
  /\ prev_disks = Empty /\ prev_nets = Empty /\ prev_power = Empty /\ prev_procs = Empty
  /\ prev_cores = Empty /\ core_rates = Empty
  /\ disk_time = 0 /\ net_time = 0 /\ cpu_time = 0
  /\ disk_rates = Empty /\ net_rates = Empty /\ power = Empty /\ procs = <<>>

-----------------------------------------------------------------------------
(* The machine. *)

TimePasses ==
  /\ now < MaxTime
  /\ now' = now + 1
  /\ UNCHANGED <<world, diskVars, netVars, coreVars, powerVars, procVars>>

\* A source moves a sector, a packet, a microjoule, a clock tick.
Works(x) ==
  /\ x \in DOMAIN counter /\ moved[x] < MaxMoved
  /\ counter' = [counter EXCEPT ![x] = @ + 1]
  /\ moved' = [moved EXCEPT ![x] = @ + 1]
  /\ UNCHANGED <<subject, now, diskVars, netVars, coreVars, powerVars, procVars>>

\* Devices are unplugged, cores go offline, processes exit; the energy domains stay.
Leaves(x) ==
  /\ x \in DOMAIN counter \ Domains
  /\ counter' = [y \in DOMAIN counter \ {x} |-> counter[y]]
  /\ UNCHANGED <<subject, now, moved, diskVars, netVars, coreVars, powerVars, procVars>>

\* Another device or process of the same name, or pid, starts from 0; a core comes
\* back with the times it had.
Comes(x) ==
  /\ x \in subject \ DOMAIN counter
  /\ LET start == IF x \in Cores THEN moved[x] ELSE 0
     IN  counter' = [y \in DOMAIN counter \cup {x} |-> IF y = x THEN start ELSE counter[y]]
  /\ UNCHANGED <<subject, now, moved, diskVars, netVars, coreVars, powerVars, procVars>>

-----------------------------------------------------------------------------
(* The collectors. *)

\* A disk is reported from its second reading on.  When /proc/diskstats cannot
\* be read the tick leaves everything as it was.
CollectDisks(ok) ==
  IF ~ok THEN UNCHANGED diskVars
  ELSE LET current == Readings(Disks, {})
           elapsed == now - disk_time
           known == IF elapsed > 0 THEN DOMAIN current \cap DOMAIN prev_disks ELSE {}
       IN  /\ disk_rates' =
                [d \in known |-> Rate(Minus(current[d].count, prev_disks[d].count), elapsed,
                                      prev_disks[d], current[d])]
           /\ prev_disks' = current /\ disk_time' = now

\* Mutant: the readings of interfaces that are gone are kept.
CollectNets_KeepsGone(ok, bad) ==
  LET current == IF ok THEN Readings(Nics, bad) ELSE Empty
      elapsed == now - net_time
      known == IF elapsed > 0 THEN DOMAIN current \cap DOMAIN prev_nets ELSE {}
  IN  /\ net_rates' =
           [n \in DOMAIN current |->
              IF n \notin known THEN NoRate
              ELSE Rate(Minus(current[n].count, prev_nets[n].count), elapsed,
                        prev_nets[n], current[n])]
      /\ prev_nets' = [n \in DOMAIN current \cup DOMAIN prev_nets |->
                         IF n \in DOMAIN current THEN current[n] ELSE prev_nets[n]]
      /\ net_time' = now

\* An interface is reported at once, with a rate of 0 the first time.  A
\* directory that cannot be listed is an empty one, a statistics file that
\* cannot be read counts as 0.
CollectNets(ok, bad) ==
  LET current == IF ok THEN Readings(Nics, bad) ELSE Empty
      elapsed == now - net_time
      known == IF elapsed > 0 THEN DOMAIN current \cap DOMAIN prev_nets ELSE {}
  IN  /\ net_rates' =
           [n \in DOMAIN current |->
              IF n \notin known THEN NoRate
              ELSE Rate(Minus(current[n].count, prev_nets[n].count), elapsed,
                        prev_nets[n], current[n])]
      /\ prev_nets' = current /\ net_time' = now

\* The cores in front of core c of S in /proc/stat, and so its place there.
InFront(c, S) == {d \in S : d < c}
Place(c, S) == Cardinality(InFront(c, S))

\* What core c is compared with: the reading that was in its place.
Paired(c, current) ==
  {p \in DOMAIN prev_cores : Place(p, DOMAIN prev_cores) = Place(c, DOMAIN current)}

\* The usage of a core: 0 if its place was empty.  It is good if it has to be the
\* core's own, no core in front of it having come or gone since the last report.
\* The total time of a core goes with the clock.
CoreRate(c, current) ==
  LET own == /\ c \in DOMAIN core_rates /\ c \in DOMAIN prev_cores
             /\ InFront(c, DOMAIN core_rates) = InFront(c, DOMAIN current)
      since == IF own THEN prev_cores[c] ELSE current[c]
      prev == IF Paired(c, current) = {} THEN current[c]
              ELSE prev_cores[CHOOSE p \in Paired(c, current) : TRUE]
  IN  [Rate(Minus(current[c].count, prev.count), Minus(now, prev.at), since, current[c])
         EXCEPT !.good = own]

\* Mutant: the readings are replaced only if there are as many as before.
CollectCores_SameNumber(ok) ==
  LET current == Readings(Cores, {})
  IN  IF ~ok THEN UNCHANGED coreVars
      ELSE /\ core_rates' = [c \in DOMAIN current |-> CoreRate(c, current)]
           /\ prev_cores' = IF /\ prev_cores # Empty
                               /\ Cardinality(DOMAIN current) # Cardinality(DOMAIN prev_cores)
                              THEN prev_cores ELSE current

\* The cores that are online, in the order of their numbers, which the code does
\* not look at.
CollectCores(ok) ==
  LET current == Readings(Cores, {})
  IN  IF ~ok THEN UNCHANGED coreVars
      ELSE /\ core_rates' = [c \in DOMAIN current |-> CoreRate(c, current)]
           /\ prev_cores' = current

\* Mutant: a lower reading is a counter that started again.
energy_delta_uj_NoWrap(prev, current, range) ==
  IF current >= prev THEN current - prev ELSE current
\* Mutant: a lower reading is not expected.
energy_delta_uj_Signed(prev, current, range) == current - prev

\* A reading below the last one has wrapped around; if its range is not known
\* it counts as started again.
energy_delta_uj(prev, current, range) ==
  IF current >= prev THEN current - prev
  ELSE IF range > prev THEN range - prev + current
  ELSE current

\* A counter and its max_energy_range_uj, 0 where that file cannot be read (hidden).
EnergyReading(k, hidden) ==
  [count |-> counter[k] % EnergyRange, moved |-> moved[k], at |-> now, good |-> TRUE,
   range |-> IF k \in hidden THEN 0 ELSE EnergyRange]

\* The larger of the two ranges read counts.  The rate is good unless the counter is
\* seen to be lower and neither range could be read.
EnergyRate(prev, current, elapsed) ==
  LET range == IF current.range < prev.range THEN prev.range ELSE current.range
  IN  [Rate(energy_delta_uj(prev.count, current.count, range), elapsed, prev, current)
         EXCEPT !.good = current.count >= prev.count \/ range > 0]

\* The energy counters are read only when no domain has power_uw (direct) and
\* /proc/stat could be read (ok).  When none of them can be read the old
\* readings stay, and prev_time moves on all the same.  The code adds up what
\* is kept here for each domain.
CollectPower(ok, direct, bad, hidden) ==
  LET current == [k \in (Domains \cap DOMAIN counter) \ bad |-> EnergyReading(k, hidden)]
      elapsed == now - cpu_time
      known == IF elapsed > 0 THEN DOMAIN current \cap DOMAIN prev_power ELSE {}
  IN  IF ~ok THEN UNCHANGED powerVars
      ELSE /\ cpu_time' = now
           /\ IF direct \/ DOMAIN current = {}
                THEN power' = Empty /\ UNCHANGED prev_power
                ELSE /\ prev_power' = current
                     /\ power' = [k \in known |-> EnergyRate(prev_power[k], current[k], elapsed)]

Tables == UNION {[1..n -> Pids \cap DOMAIN counter] : n \in 0..MaxRows}

\* /proc/uptime in clock ticks; 1 when it cannot be read.
SystemTicks(ok) == IF ok THEN now + 1 ELSE 1

\* The clean-up at the end of collect.
Retained(table, entries) ==
  [p \in {table[i] : i \in 1..Len(table)} \cap DOMAIN entries |-> entries[p]]

\* What insert leaves for a process.
Inserted(p, ticks) ==
  LET read == Readings(Pids, {})[p]
  IN  [count |-> read.count, moved |-> read.moved, at |-> read.at, good |-> TRUE,
       ticks |-> ticks]

\* The rows of the table are read one after the other.  A process that cannot be
\* read (bad) gets 0 and keeps its entry; one that was read for an earlier row
\* gets 0 as well, no time having passed.
CollectProcs(ok, bad, table) ==
  LET ticks == SystemTicks(ok)
      read == {table[i] : i \in 1..Len(table)} \ bad
      again(i) == \E j \in 1..(i - 1) : table[j] = table[i]
      entries == [p \in DOMAIN prev_procs \cup read |->
                    IF p \in read THEN Inserted(p, ticks) ELSE prev_procs[p]]
      rate(p) == LET prev == prev_procs[p]
                 IN  Rate(Minus(counter[p], prev.count), Minus(ticks, prev.ticks),
                          prev, Inserted(p, ticks))
  IN  /\ procs' =
           [i \in DOMAIN table |->
              IF \/ table[i] \notin read \/ again(i) \/ table[i] \notin DOMAIN prev_procs
              THEN NoRate
              ELSE IF Minus(ticks, prev_procs[table[i]].ticks) = 0 THEN NoRate
              ELSE rate(table[i])]
      /\ prev_procs' = Retained(table, entries)

\* One tick.  One choice of what can be read (ok, bad) serves every collector.
\* Processes that NVML lists may have exited when their files are read, and a
\* process is listed once for each GPU it uses.
collect_all ==
  \E ok, direct \in BOOLEAN, bad \in SUBSET (DOMAIN counter \ (Disks \cup Cores)),
     hidden \in SUBSET (DOMAIN counter \cap Domains), table \in Tables :
    /\ direct => subject = Domains
    /\ CollectCores(ok) /\ CollectPower(ok, direct, bad, hidden)
    /\ CollectDisks(ok)
    /\ CollectNets(ok, bad)
    /\ CollectProcs(ok, bad, table)
    /\ UNCHANGED <<world, now>>

Next ==
  \/ TimePasses
  \/ \E x \in Sources : Works(x) \/ Leaves(x) \/ Comes(x)
  \/ collect_all

Spec == Init /\ [][Next]_vars

-----------------------------------------------------------------------------
(* Properties. *)

Reading == [count : Nat, moved : Nat, at : Nat, good : BOOLEAN]
EnergyReadings == [count : Nat, moved : Nat, at : Nat, good : BOOLEAN, range : Nat]
Entry == [count : Nat, moved : Nat, at : Nat, good : BOOLEAN, ticks : Nat]
Rates == [delta : Nat, elapsed : Nat, moved : Nat, span : Nat, good : BOOLEAN]

\* What the collectors keep and report: every difference that reaches a rate is
\* a natural number (u64 in the code), whatever the counters did in between.
TypeOK ==
  /\ subject \in {Disks, Nics, Domains, Pids, Cores}
  /\ {now, disk_time, net_time, cpu_time} \subseteq 0..MaxTime
  /\ moved \in [Sources -> 0..MaxMoved]
  /\ DOMAIN counter \subseteq subject /\ \A x \in DOMAIN counter : counter[x] \in 0..moved[x]
  /\ DOMAIN prev_disks \subseteq Disks /\ \A d \in DOMAIN prev_disks : prev_disks[d] \in Reading
  /\ DOMAIN prev_nets \subseteq Nics /\ \A n \in DOMAIN prev_nets : prev_nets[n] \in Reading
  /\ DOMAIN prev_cores \subseteq Cores /\ \A c \in DOMAIN prev_cores : prev_cores[c] \in Reading
  /\ DOMAIN prev_power \subseteq Domains /\ \A k \in DOMAIN prev_power : prev_power[k] \in EnergyReadings
  /\ DOMAIN prev_procs \subseteq Pids /\ \A p \in DOMAIN prev_procs : prev_procs[p] \in Entry
  /\ \A d \in DOMAIN disk_rates : disk_rates[d] \in Rates
  /\ \A n \in DOMAIN net_rates : net_rates[n] \in Rates
  /\ \A c \in DOMAIN core_rates : core_rates[c] \in Rates
  /\ \A k \in DOMAIN power : power[k] \in Rates
  /\ \A i \in DOMAIN procs : procs[i] \in Rates

\* The throughput shown for a disk is of the time between the two readings it
\* was computed from, however many ticks failed in between, and is never more
\* than was moved in that time, although disks of the same name come and go.
DiskRatesAreReal ==
  \A d \in DOMAIN disk_rates :
    LET r == disk_rates[d] IN r.elapsed = r.span /\ r.delta <= r.moved

\* The same for an interface, as long as its statistics could be read: a reading
\* that failed counts as 0, and the next one as all the bytes since the boot.
NetRatesAreReal ==
  \A n \in DOMAIN net_rates :
    LET r == net_rates[n] IN r.good => r.elapsed = r.span /\ r.delta <= r.moved

\* The usage of a core is computed from its own times, as long as no core in front
\* of it came or went since the last report: cores that go offline or come back
\* disturb the rows behind them, and these for one report only.
CoreRatesAreReal ==
  \A c \in DOMAIN core_rates :
    LET r == core_rates[c] IN r.good => r.delta = r.moved /\ r.elapsed = r.span

\* The energy the power is computed from is never more than was used since the readings
\* before, and never spread over more time than it was used in.  It is all that was
\* used, also over a wrap-around of the counter, unless more than its range was used or
\* the range could be read neither time: then a wrap-around loses energy.
PowerCoversEnergy ==
  \A k \in DOMAIN power :
    LET r == power[k]
    IN  /\ r.delta <= r.moved /\ r.elapsed <= r.span
        /\ r.good /\ r.moved < EnergyRange => r.delta = r.moved

\* Every throughput.
ThroughputIsReal == DiskRatesAreReal /\ NetRatesAreReal

\* The CPU percentage of a process is never above what its pid used: the time
\* it is divided by is at least the time between the readings, and a process
\* that took over a pid is not charged with what its predecessor used.
CpuIsReal ==
  \A i \in DOMAIN procs :
    LET r == procs[i] IN r.delta <= r.moved /\ r.span <= r.elapsed

\* Every CPU usage shown: of the processes and of the cores.
UsageIsReal == CpuIsReal /\ CoreRatesAreReal

\* The times kept for processes are those of the rows shown: entries do not pile
\* up while processes come and go, and an entry is dropped with its row.
EntriesBounded == Cardinality(DOMAIN prev_procs) <= Len(procs)

=============================================================================
