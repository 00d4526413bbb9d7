--------------------------- MODULE Collectors_proofs ---------------------------
(***************************************************************************)
(* Proofs about Collectors: the rates of disks, interfaces, domains and    *)
(* processes are real, for every set of sources and every range.           *)
(*                                                                         *)
(* What a collector keeps of a source is a reading that is behind it: the  *)
(* counter has gone up by no more than the source moved since the reading  *)
(* (by less, if it restarted).  A rate is computed from two readings of    *)
(* which the earlier is behind the source at the time of the later.        *)
(***************************************************************************)
EXTENDS Collectors, FiniteSetTheorems, TLAPS

\* Since reading r of source x, whose counter and movements are now given by c
\* and m, the counter went up by no more than was moved.
Behind(r, x, c, m) ==
  /\ r.moved <= m[x]
  /\ x \in DOMAIN c => c[x] + r.moved <= m[x] + r.count

Machine ==
  /\ now \in Nat
  /\ moved \in [Sources -> Nat]
  /\ DOMAIN counter \subseteq Sources
  /\ \A x \in DOMAIN counter : counter[x] \in Nat /\ counter[x] <= moved[x]

DisksKept ==
  /\ disk_time \in Nat /\ disk_time <= now
  /\ DOMAIN prev_disks \subseteq Disks
  /\ \A d \in DOMAIN prev_disks :
       /\ prev_disks[d] \in Reading /\ prev_disks[d].at = disk_time
       /\ Behind(prev_disks[d], d, counter, moved)

NetsKept ==
  /\ net_time \in Nat /\ net_time <= now
  /\ DOMAIN prev_nets \subseteq Nics
  /\ \A n \in DOMAIN prev_nets :
       /\ prev_nets[n] \in Reading /\ prev_nets[n].at = net_time
       /\ prev_nets[n].moved <= moved[n]
       /\ prev_nets[n].good => Behind(prev_nets[n], n, counter, moved)

ProcsKept ==
  /\ DOMAIN prev_procs \subseteq Pids
  /\ \A p \in DOMAIN prev_procs :
       /\ prev_procs[p] \in Entry /\ prev_procs[p].at <= now
       /\ 1 <= prev_procs[p].ticks /\ prev_procs[p].ticks <= prev_procs[p].at + 1
       /\ Behind(prev_procs[p], p, counter, moved)

\* A core keeps its times while it is offline, so that what it worked is the
\* difference of two readings.
CoresKept ==
  /\ \A c \in Cores \cap DOMAIN counter : counter[c] = moved[c]
  /\ DOMAIN prev_cores \subseteq Cores /\ DOMAIN core_rates = DOMAIN prev_cores
  /\ \A c \in DOMAIN prev_cores :
       /\ prev_cores[c] \in Reading /\ prev_cores[c].at <= now
       /\ prev_cores[c].count = prev_cores[c].moved /\ prev_cores[c].moved <= moved[c]

\* Energy domains neither leave nor come, so that a reading is what was moved by
\* then modulo the range.
PowerKept ==
  /\ cpu_time \in Nat /\ cpu_time <= now
  /\ subject \cap Domains \subseteq DOMAIN counter
  /\ \A k \in Domains \cap DOMAIN counter : counter[k] = moved[k]
  /\ DOMAIN prev_power \subseteq Domains \cap DOMAIN counter
  /\ \A k \in DOMAIN prev_power :
       /\ prev_power[k] \in EnergyReadings /\ prev_power[k].at <= cpu_time
       /\ prev_power[k].range \in {0, EnergyRange}
       /\ prev_power[k].moved <= moved[k]
       /\ prev_power[k].count = prev_power[k].moved % EnergyRange

IInv ==
  /\ Machine /\ DisksKept /\ NetsKept /\ ProcsKept /\ CoresKept /\ PowerKept
  /\ CoreRatesAreReal
  /\ DiskRatesAreReal /\ NetRatesAreReal /\ CpuIsReal /\ EntriesBounded /\ PowerCoversEnergy

-----------------------------------------------------------------------------
(* Lemmas. *)

\* What the machine does: some counter goes up with its source, goes away, or
\* starts from 0, unless it is a core's.
Runs(c, m, c2, m2) ==
  /\ m2 \in [Sources -> Nat] /\ DOMAIN c2 \subseteq Sources
  /\ \A x \in Sources : m[x] <= m2[x]
  /\ \A x \in DOMAIN c2 :
       /\ c2[x] \in Nat /\ c2[x] <= m2[x]
       /\ x \in Cores \/ c2[x] = 0 \/ (x \in DOMAIN c /\ c2[x] + m[x] = c[x] + m2[x])

LEMMA WorldRuns ==
  ASSUME Machine, NEW y \in Sources, Works(y) \/ Leaves(y) \/ Comes(y)
  PROVE  /\ Runs(counter, moved, counter', moved')
         /\ Machine'
<1>1. CASE Works(y)
  <2>1. /\ y \in DOMAIN counter /\ now' = now
        /\ counter' = [counter EXCEPT ![y] = @ + 1]
        /\ moved' = [moved EXCEPT ![y] = @ + 1]
    BY <1>1 DEF Works
  <2> QED
    BY <2>1 DEF Runs, Machine
<1>2. CASE Leaves(y)
  BY <1>2 DEF Leaves, Runs, Machine
<1>3. CASE Comes(y)
  <2>1. /\ now' = now /\ moved' = moved
        /\ counter' = [x \in DOMAIN counter \cup {y} |->
                         IF x = y THEN IF y \in Cores THEN moved[y] ELSE 0 ELSE counter[x]]
    BY <1>3 DEF Comes
  <2>2. \A x \in DOMAIN counter' :
           /\ x \in Sources
           /\ \/ x \in Cores /\ counter'[x] = moved[x]
              \/ counter'[x] = 0
              \/ x \in DOMAIN counter /\ counter'[x] = counter[x]
    BY <2>1 DEF Machine
  <2>3. \A x \in DOMAIN counter' : counter'[x] \in Nat /\ counter'[x] <= moved'[x]
    BY <2>1, <2>2 DEF Machine
  <2> QED
    BY <2>1, <2>2, <2>3 DEF Runs, Machine
<1> QED
  BY <1>1, <1>2, <1>3

\* A reading that is behind its source stays so while the machine runs.
LEMMA StaysBehind ==
  ASSUME NEW c, NEW m \in [Sources -> Nat], NEW c2, NEW m2, Runs(c, m, c2, m2),
         \A x \in DOMAIN c : c[x] \in Nat,
         NEW x \in Sources \ Cores, NEW r, r.moved \in Nat, r.count \in Nat, Behind(r, x, c, m)
  PROVE  Behind(r, x, c2, m2)
<1>1. m[x] \in Nat /\ m2[x] \in Nat /\ m[x] <= m2[x]
  BY DEF Runs
<1>2. r.moved <= m[x]
  BY DEF Behind
<1>3. ASSUME x \in DOMAIN c2
      PROVE  c2[x] + r.moved <= m2[x] + r.count
  <2>1. CASE c2[x] = 0
    BY <2>1, <1>1, <1>2
  <2>2. CASE x \in DOMAIN c /\ c2[x] + m[x] = c[x] + m2[x]
    <3>1. c[x] + r.moved <= m[x] + r.count
      BY <2>2 DEF Behind
    <3>2. c[x] \in Nat /\ c2[x] \in Nat
      BY <2>2, <1>3 DEF Runs
    <3> QED
      BY <3>1, <3>2, <2>2, <1>1
  <2> QED
    BY <1>3, <2>1, <2>2 DEF Runs
<1> QED
  BY <1>1, <1>2, <1>3 DEF Behind

\* A reading just taken of x that succeeded is behind it.
LEMMA FreshReading ==
  ASSUME Machine, NEW S, NEW bad, NEW x \in S \cap DOMAIN counter
  PROVE  /\ Readings(S, bad)[x] \in Reading
         /\ Readings(S, bad)[x].at = now
         /\ Readings(S, bad)[x].moved = moved[x]
         /\ Readings(S, bad)[x].good => x \notin bad
         /\ x \notin bad => Readings(S, bad)[x].count = counter[x]
         /\ x \notin bad => Behind(Readings(S, bad)[x], x, counter, moved)
<1> DEFINE g == x \notin bad
           n == IF x \in bad THEN 0 ELSE counter[x]
           r == [count |-> n, moved |-> moved[x], at |-> now, good |-> g]
<1>1. Readings(S, bad)[x] = r
  BY DEF Readings
<1>2. counter[x] \in Nat /\ moved[x] \in Nat /\ now \in Nat /\ counter[x] <= moved[x]
  BY DEF Machine
<1>3. g \in BOOLEAN /\ n \in Nat /\ (x \notin bad => n = counter[x]) /\ (g => x \notin bad)
  BY <1>2
<1>4. r.count = n /\ r.moved = moved[x] /\ r.at = now /\ r.good = g
  BY Zenon
<1> HIDE DEF n, g
<1>5. r \in Reading
  BY <1>2, <1>3 DEF Reading
<1>6. x \notin bad => Behind(r, x, counter, moved)
  BY <1>2, <1>3 DEF Behind
<1>7. r.good => x \notin bad
  BY <1>3, <1>4, Zenon
<1> HIDE DEF r
<1> QED
  BY <1>1, <1>3, <1>4, <1>5, <1>6, <1>7

\* The difference of two readings is at most what was moved between them.
LEMMA DeltaIsReal ==
  ASSUME NEW a \in Nat, NEW b \in Nat, NEW m \in Nat, NEW n \in Nat,
         n <= m, a + n <= m + b
  PROVE  Minus(a, b) \in Nat /\ Minus(a, b) <= m - n
BY DEF Minus

\* The fields of a rate.
LEMMA RateFields ==
  ASSUME NEW delta, NEW elapsed, NEW prev, NEW cur
  PROVE  LET r == Rate(delta, elapsed, prev, cur)
         IN  /\ r.delta = delta /\ r.elapsed = elapsed /\ r.good = prev.good
             /\ r.moved = cur.moved - prev.moved /\ r.span = cur.at - prev.at
BY DEF Rate

\* Division with remainder.
LEMMA DivMod ==
  ASSUME NEW R \in Nat \ {0}, NEW a \in Nat
  PROVE  /\ a % R \in Nat /\ a % R < R /\ a \div R \in Nat
         /\ a = R * (a \div R) + (a % R)
OBVIOUS

\* Two numbers less than R apart have the same quotient, or the larger one the next.
LEMMA Quotients ==
  ASSUME NEW R \in Nat \ {0}, NEW qa \in Nat, NEW qb \in Nat, NEW ra \in Nat, NEW rb \in Nat,
         ra < R, rb < R,
         0 <= (R * qb + rb) - (R * qa + ra), (R * qb + rb) - (R * qa + ra) < R
  PROVE  IF rb >= ra THEN qb = qa ELSE qb = qa + 1
<1>1. CASE qb < qa
  <2>1. PICK k \in Nat : qa = qb + 1 + k
    <3>1. qa - qb - 1 \in Nat
      BY <1>1
    <3> QED
      BY <3>1
  <2>2. R * qa = R * qb + R + R * k /\ R * k >= 0
    BY <2>1
  <2> QED
    BY <2>2
<1>2. CASE qb > qa + 1
  <2>1. PICK k \in Nat : qb = qa + 2 + k
    <3>1. qb - qa - 2 \in Nat
      BY <1>2
    <3> QED
      BY <3>1
  <2>2. R * qb = R * qa + R + R + R * k /\ R * k >= 0
    BY <2>1
  <2> QED
    BY <2>2
<1>3. CASE qb = qa
  BY <1>3
<1>4. CASE qb = qa + 1
  <2>1. R * qb = R * qa + R
    BY <1>4
  <2> QED
    BY <2>1, <1>4
<1> QED
  BY <1>1, <1>2, <1>3, <1>4

\* The larger of two numbers has no smaller quotient, and a larger one if its rest is
\* smaller.
LEMMA QuotientsGrow ==
  ASSUME NEW R \in Nat \ {0}, NEW qa \in Nat, NEW qb \in Nat, NEW ra \in Nat, NEW rb \in Nat,
         ra < R, rb < R, R * qa + ra <= R * qb + rb
  PROVE  IF rb >= ra THEN R * qa <= R * qb ELSE R * qa + R <= R * qb
<1>1. CASE qb < qa
  <2>1. PICK k \in Nat : qa = qb + 1 + k
    <3>1. qa - qb - 1 \in Nat
      BY <1>1
    <3> QED
      BY <3>1
  <2>2. R * qa = R * qb + R + R * k /\ R * k >= 0
    BY <2>1
  <2> QED
    BY <2>2
<1>2. CASE qb = qa
  BY <1>2
<1>3. CASE qb > qa
  <2>1. PICK k \in Nat : qb = qa + 1 + k
    <3>1. qb - qa - 1 \in Nat
      BY <1>3
    <3> QED
      BY <3>1
  <2>2. R * qb = R * qa + R + R * k /\ R * k >= 0
    BY <2>1
  <2> QED
    BY <2>2
<1> QED
  BY <1>1, <1>2, <1>3

\* The energy counted for a domain is never more than was moved.  It is all that was
\* moved, if that is less than the range, unless the counter is seen to be lower while
\* the range is not known.
LEMMA EnergyDelta ==
  ASSUME NEW R \in Nat \ {0}, NEW r \in {0, R}, NEW a \in Nat, NEW b \in Nat, a <= b,
         NEW prev, prev = a % R, NEW current, current = b % R,
         NEW d, d = energy_delta_uj(prev, current, r)
  PROVE  /\ d \in Nat /\ d <= b - a
         /\ b - a < R /\ (current >= prev \/ r > 0) => d = b - a
<1>1. PICK qa \in Nat, qb \in Nat :
        /\ prev \in Nat /\ prev < R /\ a = R * qa + prev
        /\ current \in Nat /\ current < R /\ b = R * qb + current
  <2> DEFINE x == a \div R
             y == b \div R
  <2>1. /\ x \in Nat /\ prev \in Nat /\ prev < R /\ a = R * x + prev
        /\ y \in Nat /\ current \in Nat /\ current < R /\ b = R * y + current
    BY DivMod
  <2> HIDE DEF x, y
  <2> QED
    BY ONLY <2>1
<1>2. /\ R \in Nat \ {0} /\ a \in Nat /\ b \in Nat /\ a <= b
      /\ R * qa \in Nat /\ R * qb \in Nat
  BY <1>1
<1>3. IF current >= prev THEN R * qa <= R * qb ELSE R * qa + R <= R * qb
  BY ONLY <1>1, <1>2, QuotientsGrow
<1>4. ASSUME b - a < R
      PROVE  IF current >= prev THEN R * qb = R * qa ELSE R * qb = R * qa + R
  <2>1. IF current >= prev THEN qb = qa ELSE qb = qa + 1
    BY ONLY <1>1, <1>2, <1>4, Quotients
  <2>2. R * (qa + 1) = R * qa + R
    BY ONLY <1>1, <1>2
  <2> QED
    BY ONLY <2>1, <2>2
<1>5. CASE current >= prev
  <2>1. d = current - prev
    BY <1>5 DEF energy_delta_uj
  <2> QED
    BY ONLY <1>1, <1>2, <1>3, <1>4, <1>5, <2>1
<1>6. CASE current < prev /\ r = R
  <2>1. d = R - prev + current
    BY <1>1, <1>6 DEF energy_delta_uj
  <2> QED
    BY ONLY <1>1, <1>2, <1>3, <1>4, <1>6, <2>1
<1>7. CASE current < prev /\ r = 0
  <2>1. d = current
    BY <1>1, <1>7 DEF energy_delta_uj
  <2> QED
    BY ONLY <1>1, <1>2, <1>3, <1>7, <2>1
<1> QED
  BY <1>1, <1>5, <1>6, <1>7

-----------------------------------------------------------------------------
(* The machine moves on: readings stay behind their sources. *)

LEMMA WorldIInv ==
  ASSUME IInv, NEW y \in Sources, Works(y) \/ Leaves(y) \/ Comes(y)
  PROVE  IInv'
<1>1. /\ Runs(counter, moved, counter', moved') /\ Machine'
      /\ moved \in [Sources -> Nat] /\ \A x \in DOMAIN counter : counter[x] \in Nat
  BY WorldRuns DEF IInv, Machine
<1>2. UNCHANGED <<now, diskVars, netVars, procVars>>
  BY DEF Works, Leaves, Comes
<1>3. DisksKept'
  <2> SUFFICES ASSUME NEW d \in DOMAIN prev_disks
               PROVE  Behind(prev_disks[d], d, counter', moved')
    BY <1>2 DEF IInv, DisksKept, diskVars
  <2>1. /\ d \in Sources \ Cores /\ prev_disks[d].moved \in Nat /\ prev_disks[d].count \in Nat
        /\ Behind(prev_disks[d], d, counter, moved)
    BY CoreAssumption DEF IInv, DisksKept, Reading, Sources
  <2> QED
    BY <1>1, <2>1, StaysBehind
<1>4. NetsKept'
  <2> SUFFICES ASSUME NEW n \in DOMAIN prev_nets
               PROVE  /\ prev_nets[n].moved <= moved'[n]
                      /\ prev_nets[n].good => Behind(prev_nets[n], n, counter', moved')
    BY <1>2 DEF IInv, NetsKept, netVars
  <2>1. /\ n \in Sources \ Cores /\ prev_nets[n].moved \in Nat /\ prev_nets[n].count \in Nat
        /\ prev_nets[n].moved <= moved[n]
        /\ prev_nets[n].good => Behind(prev_nets[n], n, counter, moved)
    BY CoreAssumption DEF IInv, NetsKept, Reading, Sources
  <2>2. moved[n] \in Nat /\ moved'[n] \in Nat /\ moved[n] <= moved'[n]
    BY <1>1, <2>1 DEF Runs
  <2>3. prev_nets[n].moved <= moved'[n]
    BY <2>1, <2>2
  <2> QED
    BY <1>1, <2>1, <2>3, StaysBehind
<1>5. ProcsKept'
  <2> SUFFICES ASSUME NEW p \in DOMAIN prev_procs
               PROVE  Behind(prev_procs[p], p, counter', moved')
    BY <1>2 DEF IInv, ProcsKept, procVars
  <2>1. /\ p \in Sources \ Cores /\ prev_procs[p].moved \in Nat /\ prev_procs[p].count \in Nat
        /\ Behind(prev_procs[p], p, counter, moved)
    BY CoreAssumption DEF IInv, ProcsKept, Entry, Sources
  <2> QED
    BY <1>1, <2>1, StaysBehind
<1>6. PowerKept'
  <2>1. UNCHANGED <<subject, now, prev_power, cpu_time>>
    BY DEF Works, Leaves, Comes, world, powerVars
  <2>2. CASE Works(y)
    <3>1. /\ y \in DOMAIN counter
          /\ counter' = [counter EXCEPT ![y] = @ + 1]
          /\ moved' = [moved EXCEPT ![y] = @ + 1]
      BY <2>2 DEF Works
    <3> QED
      BY <2>1, <3>1 DEF IInv, Machine, PowerKept, EnergyReadings
  <2>3. CASE Leaves(y)
    BY <2>1, <2>3 DEF Leaves, IInv, PowerKept
  <2>4. CASE Comes(y)
    <3>1. y \notin Domains
      BY <2>4 DEF Comes, IInv, PowerKept
    <3> QED
      BY <2>1, <2>4, <3>1 DEF Comes, IInv, PowerKept
  <2> QED
    BY <2>2, <2>3, <2>4
<1>7. UNCHANGED power
  BY DEF Works, Leaves, Comes, powerVars
<1>8. CoresKept' /\ CoreRatesAreReal'
  <2>1. UNCHANGED <<now, prev_cores, core_rates>>
    BY DEF Works, Leaves, Comes, coreVars
  <2>2. \A c \in Cores \cap DOMAIN counter' : counter'[c] = moved'[c]
    <3>1. CASE Works(y)
      BY <3>1 DEF Works, IInv, Machine, CoresKept
    <3>2. CASE Leaves(y)
      BY <3>2 DEF Leaves, IInv, CoresKept
    <3>3. CASE Comes(y)
      BY <3>3 DEF Comes, IInv, CoresKept
    <3> QED
      BY <3>1, <3>2, <3>3
  <2>3. \A c \in DOMAIN prev_cores :
          /\ prev_cores[c].moved \in Nat /\ moved[c] \in Nat /\ moved'[c] \in Nat
          /\ prev_cores[c].moved <= moved[c] /\ moved[c] <= moved'[c]
    BY <1>1 DEF IInv, CoresKept, Reading, Runs, Sources
  <2>4. \A c \in DOMAIN prev_cores : prev_cores[c].moved <= moved'[c]
    BY <2>3
  <2> QED
    BY <2>1, <2>2, <2>4 DEF IInv, CoresKept, CoreRatesAreReal
<1> QED
  BY <1>1, <1>2, <1>3, <1>4, <1>5, <1>6, <1>7, <1>8
     DEF IInv, DiskRatesAreReal, NetRatesAreReal, CpuIsReal, EntriesBounded,
         PowerCoversEnergy, diskVars, netVars, procVars

-----------------------------------------------------------------------------
(* A tick. *)

\* Disks are dated by one time for all of them, which a failed tick leaves alone.
LEMMA DisksStep ==
  ASSUME IInv, NEW ok \in BOOLEAN, CollectDisks(ok), UNCHANGED <<world, now>>
  PROVE  DisksKept' /\ DiskRatesAreReal'
<1> DEFINE current == Readings(Disks, {})
           known == IF now - disk_time > 0 THEN DOMAIN current \cap DOMAIN prev_disks ELSE {}
<1>0. counter' = counter /\ moved' = moved /\ now' = now
  BY DEF world
<1>1. CASE ~ok
  BY <1>0, <1>1 DEF IInv, CollectDisks, diskVars, DisksKept, DiskRatesAreReal
<1>2. CASE ok
  <2>1. /\ prev_disks' = current /\ disk_time' = now
        /\ disk_rates' = [d \in known |->
             Rate(Minus(current[d].count, prev_disks[d].count), now - disk_time,
                  prev_disks[d], current[d])]
    BY <1>2 DEF CollectDisks
  <2>2. DOMAIN current = Disks \cap DOMAIN counter
    BY DEF Readings
  <2>3. ASSUME NEW d \in DOMAIN current
        PROVE  /\ current[d] \in Reading /\ current[d].at = now /\ current[d].moved = moved[d]
               /\ current[d].count = counter[d] /\ Behind(current[d], d, counter, moved)
    BY <2>2, <2>3, FreshReading DEF IInv
  <2>4. DisksKept'
    BY <1>0, <2>1, <2>2, <2>3 DEF IInv, Machine, DisksKept
  <2>5. ASSUME NEW d \in known
        PROVE  disk_rates'[d].elapsed = disk_rates'[d].span
               /\ disk_rates'[d].delta <= disk_rates'[d].moved
    <3> DEFINE prev == prev_disks[d]
               cur == current[d]
    <3>1. d \in DOMAIN current /\ d \in DOMAIN prev_disks
      OBVIOUS
    <3>2. /\ cur.at = now /\ cur.moved = moved[d] /\ cur.count = counter[d]
          /\ cur.moved \in Nat /\ cur.count \in Nat
      BY <3>1, <2>3 DEF Reading
    <3>3. /\ prev.at = disk_time /\ prev.moved \in Nat /\ prev.count \in Nat
          /\ prev.moved <= moved[d] /\ counter[d] + prev.moved <= moved[d] + prev.count
      BY <3>1, <2>2 DEF IInv, DisksKept, Reading, Behind
    <3>4. Minus(cur.count, prev.count) <= cur.moved - prev.moved
      BY <3>2, <3>3, DeltaIsReal
    <3>5. disk_rates'[d] = Rate(Minus(cur.count, prev.count), now - disk_time, prev, cur)
      BY <2>1
    <3> HIDE DEF prev, cur
    <3> QED
      BY <3>2, <3>3, <3>4, <3>5, RateFields
  <2> QED
    BY <2>1, <2>4, <2>5 DEF DiskRatesAreReal
<1> QED
  BY <1>1, <1>2

\* Interfaces are re-dated on every tick; those that are gone are forgotten.
LEMMA NetsStep ==
  ASSUME IInv, NEW ok \in BOOLEAN, NEW bad, CollectNets(ok, bad), UNCHANGED <<world, now>>
  PROVE  NetsKept' /\ NetRatesAreReal'
<1> DEFINE current == IF ok THEN Readings(Nics, bad) ELSE Empty
           known == IF now - net_time > 0 THEN DOMAIN current \cap DOMAIN prev_nets ELSE {}
<1>0. counter' = counter /\ moved' = moved /\ now' = now
  BY DEF world
<1>1. /\ prev_nets' = current /\ net_time' = now
      /\ net_rates' = [n \in DOMAIN current |->
           IF n \notin known THEN NoRate
           ELSE Rate(Minus(current[n].count, prev_nets[n].count), now - net_time,
                     prev_nets[n], current[n])]
  BY DEF CollectNets
<1>2. DOMAIN current \subseteq Nics \cap DOMAIN counter
  BY DEF Readings, Empty
<1>3. ASSUME NEW n \in DOMAIN current
      PROVE  /\ current[n] \in Reading /\ current[n].at = now /\ current[n].moved = moved[n]
             /\ current[n].count \in {0, counter[n]}
             /\ current[n].good => Behind(current[n], n, counter, moved)
  <2>1. ok /\ current = Readings(Nics, bad)
    BY <1>3 DEF Empty
  <2>2. n \in Nics \cap DOMAIN counter
    BY <1>2, <1>3
  <2>3. n \in bad => Readings(Nics, bad)[n].count = 0
    BY <2>2 DEF Readings
  <2> QED
    BY <2>1, <2>2, <2>3, FreshReading DEF IInv
<1>4. NetsKept'
  <2>1. \A n \in DOMAIN current : current[n].moved <= moved[n]
    BY <1>2, <1>3 DEF IInv, Machine, Sources
  <2> HIDE DEF current
  <2> QED
    BY <1>0, <1>1, <1>2, <1>3, <2>1 DEF IInv, Machine, NetsKept
<1>5. ASSUME NEW n \in DOMAIN current, net_rates'[n].good
      PROVE  net_rates'[n].elapsed = net_rates'[n].span
             /\ net_rates'[n].delta <= net_rates'[n].moved
  <2>1. CASE n \notin known
    BY <1>1, <2>1 DEF NoRate
  <2>2. CASE n \in known
    <3> DEFINE prev == prev_nets[n]
               cur == current[n]
    <3>1. n \in DOMAIN prev_nets
      BY <2>2
    <3>2. net_rates'[n] = Rate(Minus(cur.count, prev.count), now - net_time, prev, cur)
      BY <1>1, <2>2
    <3>3. prev.good
      BY <1>5, <3>2, RateFields
    <3>4. /\ cur.at = now /\ cur.moved = moved[n] /\ cur.count \in {0, counter[n]}
          /\ cur.moved \in Nat /\ cur.count \in Nat
      BY <1>3 DEF Reading
    <3>5. /\ prev.at = net_time /\ prev.moved \in Nat /\ prev.count \in Nat
          /\ prev.moved <= moved[n] /\ counter[n] + prev.moved <= moved[n] + prev.count
      BY <3>1, <3>3, <1>2, <1>5 DEF IInv, NetsKept, Reading, Behind
    <3> cur.count + prev.moved <= cur.moved + prev.count
      BY <3>4, <3>5
    <3>6. Minus(cur.count, prev.count) <= cur.moved - prev.moved
      BY <3>4, <3>5, DeltaIsReal
    <3> HIDE DEF prev, cur
    <3> QED
      BY <3>2, <3>4, <3>5, <3>6, RateFields
  <2> QED
    BY <2>1, <2>2
<1> QED
  BY <1>1, <1>4, <1>5 DEF NetRatesAreReal

\* Of the cores of a finite set no two are in the same place.
LEMMA OwnPlace ==
  ASSUME NEW S \in SUBSET Cores, NEW c \in S, NEW d \in S, Place(c, S) = Place(d, S)
  PROVE  c = d
<1>1. IsFiniteSet(InFront(c, S)) /\ IsFiniteSet(InFront(d, S))
  BY CoreAssumption, FS_Subset DEF InFront
<1>2. c \in Nat /\ d \in Nat
  BY CoreAssumption
<1>3. ASSUME NEW a \in S, NEW b \in S, a < b PROVE Place(a, S) < Place(b, S)
  <2>1. \A e \in S : e \in Nat
    BY CoreAssumption
  <2>2. a \in InFront(b, S) /\ a \notin InFront(a, S)
    BY <1>3, <2>1 DEF InFront
  <2>3. InFront(a, S) \subseteq InFront(b, S)
    BY <1>3, <2>1 DEF InFront
  <2>4. IsFiniteSet(InFront(b, S))
    <3>1. InFront(b, S) \subseteq Cores
      BY DEF InFront
    <3> QED
      BY <3>1, CoreAssumption, FS_Subset
  <2>5. /\ Cardinality(InFront(a, S)) <= Cardinality(InFront(b, S))
        /\ Cardinality(InFront(a, S)) = Cardinality(InFront(b, S)) => InFront(a, S) = InFront(b, S)
        /\ IsFiniteSet(InFront(a, S))
    BY <2>3, <2>4, FS_Subset
  <2>6. Cardinality(InFront(a, S)) \in Nat /\ Cardinality(InFront(b, S)) \in Nat
    BY <2>4, <2>5, FS_CardinalityType
  <2> QED
    BY <2>2, <2>5, <2>6 DEF Place
<1>4. Place(c, S) \in Nat /\ Place(d, S) \in Nat
  BY <1>1, FS_CardinalityType DEF Place
<1> QED
  BY <1>1, <1>2, <1>3, <1>4

\* A core that is still in its place is compared with itself.
LEMMA CoresStep ==
  ASSUME IInv, NEW ok \in BOOLEAN, CollectCores(ok), UNCHANGED <<world, now>>
  PROVE  CoresKept' /\ CoreRatesAreReal'
<1> DEFINE current == Readings(Cores, {})
<1>0. counter' = counter /\ moved' = moved /\ now' = now
  BY DEF world
<1>1. CASE ~ok
  BY <1>0, <1>1 DEF IInv, CollectCores, coreVars, CoresKept, CoreRatesAreReal
<1>2. CASE ok
  <2>1. /\ prev_cores' = current
        /\ core_rates' = [c \in DOMAIN current |-> CoreRate(c, current)]
    BY <1>2 DEF CollectCores
  <2>2. DOMAIN current = Cores \cap DOMAIN counter
    BY DEF Readings
  <2>3. ASSUME NEW c \in DOMAIN current
        PROVE  /\ current[c] \in Reading /\ current[c].at = now /\ current[c].moved = moved[c]
               /\ current[c].count = moved[c] /\ moved[c] \in Nat /\ now \in Nat
    BY <2>2, <2>3, FreshReading DEF IInv, Machine, CoresKept, Sources
  <2>4. CoresKept'
    <3>1. \A c \in DOMAIN current : current[c].at <= now /\ current[c].moved <= moved[c]
      BY <2>3
    <3> HIDE DEF current
    <3> QED
      BY <1>0, <2>1, <2>2, <2>3, <3>1 DEF IInv, CoresKept
  <2>5. ASSUME NEW c \in DOMAIN current, CoreRate(c, current).good
        PROVE  /\ CoreRate(c, current).delta = CoreRate(c, current).moved
               /\ CoreRate(c, current).elapsed = CoreRate(c, current).span
    <3> DEFINE own == /\ c \in DOMAIN core_rates /\ c \in DOMAIN prev_cores
                      /\ InFront(c, DOMAIN core_rates) = InFront(c, DOMAIN current)
               since == IF own THEN prev_cores[c] ELSE current[c]
               prev == IF Paired(c, current) = {} THEN current[c]
                       ELSE prev_cores[CHOOSE p \in Paired(c, current) : TRUE]
               delta == Minus(current[c].count, prev.count)
               elapsed == Minus(now, prev.at)
    <3>1. CoreRate(c, current) = [Rate(delta, elapsed, since, current[c]) EXCEPT !.good = own]
      BY DEF CoreRate
    <3>2. own
      BY <2>5, <3>1 DEF Rate
    <3>3. c \in DOMAIN prev_cores /\ DOMAIN prev_cores \subseteq Cores
      BY <3>2 DEF IInv, CoresKept
    <3>4. Paired(c, current) = {c}
      <4>1. Place(c, DOMAIN prev_cores) = Place(c, DOMAIN current)
        BY <3>2 DEF Place, IInv, CoresKept
      <4> HIDE DEF current
      <4> QED
        BY <3>3, <4>1, OwnPlace DEF Paired
    <3>5. prev = prev_cores[c] /\ since = prev_cores[c]
      BY <3>2, <3>4
    <3>6. /\ prev_cores[c] \in Reading /\ prev_cores[c].at <= now
          /\ prev_cores[c].count = prev_cores[c].moved /\ prev_cores[c].moved <= moved[c]
      BY <3>3 DEF IInv, CoresKept
    <3> HIDE DEF own, since, prev
    <3>7. delta = moved[c] - prev_cores[c].moved /\ elapsed = now - prev_cores[c].at
      BY <2>3, <3>5, <3>6 DEF Minus, Reading
    <3> HIDE DEF delta, elapsed, current
    <3> QED
      BY <2>3, <3>1, <3>5, <3>7 DEF Rate
  <2> HIDE DEF current
  <2> QED
    BY <2>1, <2>4, <2>5 DEF CoreRatesAreReal
<1> QED
  BY <1>1, <1>2

\* The baseline of the energy may be older than the time base, never newer.
LEMMA PowerStep ==
  ASSUME IInv, NEW ok \in BOOLEAN, NEW direct \in BOOLEAN, NEW bad, NEW hidden,
         CollectPower(ok, direct, bad, hidden), UNCHANGED <<world, now>>
  PROVE  PowerKept' /\ PowerCoversEnergy'
<1> DEFINE current == [k \in (Domains \cap DOMAIN counter) \ bad |-> EnergyReading(k, hidden)]
           known == IF now - cpu_time > 0 THEN DOMAIN current \cap DOMAIN prev_power ELSE {}
<1>0. counter' = counter /\ moved' = moved /\ now' = now /\ subject' = subject
  BY DEF world
<1>1. CASE ~ok
  BY <1>0, <1>1 DEF IInv, CollectPower, powerVars, PowerKept, PowerCoversEnergy
<1>2. CASE ok /\ (direct \/ DOMAIN current = {})
  <2>1. cpu_time' = now /\ power' = Empty /\ prev_power' = prev_power
    BY <1>2 DEF CollectPower
  <2>2. PowerKept'
    BY <1>0, <2>1 DEF IInv, Machine, PowerKept, EnergyReadings
  <2> QED
    BY <2>1, <2>2 DEF PowerCoversEnergy, Empty
<1>3. CASE ok /\ ~(direct \/ DOMAIN current = {})
  <2>1. /\ cpu_time' = now /\ prev_power' = current
        /\ power' = [k \in known |-> EnergyRate(prev_power[k], current[k], now - cpu_time)]
    BY <1>3 DEF CollectPower
  <2>2. ASSUME NEW k \in DOMAIN current
        PROVE  /\ current[k] \in EnergyReadings /\ current[k].at = now /\ current[k].moved = moved[k]
               /\ current[k].count = moved[k] % EnergyRange
               /\ current[k].range \in {0, EnergyRange}
    <3>1. k \in Domains \cap DOMAIN counter
      OBVIOUS
    <3>2. /\ counter[k] = moved[k] /\ moved[k] \in Nat /\ now \in Nat
          /\ moved[k] % EnergyRange \in Nat /\ EnergyRange \in Nat
      BY <3>1, RangeAssumption, DivMod DEF IInv, PowerKept, Machine
    <3>3. current[k] = EnergyReading(k, hidden)
      OBVIOUS
    <3> HIDE DEF current
    <3> QED
      BY <3>2, <3>3 DEF EnergyReading, EnergyReadings
  <2>3. PowerKept'
    <3>1. DOMAIN current \subseteq Domains \cap DOMAIN counter /\ now \in Nat
      BY DEF IInv, Machine
    <3>2. \A k \in DOMAIN current : moved[k] \in Nat
      BY DEF IInv, Machine, Sources
    <3> HIDE DEF current
    <3> QED
      BY <1>0, <2>1, <2>2, <3>1, <3>2 DEF IInv, PowerKept
  <2>4. ASSUME NEW k \in known
        PROVE  LET r == power'[k]
               IN  /\ r.delta <= r.moved /\ r.elapsed <= r.span
                   /\ r.good /\ r.moved < EnergyRange => r.delta = r.moved
    <3> DEFINE prev == prev_power[k]
               cur == current[k]
               range == IF cur.range < prev.range THEN prev.range ELSE cur.range
               delta == energy_delta_uj(prev.count, cur.count, range)
    <3>1. k \in DOMAIN current /\ k \in DOMAIN prev_power
      OBVIOUS
    <3>2. /\ cur.at = now /\ cur.moved = moved[k] /\ cur.count = moved[k] % EnergyRange
          /\ cur.range \in {0, EnergyRange}
      BY <3>1, <2>2
    <3>3. /\ prev.moved \in Nat /\ prev.at \in Nat /\ prev.at <= cpu_time
          /\ prev.moved <= moved[k] /\ prev.count = prev.moved % EnergyRange
          /\ prev.range \in {0, EnergyRange}
      BY <3>1 DEF IInv, PowerKept, EnergyReadings
    <3>4. moved[k] \in Nat /\ now \in Nat /\ cpu_time \in Nat
      BY <3>1 DEF IInv, Machine, PowerKept, Sources
    <3>5. range \in {0, EnergyRange}
      BY <3>2, <3>3
    <3>6. power'[k] = EnergyRate(prev, cur, now - cpu_time)
      BY <2>1
    <3> HIDE DEF prev, cur
    <3>7. power'[k] = [Rate(delta, now - cpu_time, prev, cur)
                         EXCEPT !.good = cur.count >= prev.count \/ range > 0]
      BY <3>6 DEF EnergyRate
    <3> HIDE DEF range
    <3>8. /\ delta \in Nat /\ delta <= moved[k] - prev.moved
          /\ moved[k] - prev.moved < EnergyRange /\ (cur.count >= prev.count \/ range > 0)
               => delta = moved[k] - prev.moved
      <4>1. /\ EnergyRange \in Nat \ {0} /\ range \in {0, EnergyRange}
            /\ prev.moved \in Nat /\ moved[k] \in Nat /\ prev.moved <= moved[k]
            /\ prev.count = prev.moved % EnergyRange /\ cur.count = moved[k] % EnergyRange
        BY <3>2, <3>3, <3>4, <3>5, RangeAssumption
      <4>2. PICK d : d = energy_delta_uj(prev.count, cur.count, range)
        OBVIOUS
      <4>3. PICK a, b, p, c, R, r : /\ a = prev.moved /\ b = moved[k] /\ p = prev.count
                                    /\ c = cur.count /\ R = EnergyRange /\ r = range
        OBVIOUS
      <4>4. /\ R \in Nat \ {0} /\ r \in {0, R} /\ a \in Nat /\ b \in Nat /\ a <= b
            /\ p = a % R /\ c = b % R /\ d = energy_delta_uj(p, c, r)
        BY <4>1, <4>2, <4>3
      <4>5. d \in Nat /\ d <= b - a /\ (b - a < R /\ (c >= p \/ r > 0) => d = b - a)
        BY ONLY <4>4, EnergyDelta, Zenon
      <4> QED
        BY <4>2, <4>3, <4>5
    <3> HIDE DEF delta
    <3>9. /\ power'[k].delta = delta /\ power'[k].elapsed = now - cpu_time
          /\ power'[k].moved = cur.moved - prev.moved /\ power'[k].span = cur.at - prev.at
      BY <3>7 DEF Rate
    <3>10. power'[k].good => cur.count >= prev.count \/ range > 0
      BY <3>7 DEF Rate
    <3> QED
      BY <3>2, <3>3, <3>4, <3>8, <3>9, <3>10
  <2> HIDE DEF known
  <2>5. DOMAIN power' = known
    BY <2>1
  <2> QED
    BY <2>3, <2>4, <2>5 DEF PowerCoversEnergy
<1> QED
  BY <1>1, <1>2, <1>3

\* The processes of n rows are at most n.
LEMMA RowPids ==
  ASSUME NEW S, NEW table \in Seq(S)
  PROVE  LET P == {table[i] : i \in 1..Len(table)}
         IN  IsFiniteSet(P) /\ Cardinality(P) <= Len(table)
<1> DEFINE n == Len(table)
           P == {table[i] : i \in 1..n}
           f == [i \in 1..n |-> table[i]]
<1>1. n \in Nat
  OBVIOUS
<1>2. f \in Surjection(1..n, P)
  BY DEF Surjection
<1> HIDE DEF n, f
<1>3. IsFiniteSet(1..n) /\ Cardinality(1..n) = n
  BY <1>1, FS_Interval
<1> HIDE DEF P
<1>4. IsFiniteSet(P) /\ Cardinality(P) <= n
  BY <1>2, <1>3, FS_Surjection
<1> QED
  BY <1>4 DEF P, n

\* Entries are dated by the processes' rows.  A time that could not be read is
\* stored as 1, which is before every other and makes the next rate too small.
LEMMA ProcsStep ==
  ASSUME IInv, NEW ok \in BOOLEAN, NEW bad, NEW table \in Tables,
         CollectProcs(ok, bad, table), UNCHANGED <<world, now>>
  PROVE  ProcsKept' /\ CpuIsReal' /\ EntriesBounded'
<1> DEFINE ticks == SystemTicks(ok)
           rowPids == {table[i] : i \in 1..Len(table)}
           read == rowPids \ bad
           entries == [p \in DOMAIN prev_procs \cup read |->
                         IF p \in read THEN Inserted(p, ticks) ELSE prev_procs[p]]
<1>0. /\ counter' = counter /\ moved' = moved /\ now' = now /\ now \in Nat
      /\ ticks \in Nat /\ 1 <= ticks /\ ticks <= now + 1 /\ (ok => ticks = now + 1)
      /\ (~ok => ticks = 1)
  BY DEF world, SystemTicks, IInv, Machine
<1>1. prev_procs' = [p \in rowPids \cap DOMAIN entries |-> entries[p]]
  BY DEF CollectProcs, Retained
<1>2. table \in Seq(Pids \cap DOMAIN counter)
  BY DEF Tables
<1>3. rowPids \subseteq Pids \cap DOMAIN counter
  BY <1>2
<1>4. ASSUME NEW p \in read
      PROVE  /\ Inserted(p, ticks) \in Entry /\ Inserted(p, ticks).at = now
             /\ Inserted(p, ticks).ticks = ticks /\ Inserted(p, ticks).moved = moved[p]
             /\ Behind(Inserted(p, ticks), p, counter, moved)
  <2>1. p \in Pids \cap DOMAIN counter
    BY <1>3
  <2>2. /\ Readings(Pids, {})[p] \in Reading /\ Readings(Pids, {})[p].at = now
        /\ Readings(Pids, {})[p].moved = moved[p]
        /\ Behind(Readings(Pids, {})[p], p, counter, moved)
    BY <2>1, FreshReading DEF IInv
  <2> QED
    BY <1>0, <2>2 DEF Inserted, Entry, Reading, Behind
<1>5. ProcsKept'
  BY <1>0, <1>1, <1>3, <1>4 DEF IInv, ProcsKept
<1>6. EntriesBounded'
  <2>1. DOMAIN prev_procs' \subseteq rowPids
    BY <1>1
  <2>2. DOMAIN procs' = DOMAIN table /\ Len(procs') = Len(table)
    <3>1. table \in [1..Len(table) -> Pids] /\ Len(table) \in Nat
      BY <1>2
    <3> QED
      BY <3>1 DEF CollectProcs
  <2>3. IsFiniteSet(rowPids) /\ Cardinality(rowPids) <= Len(table)
    BY <1>2, RowPids
  <2>4. Cardinality(DOMAIN prev_procs') <= Cardinality(rowPids)
    BY <2>1, <2>3, FS_Subset
  <2> QED
    BY <2>1, <2>2, <2>3, <2>4, <1>2, FS_Subset, FS_CardinalityType DEF EntriesBounded
<1>7. ASSUME NEW i \in DOMAIN procs'
      PROVE  procs'[i].delta <= procs'[i].moved /\ procs'[i].span <= procs'[i].elapsed
  <2> DEFINE p == table[i]
             prev == prev_procs[p]
             cur == Inserted(p, ticks)
             delta == Minus(counter[p], prev.count)
             elapsed == Minus(ticks, prev.ticks)
  <2>1. i \in DOMAIN table /\ p \in rowPids
    BY <1>7, <1>2 DEF CollectProcs
  <2>2. CASE procs'[i] = NoRate
    BY <2>2 DEF NoRate
  <2>3. CASE /\ procs'[i] = Rate(delta, elapsed, prev, cur) /\ elapsed # 0
             /\ p \in read /\ p \in DOMAIN prev_procs
    <3>1. /\ prev.count \in Nat /\ prev.moved \in Nat /\ prev.ticks \in Nat /\ prev.at \in Nat
          /\ prev.at <= now /\ 1 <= prev.ticks /\ prev.ticks <= prev.at + 1
          /\ prev.moved <= moved[p] /\ counter[p] + prev.moved <= moved[p] + prev.count
      BY <2>1, <2>3, <1>3 DEF IInv, ProcsKept, Entry, Behind
    <3>2. counter[p] \in Nat /\ moved[p] \in Nat /\ cur.at = now /\ cur.moved = moved[p]
      BY <2>1, <2>3, <1>3, <1>4 DEF IInv, Machine, Sources
    <3>3. delta <= moved[p] - prev.moved
      BY <3>1, <3>2, DeltaIsReal
    <3>4. now - prev.at <= elapsed
      BY <3>1, <1>0, <2>3 DEF Minus
    <3> HIDE DEF prev, cur, delta, elapsed
    <3> QED
      BY <2>3, <3>2, <3>3, <3>4, RateFields
  <2>4. \/ procs'[i] = NoRate
        \/ /\ procs'[i] = Rate(delta, elapsed, prev, cur) /\ elapsed # 0
           /\ p \in read /\ p \in DOMAIN prev_procs
    BY <2>1 DEF CollectProcs
  <2> QED
    BY <2>2, <2>3, <2>4
<1> QED
  BY <1>5, <1>6, <1>7 DEF CpuIsReal

-----------------------------------------------------------------------------
(* The types of what is reported. *)

\* A rate is typed if its readings are in order.
LEMMA RateType ==
  ASSUME NEW delta \in Nat, NEW elapsed \in Nat, NEW prev, NEW cur,
         prev.moved \in Nat, cur.moved \in Nat, prev.at \in Nat, cur.at \in Nat,
         prev.good \in BOOLEAN, prev.moved <= cur.moved, prev.at <= cur.at
  PROVE  Rate(delta, elapsed, prev, cur) \in Rates
BY DEF Rate, Rates

LEMMA MinusType ==
  ASSUME NEW a \in Nat, NEW b \in Nat
  PROVE  Minus(a, b) \in Nat
BY DEF Minus

LEMMA NoRateType == NoRate \in Rates
BY DEF NoRate, Rates

\* Whatever the counter did, the energy is not negative.
LEMMA EnergyType ==
  ASSUME NEW R \in Nat, NEW a \in Nat, NEW b \in Nat
  PROVE  energy_delta_uj(a, b, R) \in Nat
BY DEF energy_delta_uj

RatesTyped ==
  /\ \A d \in DOMAIN disk_rates : disk_rates[d] \in Rates
  /\ \A n \in DOMAIN net_rates : net_rates[n] \in Rates
  /\ \A c \in DOMAIN core_rates : core_rates[c] \in Rates
  /\ \A k \in DOMAIN power : power[k] \in Rates
  /\ \A i \in DOMAIN procs : procs[i] \in Rates

LEMMA DiskTypes ==
  ASSUME IInv, RatesTyped, NEW ok \in BOOLEAN, CollectDisks(ok)
  PROVE  \A d \in DOMAIN disk_rates' : disk_rates'[d] \in Rates
<1> DEFINE current == Readings(Disks, {})
           known == IF now - disk_time > 0 THEN DOMAIN current \cap DOMAIN prev_disks ELSE {}
<1>1. CASE ~ok
  BY <1>1 DEF CollectDisks, diskVars, RatesTyped
<1>2. CASE ok
  <2>1. disk_rates' = [d \in known |->
          Rate(Minus(current[d].count, prev_disks[d].count), now - disk_time,
               prev_disks[d], current[d])]
    BY <1>2 DEF CollectDisks
  <2>2. ASSUME NEW d \in known PROVE disk_rates'[d] \in Rates
    <3> DEFINE prev == prev_disks[d]
               cur == current[d]
    <3>1. d \in Disks \cap DOMAIN counter /\ d \in DOMAIN prev_disks
      BY DEF Readings
    <3>2. cur \in Reading /\ cur.at = now /\ cur.moved = moved[d]
      BY <3>1, FreshReading DEF IInv
    <3>3. /\ prev \in Reading /\ prev.at = disk_time /\ prev.moved <= moved[d]
          /\ disk_time \in Nat /\ now \in Nat /\ disk_time <= now
      BY <3>1 DEF IInv, Machine, DisksKept, Behind
    <3>4. disk_rates'[d] = Rate(Minus(cur.count, prev.count), now - disk_time, prev, cur)
      BY <2>1
    <3> HIDE DEF prev, cur
    <3>5. Minus(cur.count, prev.count) \in Nat /\ now - disk_time \in Nat
      BY <3>2, <3>3, MinusType DEF Reading
    <3> QED
      BY <3>2, <3>3, <3>4, <3>5, RateType DEF Reading
  <2> QED
    BY <2>1, <2>2
<1> QED
  BY <1>1, <1>2

LEMMA NetTypes ==
  ASSUME IInv, NEW ok \in BOOLEAN, NEW bad, CollectNets(ok, bad)
  PROVE  \A n \in DOMAIN net_rates' : net_rates'[n] \in Rates
<1> DEFINE current == IF ok THEN Readings(Nics, bad) ELSE Empty
           known == IF now - net_time > 0 THEN DOMAIN current \cap DOMAIN prev_nets ELSE {}
<1>1. net_rates' = [n \in DOMAIN current |->
        IF n \notin known THEN NoRate
        ELSE Rate(Minus(current[n].count, prev_nets[n].count), now - net_time,
                  prev_nets[n], current[n])]
  BY DEF CollectNets
<1>2. ASSUME NEW n \in DOMAIN current PROVE net_rates'[n] \in Rates
  <2>1. CASE n \notin known
    BY <1>1, <2>1, NoRateType
  <2>2. CASE n \in known
    <3> DEFINE prev == prev_nets[n]
               cur == current[n]
    <3>1. ok /\ current = Readings(Nics, bad)
      BY <1>2 DEF Empty
    <3>2. n \in Nics \cap DOMAIN counter /\ n \in DOMAIN prev_nets
      BY <2>2, <3>1 DEF Readings
    <3>3. cur \in Reading /\ cur.at = now /\ cur.moved = moved[n]
      BY <3>1, <3>2, FreshReading DEF IInv
    <3>4. /\ prev \in Reading /\ prev.at = net_time /\ prev.moved <= moved[n]
          /\ net_time \in Nat /\ now \in Nat /\ net_time <= now
      BY <3>2 DEF IInv, Machine, NetsKept
    <3>5. net_rates'[n] = Rate(Minus(cur.count, prev.count), now - net_time, prev, cur)
      BY <1>1, <2>2
    <3> HIDE DEF prev, cur
    <3>6. Minus(cur.count, prev.count) \in Nat /\ now - net_time \in Nat
      BY <3>3, <3>4, MinusType DEF Reading
    <3> QED
      BY <3>3, <3>4, <3>5, <3>6, RateType DEF Reading
  <2> QED
    BY <2>1, <2>2
<1> QED
  BY <1>1, <1>2

LEMMA CoreTypes ==
  ASSUME IInv, RatesTyped, NEW ok \in BOOLEAN, CollectCores(ok)
  PROVE  \A c \in DOMAIN core_rates' : core_rates'[c] \in Rates
<1> DEFINE current == Readings(Cores, {})
<1>1. CASE ~ok
  BY <1>1 DEF CollectCores, coreVars, RatesTyped
<1>2. CASE ok
  <2>1. core_rates' = [c \in DOMAIN current |-> CoreRate(c, current)]
    BY <1>2 DEF CollectCores
  <2>2. ASSUME NEW c \in DOMAIN current PROVE CoreRate(c, current) \in Rates
    <3> DEFINE own == /\ c \in DOMAIN core_rates /\ c \in DOMAIN prev_cores
                      /\ InFront(c, DOMAIN core_rates) = InFront(c, DOMAIN current)
               since == IF own THEN prev_cores[c] ELSE current[c]
               prev == IF Paired(c, current) = {} THEN current[c]
                       ELSE prev_cores[CHOOSE p \in Paired(c, current) : TRUE]
               cur == current[c]
               rate == Rate(Minus(cur.count, prev.count), Minus(now, prev.at), since, cur)
    <3>1. CoreRate(c, current) = [rate EXCEPT !.good = own]
      BY DEF CoreRate
    <3>2. c \in Cores \cap DOMAIN counter
      BY DEF Readings
    <3>3. cur \in Reading /\ cur.at = now /\ cur.moved = moved[c]
      BY <3>2, FreshReading DEF IInv
    <3>4. now \in Nat /\ moved[c] \in Nat
      BY <3>2 DEF IInv, Machine, Sources
    <3>5. prev \in Reading
      BY <3>3 DEF Paired, IInv, CoresKept
    <3>6. since \in Reading /\ since.at <= now /\ since.moved <= moved[c]
      <4>1. CASE own
        BY <4>1 DEF IInv, CoresKept
      <4>2. CASE ~own
        BY <4>2, <3>3, <3>4
      <4> QED
        BY <4>1, <4>2
    <3>7. own \in BOOLEAN
      OBVIOUS
    <3> HIDE DEF own, since, prev, cur
    <3>8. Minus(cur.count, prev.count) \in Nat /\ Minus(now, prev.at) \in Nat
      BY <3>3, <3>4, <3>5, MinusType DEF Reading
    <3>9. rate \in Rates
      BY <3>3, <3>4, <3>6, <3>8, RateType DEF Reading
    <3> HIDE DEF rate
    <3> QED
      BY <3>1, <3>7, <3>9 DEF Rates
  <2> QED
    BY <2>1, <2>2
<1> QED
  BY <1>1, <1>2

LEMMA PowerTypes ==
  ASSUME IInv, RatesTyped, NEW ok \in BOOLEAN, NEW direct \in BOOLEAN, NEW bad, NEW hidden,
         CollectPower(ok, direct, bad, hidden), PowerKept', UNCHANGED <<world, now>>
  PROVE  \A k \in DOMAIN power' : power'[k] \in Rates
<1> DEFINE current == [k \in (Domains \cap DOMAIN counter) \ bad |-> EnergyReading(k, hidden)]
           known == IF now - cpu_time > 0 THEN DOMAIN current \cap DOMAIN prev_power ELSE {}
<1>1. CASE ~ok
  BY <1>1 DEF CollectPower, powerVars, RatesTyped
<1>2. CASE ok /\ (direct \/ DOMAIN current = {})
  BY <1>2 DEF CollectPower, Empty
<1>3. CASE ok /\ ~(direct \/ DOMAIN current = {})
  <2>1. /\ cpu_time' = now /\ prev_power' = current
        /\ power' = [k \in known |-> EnergyRate(prev_power[k], current[k], now - cpu_time)]
    BY <1>3 DEF CollectPower
  <2>2. ASSUME NEW k \in known PROVE power'[k] \in Rates
    <3> DEFINE prev == prev_power[k]
               cur == current[k]
    <3>1. k \in Domains \cap DOMAIN counter /\ k \in DOMAIN prev_power /\ k \in DOMAIN current
      OBVIOUS
    <3>2. cur = EnergyReading(k, hidden)
      BY <3>1
    <3>3. cur.at = now /\ cur.moved = moved[k] /\ cur \in EnergyReadings
      BY <2>1, <3>1, <3>2 DEF PowerKept, EnergyReading
    <3>4. /\ prev \in EnergyReadings /\ prev.at <= cpu_time /\ prev.moved <= moved[k]
          /\ cpu_time \in Nat /\ now \in Nat /\ cpu_time <= now /\ moved[k] \in Nat
      BY <3>1 DEF IInv, Machine, PowerKept, Sources
    <3>5. power'[k] = EnergyRate(prev, cur, now - cpu_time)
      BY <2>1
    <3> HIDE DEF prev, cur
    <3>6. PICK range \in Nat :
            power'[k] = [Rate(energy_delta_uj(prev.count, cur.count, range),
                              now - cpu_time, prev, cur)
                           EXCEPT !.good = cur.count >= prev.count \/ range > 0]
      BY <3>3, <3>4, <3>5 DEF EnergyRate, EnergyReadings
    <3>7. energy_delta_uj(prev.count, cur.count, range) \in Nat
      BY <3>3, <3>4, EnergyType DEF EnergyReadings
    <3>8. /\ prev.moved \in Nat /\ cur.moved \in Nat /\ prev.moved <= cur.moved
          /\ prev.at \in Nat /\ cur.at \in Nat /\ prev.at <= cur.at
          /\ prev.good \in BOOLEAN /\ now - cpu_time \in Nat
      BY <3>3, <3>4 DEF EnergyReadings
    <3>9. Rate(energy_delta_uj(prev.count, cur.count, range), now - cpu_time, prev, cur) \in Rates
      BY <3>7, <3>8, RateType
    <3>10. (cur.count >= prev.count \/ range > 0) \in BOOLEAN
      OBVIOUS
    <3> QED
      BY <3>6, <3>9, <3>10 DEF Rates
  <2> HIDE DEF known
  <2> QED
    BY <2>1, <2>2
<1> QED
  BY <1>1, <1>2, <1>3

LEMMA ProcTypes ==
  ASSUME IInv, NEW ok \in BOOLEAN, NEW bad, NEW table \in Tables, CollectProcs(ok, bad, table)
  PROVE  \A i \in DOMAIN procs' : procs'[i] \in Rates
<1> DEFINE ticks == SystemTicks(ok)
<1>1. ticks \in Nat /\ now \in Nat
  BY DEF SystemTicks, IInv, Machine
<1>2. table \in Seq(Pids \cap DOMAIN counter)
  BY DEF Tables
<1>3. ASSUME NEW i \in DOMAIN procs' PROVE procs'[i] \in Rates
  <2> DEFINE p == table[i]
             prev == prev_procs[p]
             cur == Inserted(p, ticks)
  <2>1. i \in DOMAIN table /\ p \in Pids \cap DOMAIN counter
    BY <1>2, <1>3 DEF CollectProcs
  <2>2. CASE procs'[i] = NoRate
    BY <2>2, NoRateType
  <2>3. CASE /\ procs'[i] = Rate(Minus(counter[p], prev.count), Minus(ticks, prev.ticks), prev, cur)
             /\ p \in DOMAIN prev_procs
    <3>1. prev \in Entry /\ prev.at <= now /\ prev.moved <= moved[p]
      BY <2>3 DEF IInv, ProcsKept, Behind
    <3>2. counter[p] \in Nat /\ moved[p] \in Nat
      BY <2>1 DEF IInv, Machine, Sources
    <3>3. cur.at = now /\ cur.moved = moved[p]
      <4>1. Readings(Pids, {})[p].at = now /\ Readings(Pids, {})[p].moved = moved[p]
        BY <2>1, FreshReading DEF IInv
      <4> QED
        BY <4>1 DEF Inserted
    <3> HIDE DEF prev, cur, p, ticks
    <3>4. Minus(counter[p], prev.count) \in Nat /\ Minus(ticks, prev.ticks) \in Nat
      BY <1>1, <3>1, <3>2, MinusType DEF Entry
    <3> QED
      BY <1>1, <2>3, <3>1, <3>2, <3>3, <3>4, RateType DEF Entry
  <2>4. \/ procs'[i] = NoRate
        \/ /\ procs'[i] = Rate(Minus(counter[p], prev.count), Minus(ticks, prev.ticks), prev, cur)
           /\ p \in DOMAIN prev_procs
    BY <2>1 DEF CollectProcs
  <2> QED
    BY <2>2, <2>3, <2>4
<1> QED
  BY <1>3

\* The bounds of the model.
Bounded ==
  /\ subject \in {Disks, Nics, Domains, Pids, Cores} /\ now \in 0..MaxTime
  /\ moved \in [Sources -> 0..MaxMoved] /\ DOMAIN counter \subseteq subject

LEMMA BoundedStep == IInv /\ Bounded /\ [Next]_vars => Bounded'
<1> SUFFICES ASSUME IInv, Bounded, [Next]_vars PROVE Bounded'
  OBVIOUS
<1>1. CASE TimePasses
  BY <1>1, BoundAssumption DEF TimePasses, Bounded, world
<1>2. ASSUME NEW x \in Sources, Works(x) PROVE Bounded'
  <2>1. /\ moved' = [moved EXCEPT ![x] = @ + 1] /\ moved[x] < MaxMoved
        /\ DOMAIN counter' = DOMAIN counter /\ UNCHANGED <<subject, now>>
    BY <1>2 DEF Works
  <2> QED
    BY <2>1, BoundAssumption DEF Bounded
<1>3. ASSUME NEW x \in Sources, Leaves(x) \/ Comes(x) PROVE Bounded'
  BY <1>3 DEF Leaves, Comes, Bounded
<1>4. CASE collect_all
  BY <1>4 DEF collect_all, world, Bounded
<1>5. CASE UNCHANGED vars
  BY <1>5 DEF vars, Bounded
<1> QED
  BY <1>1, <1>2, <1>3, <1>4, <1>5 DEF Next

LEMMA TypedStep == IInv /\ IInv' /\ RatesTyped /\ [Next]_vars => RatesTyped'
<1> SUFFICES ASSUME IInv, IInv', RatesTyped, [Next]_vars PROVE RatesTyped'
  OBVIOUS
<1>1. CASE collect_all
  <2>1. PICK ok \in BOOLEAN, direct \in BOOLEAN, bad \in SUBSET (DOMAIN counter \ (Disks \cup Cores)),
             hidden \in SUBSET (DOMAIN counter \cap Domains), table \in Tables :
               /\ CollectCores(ok) /\ CollectPower(ok, direct, bad, hidden)
               /\ CollectDisks(ok) /\ CollectNets(ok, bad) /\ CollectProcs(ok, bad, table)
               /\ UNCHANGED <<world, now>>
    BY <1>1 DEF collect_all
  <2>2. PowerKept'
    BY DEF IInv
  <2> QED
    BY <2>1, <2>2, DiskTypes, NetTypes, CoreTypes, PowerTypes, ProcTypes DEF RatesTyped
<1>2. CASE UNCHANGED <<disk_rates, net_rates, core_rates, power, procs>>
  BY <1>2 DEF RatesTyped
<1>3. CASE TimePasses \/ \E x \in Sources : Works(x) \/ Leaves(x) \/ Comes(x)
  BY <1>2, <1>3 DEF TimePasses, Works, Leaves, Comes, diskVars, netVars, coreVars, powerVars, procVars
<1> QED
  BY <1>1, <1>2, <1>3 DEF Next, vars

-----------------------------------------------------------------------------
(* The theorems. *)

LEMMA InitIInv == Init => IInv
<1> SUFFICES ASSUME Init PROVE IInv
  OBVIOUS
<1>1. Machine
  BY DEF Init, Machine, Sources
<1>2. DisksKept /\ NetsKept /\ ProcsKept
  BY DEF Init, Empty, DisksKept, NetsKept, ProcsKept
<1>6. CoresKept /\ CoreRatesAreReal
  BY DEF Init, Empty, Sources, CoresKept, CoreRatesAreReal
<1>3. DiskRatesAreReal /\ NetRatesAreReal /\ CpuIsReal
  BY DEF Init, Empty, DiskRatesAreReal, NetRatesAreReal, CpuIsReal
<1>4. EntriesBounded
  BY FS_EmptySet DEF Init, Empty, EntriesBounded
<1>5. PowerKept /\ PowerCoversEnergy
  BY DEF Init, Empty, Sources, PowerKept, PowerCoversEnergy
<1> QED
  BY <1>1, <1>2, <1>3, <1>4, <1>5, <1>6 DEF IInv

LEMMA NextIInv == IInv /\ [Next]_vars => IInv'
<1> SUFFICES ASSUME IInv, [Next]_vars PROVE IInv'
  OBVIOUS
<1>1. CASE TimePasses
  <2>1. /\ now' = now + 1 /\ now \in Nat
        /\ UNCHANGED <<world, diskVars, netVars, coreVars, powerVars, procVars>>
    BY <1>1 DEF TimePasses, IInv, Machine
  <2>2. Machine'
    BY <2>1 DEF IInv, Machine, world
  <2>3. DisksKept' /\ NetsKept'
    BY <2>1 DEF IInv, DisksKept, NetsKept, world, diskVars, netVars
  <2>4. ProcsKept'
    BY <2>1 DEF IInv, ProcsKept, world, procVars, Entry
  <2>5. PowerKept'
    BY <2>1 DEF IInv, PowerKept, world, powerVars
  <2>6. CoresKept' /\ CoreRatesAreReal'
    BY <2>1 DEF IInv, CoresKept, CoreRatesAreReal, world, coreVars, Reading
  <2> QED
    BY <2>1, <2>2, <2>3, <2>4, <2>5, <2>6
       DEF IInv, DiskRatesAreReal, NetRatesAreReal, CpuIsReal, EntriesBounded,
           PowerCoversEnergy, diskVars, netVars, powerVars, procVars
<1>2. CASE \E x \in Sources : Works(x) \/ Leaves(x) \/ Comes(x)
  BY <1>2, WorldIInv
<1>3. CASE collect_all
  <2>1. PICK ok \in BOOLEAN, direct \in BOOLEAN, bad \in SUBSET (DOMAIN counter \ (Disks \cup Cores)),
             hidden \in SUBSET (DOMAIN counter \cap Domains), table \in Tables :
               /\ CollectCores(ok) /\ CollectPower(ok, direct, bad, hidden)
               /\ CollectDisks(ok) /\ CollectNets(ok, bad) /\ CollectProcs(ok, bad, table)
               /\ UNCHANGED <<world, now>>
    BY <1>3 DEF collect_all
  <2>2. Machine'
    BY <2>1 DEF IInv, Machine, world
  <2> QED
    BY <2>1, <2>2, CoresStep, PowerStep, DisksStep, NetsStep, ProcsStep DEF IInv
<1>4. CASE UNCHANGED vars
  BY <1>4 DEF vars, IInv, Machine, DisksKept, NetsKept, ProcsKept, CoresKept, PowerKept,
     CoreRatesAreReal, DiskRatesAreReal, NetRatesAreReal, CpuIsReal, EntriesBounded, PowerCoversEnergy
<1> QED
  BY <1>1, <1>2, <1>3, <1>4 DEF Next

LEMMA Inductive == Spec => []IInv
BY InitIInv, NextIInv, PTL DEF Spec

\* Every difference that reaches a rate is a natural number, for all sources,
\* ranges and bounds: nothing underflows, whatever the counters did.
THEOREM TypeCorrect == Spec => []TypeOK
<1>1. Init => Bounded /\ RatesTyped
  BY BoundAssumption DEF Init, Bounded, RatesTyped, Empty
<1>2. IInv /\ Bounded /\ RatesTyped => TypeOK
  <2> SUFFICES ASSUME IInv, Bounded, RatesTyped PROVE TypeOK
    OBVIOUS
  <2>1. {now, disk_time, net_time, cpu_time} \subseteq 0..MaxTime
    BY BoundAssumption DEF IInv, Bounded, DisksKept, NetsKept, PowerKept
  <2>2. \A x \in DOMAIN counter : counter[x] \in 0..moved[x]
    BY DEF IInv, Machine
  <2> QED
    BY <2>1, <2>2
       DEF TypeOK, IInv, Bounded, RatesTyped, DisksKept, NetsKept, CoresKept, PowerKept, ProcsKept
<1> QED
  BY <1>1, <1>2, Inductive, BoundedStep, TypedStep, PTL DEF Spec

\* A disk's throughput is what it moved, at most, in the time it is divided by,
\* for every set of disks and any failed ticks.
THEOREM DiskRates == Spec => []DiskRatesAreReal
<1>1. IInv => DiskRatesAreReal
  BY DEF IInv
<1> QED
  BY <1>1, Inductive, PTL

\* So is an interface's, if the earlier reading succeeded.
THEOREM NetRates == Spec => []NetRatesAreReal
<1>1. IInv => NetRatesAreReal
  BY DEF IInv
<1> QED
  BY <1>1, Inductive, PTL

\* Every throughput is real.
THEOREM Throughput == Spec => []ThroughputIsReal
<1>1. IInv => ThroughputIsReal
  BY DEF IInv, ThroughputIsReal
<1> QED
  BY <1>1, Inductive, PTL

\* The usage shown for a core is its own unless a core in front of it came or went
\* since the last report, for any set of cores.
THEOREM CoreRates == Spec => []CoreRatesAreReal
<1>1. IInv => CoreRatesAreReal
  BY DEF IInv
<1> QED
  BY <1>1, Inductive, PTL

\* The energy behind a power value is never more than was used since the earlier reading,
\* and all of it, also over a wrap-around, where the range of the counter could be read.
THEOREM PowerIsCovered == Spec => []PowerCoversEnergy
<1>1. IInv => PowerCoversEnergy
  BY DEF IInv
<1> QED
  BY <1>1, Inductive, PTL

\* A process is never shown to use more CPU time than its pid used, across the
\* reuse of the pid and unreadable clocks.
THEOREM CpuRates == Spec => []CpuIsReal
<1>1. IInv => CpuIsReal
  BY DEF IInv
<1> QED
  BY <1>1, Inductive, PTL

\* No CPU usage is ever shown that did not happen, of a process or of a core.
THEOREM Usages == Spec => []UsageIsReal
<1>1. IInv => UsageIsReal
  BY DEF IInv, UsageIsReal
<1> QED
  BY <1>1, Inductive, PTL

\* The CPU times kept are at most as many as the rows of the last table.
THEOREM EntriesAreBounded == Spec => []EntriesBounded
<1>1. IInv => EntriesBounded
  BY DEF IInv
<1> QED
  BY <1>1, Inductive, PTL

=============================================================================
