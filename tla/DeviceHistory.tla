------------------------------ MODULE DeviceHistory -----------------------------
(***************************************************************************)
(* The history of one measured value of a device: the pair of a RingBuffer *)
(* for the charts and a TimeWindowAggregator with the minute buckets       *)
(* behind the 1/6/12/24 hour statistics (src/domain/history.rs), which     *)
(* DiskHistory, NetworkHistory and GpuHistory keep side by side and feed   *)
(* from record().  Samples come when a collector succeeds and the device   *)
(* is there, so that whole minutes may pass without one; the clock only    *)
(* moves the bucket at the next push.                                      *)
(*                                                                         *)
(* A bucket carries, beyond the code's fields, the minute of its last      *)
(* sample (a history variable), and log keeps every sample with its        *)
(* minute.                                                                 *)
(***************************************************************************)
EXTENDS RingBuffer, FiniteSetsExt

CONSTANTS
  Values,       \* samples: rates, percentages, watts; never negative
  MaxBuckets,   \* MINUTES_PER_24H, 1440
  HourMinutes,  \* minutes in an hour, 60
  MaxMinute,    \* bound: length of the run in minutes
  MaxPushes     \* bound: samples of the run

ASSUME ValueAssumption == Values \subseteq Nat
ASSUME BucketAssumption == MaxBuckets \in Nat \ {0} /\ HourMinutes \in Nat \ {0}
ASSUME BoundAssumption == MaxMinute \in Nat /\ MaxPushes \in Nat

VARIABLES
  data,            \* the RingBuffer
  buckets,         \* finished buckets, oldest first
  current_bucket,
  current_minute,
  minute,          \* start_instant.elapsed(), in whole minutes
  log              \* history: the samples, each with its minute

vars == <<data, buckets, current_bucket, current_minute, minute, log>>

NegInfinity == -1
NewBucket == [sum |-> 0, count |-> 0, max |-> NegInfinity, minute |-> 0]

\* MinuteBucket::push
PushTo(b, value, m) ==
  [sum |-> b.sum + value, count |-> b.count + 1,
   max |-> IF value > b.max THEN value ELSE b.max, minute |-> m]

Init ==
  /\ data = EmptyBuffer /\ buckets = <<>> /\ current_bucket = NewBucket
  /\ current_minute = 0 /\ minute = 0 /\ log = <<>>

MinutePasses ==
  /\ minute < MaxMinute
  /\ minute' = minute + 1
  /\ UNCHANGED <<data, buckets, current_bucket, current_minute, log>>

\* Mutant: the deque grows by one bucket too many.
Finished_OneMore == Append(IF Len(buckets) > MaxBuckets THEN Tail(buckets) ELSE buckets,
                           current_bucket)

\* push_back(finished), after pop_front of a full deque
Finished == Append(IF Len(buckets) >= MaxBuckets THEN Tail(buckets) ELSE buckets,
                   current_bucket)

\* Mutant: only the minute right after the last sample's begins a bucket of its own.
push_MixesAfterGap(value) ==
  /\ IF minute = current_minute + 1 /\ current_bucket.count > 0
       THEN /\ buckets' = Finished
            /\ current_bucket' = PushTo(NewBucket, value, minute)
       ELSE /\ buckets' = buckets
            /\ current_bucket' = PushTo(current_bucket, value, minute)
  /\ current_minute' = minute

\* The three branches of push set current_minute to minute (the one for the
\* first minute finds it there already).
push(value) ==
  /\ IF minute > current_minute /\ current_bucket.count > 0
       THEN /\ buckets' = Finished
            /\ current_bucket' = PushTo(NewBucket, value, minute)
       ELSE /\ buckets' = buckets
            /\ current_bucket' = PushTo(current_bucket, value, minute)
  /\ current_minute' = minute

\* DiskHistory::record and its siblings, for one of their values.
record(value) ==
  /\ Len(log) < MaxPushes
  /\ data' = BufferPush(data, value)
  /\ push(value)
  /\ log' = Append(log, [minute |-> minute, value |-> value])
  /\ UNCHANGED minute

\* The bounds of the run are reached.
Finish == minute = MaxMinute /\ Len(log) = MaxPushes /\ UNCHANGED vars

Next == MinutePasses \/ (\E value \in Values : record(value)) \/ Finish

Spec == Init /\ [][Next]_vars

-----------------------------------------------------------------------------
(* Queries. *)

\* Mutant: the window is taken from the oldest buckets.
Window_Oldest(window_minutes) ==
  1..(IF window_minutes < Len(buckets) THEN window_minutes ELSE Len(buckets))

\* iter().rev().take(take_count): the indices of the newest finished buckets
Window(window_minutes) ==
  {i \in 1..Len(buckets) : i > Len(buckets) - window_minutes}

\* Every query adds the current bucket to the window.
aggregate_window(window_minutes) ==
  LET sums == [i \in DOMAIN buckets |-> buckets[i].sum]
      counts == [i \in DOMAIN buckets |-> buckets[i].count]
  IN  [sum |-> current_bucket.sum + SumFunctionOnSet(sums, Window(window_minutes)),
       count |-> current_bucket.count + SumFunctionOnSet(counts, Window(window_minutes))]

\* Empty buckets have the maximum NegInfinity, so that testing count as the code
\* does changes nothing.
max_in_window(window_minutes) ==
  Max({current_bucket.max} \cup {buckets[i].max : i \in Window(window_minutes)})

average_over_hours(hours) ==
  LET total == aggregate_window(hours * HourMinutes)
  IN  IF total.count = 0 THEN 0 ELSE total.sum \div total.count

max_over_hours(hours) ==
  LET max == max_in_window(hours * HourMinutes)
  IN  IF max = NegInfinity THEN 0 ELSE max

-----------------------------------------------------------------------------
(* Properties. *)

Bucket == [sum : Nat, count : Nat, max : Nat \cup {NegInfinity}, minute : Nat]

\* Every variable keeps its type, the buffer its capacity and the deque its 24
\* hours of buckets.
TypeOK ==
  /\ data \in Seq(Values) /\ Len(data) <= Capacity
  /\ buckets \in Seq(Bucket) /\ Len(buckets) <= MaxBuckets
  /\ current_bucket \in Bucket
  /\ current_minute \in 0..MaxMinute /\ minute \in 0..MaxMinute
  /\ log \in Seq([minute : Nat, value : Values])

Recorded == [i \in 1..Len(log) |-> log[i].value]

\* The buffer holds exactly the last Capacity samples recorded, oldest first, so
\* that a chart never shows a sample twice, out of order or beyond its time.
HoldsLastSamples == data = Suffix(Recorded, Capacity)

\* A sparkline of any width shows the newest samples, ending with the last one.
SparklineIsRecent ==
  \A width \in 0..(Capacity + 1) :
    to_sparkline_data(data, width) =
      Suffix(Recorded, IF width < Capacity THEN width ELSE Capacity)

SampledMinutes == {log[i].minute : i \in 1..Len(log)}
SamplesOf(minutes) == {i \in 1..Len(log) : log[i].minute \in minutes}
TotalOf(I) == SumFunctionOnSet([i \in DOMAIN log |-> log[i].value], I)
MaxOf(I) == IF I = {} THEN 0 ELSE Max({log[i].value : i \in I})

\* The bucket is the sum, the number and the maximum of all the samples of its minute
\* and of no others.
SamplesAt(m) == SamplesOf({m})
Holds(b) ==
  /\ b.sum = TotalOf(SamplesAt(b.minute))
  /\ b.count = Cardinality(SamplesAt(b.minute))
  /\ \A i \in SamplesAt(b.minute) : log[i].value <= b.max
  /\ \E i \in SamplesAt(b.minute) : log[i].value = b.max

\* The buckets are of different minutes in increasing order, all before the one of the
\* current bucket, which is never in the future; a finished bucket is never empty.
BucketsInOrder ==
  /\ \A i \in 1..Len(buckets) :
       buckets[i].count > 0 /\ buckets[i].minute < current_minute
  /\ \A i, j \in 1..Len(buckets) : i < j => buckets[i].minute < buckets[j].minute
  /\ current_bucket.count > 0 => current_bucket.minute = current_minute
  /\ buckets # <<>> => current_bucket.count > 0
  /\ current_minute <= minute

\* A bucket never mixes two minutes, shares one with another bucket or is finished
\* empty: each finished one, and the current one as soon as there is a sample, stands
\* for exactly the samples recorded in one minute, and the minutes are in order.
BucketsAreMinutes ==
  /\ BucketsInOrder
  /\ \A i \in 1..Len(buckets) : Holds(buckets[i])
  /\ IF log = <<>> THEN current_bucket = NewBucket ELSE Holds(current_bucket)

\* The n minutes of S that come last.
Latest(S, n) == {m \in S : Cardinality({k \in S : k > m}) < n}

\* What a window of h hours contains: the samples of the last h * 60 + 1 minutes
\* that have samples, each counted once and none of another minute, while the
\* deque holds them (h up to the 24 hours kept); average and maximum are of these.
WindowIsLatestSampledMinutes ==
  \A h \in 1..(MaxBuckets \div HourMinutes) :
    LET I == SamplesOf(Latest(SampledMinutes, h * HourMinutes + 1))
    IN  /\ aggregate_window(h * HourMinutes)
             = [sum |-> TotalOf(I), count |-> Cardinality(I)]
        /\ average_over_hours(h) = IF I = {} THEN 0 ELSE TotalOf(I) \div Cardinality(I)
        /\ max_over_hours(h) = MaxOf(I)

\* "Average value over the last N hours" (the comment on average_over_hours): no
\* sample in the window is older than N hours.  The code counts buckets, not
\* minutes, so that after minutes without samples it reaches further back.
WindowIsRecent ==
  \A h \in 1..(MaxBuckets \div HourMinutes) :
    \A i \in Window(h * HourMinutes) : buckets[i].minute >= minute - h * HourMinutes

=============================================================================
