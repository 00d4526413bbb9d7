-------------------------- MODULE DeviceReadings_proofs ------------------------
(***************************************************************************)
(* Proofs about what is kept of a device and what is read of one.          *)
(*                                                                         *)
(* DeviceHistory, for every capacity, every set of samples and runs of any *)
(* length: the ring buffer holds the last samples, charts show the newest  *)
(* of them, each bucket stands for exactly the samples of one minute, in   *)
(* order, and the statistics of a window of hours are those of the samples *)
(* of its last minutes that have any.                                      *)
(*                                                                         *)
(* GpuReadings, for any number of devices, links and processes: what one   *)
(* page of the GPU view shows is of one device, and the rows of the        *)
(* processes shown never add up to more than the memory shown.             *)
(***************************************************************************)
EXTENDS DeviceHistory, GpuReadings, SumTheorems, SequenceTheorems, TLAPS

-----------------------------------------------------------------------------
(* The ring buffer. *)

\* The suffix of a sequence is a sequence, of the length asked for if possible.
LEMMA SuffixProperties ==
  ASSUME NEW S, NEW s \in Seq(S), NEW n \in Nat
  PROVE  /\ Suffix(s, n) \in Seq(S)
         /\ Len(Suffix(s, n)) = IF Len(s) <= n THEN Len(s) ELSE n
         /\ \A i \in 1..Len(Suffix(s, n)) :
              Suffix(s, n)[i] = s[Len(s) - Len(Suffix(s, n)) + i]
<1>1. CASE Len(s) <= n
  BY <1>1 DEF Suffix
<1>2. CASE Len(s) > n
  <2>1. Suffix(s, n) = SubSeq(s, Len(s) - n + 1, Len(s))
    BY <1>2 DEF Suffix
  <2>2. /\ Len(s) - n + 1 \in 1..(Len(s) + 1)
        /\ (Len(s) - n + 1) - 1 \in Nat
    BY <1>2
  <2>3. /\ Suffix(s, n) \in Seq(S)
        /\ Len(Suffix(s, n)) = n
        /\ \A i \in 1..n : Suffix(s, n)[i] = s[(Len(s) - n + 1) + i - 1]
    BY <2>1, <2>2
  <2> QED
    BY <1>2, <2>3
<1> QED
  BY <1>1, <1>2

\* A push into a buffer that holds the last Capacity values of s gives one that
\* holds the last Capacity values of s and the value pushed.
LEMMA PushKeepsSuffix ==
  ASSUME NEW S, NEW s \in Seq(S), NEW value \in S
  PROVE  BufferPush(Suffix(s, Capacity), value) = Suffix(Append(s, value), Capacity)
<1> DEFINE d == Suffix(s, Capacity)
           t == Append(s, value)
           e == IF Len(d) >= Capacity THEN Tail(d) ELSE d
<1>0. Capacity \in Nat \ {0}
  BY CapacityAssumption
<1>1. /\ d \in Seq(S) /\ Len(d) = IF Len(s) <= Capacity THEN Len(s) ELSE Capacity
      /\ \A i \in 1..Len(d) : d[i] = s[Len(s) - Len(d) + i]
  BY <1>0, SuffixProperties
<1>2. /\ t \in Seq(S) /\ Len(t) = Len(s) + 1 /\ t[Len(s) + 1] = value
      /\ \A i \in 1..Len(s) : t[i] = s[i]
  OBVIOUS
<1>3. /\ Suffix(t, Capacity) \in Seq(S)
      /\ Len(Suffix(t, Capacity)) = IF Len(t) <= Capacity THEN Len(t) ELSE Capacity
      /\ \A i \in 1..Len(Suffix(t, Capacity)) :
           Suffix(t, Capacity)[i] = t[Len(t) - Len(Suffix(t, Capacity)) + i]
  BY <1>0, <1>2, SuffixProperties
<1> HIDE DEF d, t
<1>4. /\ e \in Seq(S)
      /\ Len(e) = IF Len(d) >= Capacity THEN Capacity - 1 ELSE Len(d)
      /\ \A i \in 1..Len(e) : e[i] = IF Len(d) >= Capacity THEN d[i + 1] ELSE d[i]
  BY <1>0, <1>1
<1> HIDE DEF e
<1>5. /\ Append(e, value) \in Seq(S)
      /\ Len(Append(e, value)) = Len(Suffix(t, Capacity))
  BY <1>0, <1>1, <1>2, <1>3, <1>4
<1>6. ASSUME NEW i \in 1..Len(Append(e, value))
      PROVE  Append(e, value)[i] = Suffix(t, Capacity)[i]
  <2>1. CASE i = Len(e) + 1
    <3>1. Append(e, value)[i] = value
      BY <1>4, <2>1
    <3>2. i = Len(Suffix(t, Capacity))
      BY <1>4, <1>5, <2>1
    <3>3. Suffix(t, Capacity)[i] = t[Len(t)]
      BY <1>2, <1>3, <1>5, <3>2
    <3> QED
      BY <1>2, <3>1, <3>3
  <2>2. CASE i \in 1..Len(e)
    <3>1. Append(e, value)[i] = e[i]
      BY <1>4, <2>2
    <3>2. Len(t) - Len(Suffix(t, Capacity)) + i \in 1..Len(s)
      BY <1>0, <1>1, <1>2, <1>3, <1>4, <2>2
    <3>3. Suffix(t, Capacity)[i] = s[Len(t) - Len(Suffix(t, Capacity)) + i]
      BY <1>2, <1>3, <1>5, <3>2
    <3>4. CASE Len(d) >= Capacity
      <4>1. /\ Len(d) = Capacity /\ Len(t) = Len(s) + 1
            /\ Len(Suffix(t, Capacity)) = Capacity
            /\ i + 1 \in 1..Len(d)
        BY <1>0, <1>1, <1>2, <1>3, <1>4, <2>2, <3>4
      <4>2. e[i] = d[i + 1] /\ d[i + 1] = s[Len(s) - Len(d) + (i + 1)]
        BY <1>1, <1>4, <2>2, <3>4, <4>1
      <4>3. Len(s) - Len(d) + (i + 1) = Len(t) - Len(Suffix(t, Capacity)) + i
        BY <1>0, <2>2, <4>1
      <4> QED
        BY <3>1, <3>3, <4>2, <4>3
    <3>5. CASE ~(Len(d) >= Capacity)
      <4>1. /\ Len(d) = Len(s) /\ Len(t) = Len(s) + 1
            /\ Len(Suffix(t, Capacity)) = Len(t)
            /\ i \in 1..Len(d)
        BY <1>0, <1>1, <1>2, <1>3, <1>4, <2>2, <3>5
      <4>2. e[i] = d[i] /\ d[i] = s[Len(s) - Len(d) + i]
        BY <1>1, <1>4, <2>2, <3>5, <4>1
      <4>3. Len(s) - Len(d) + i = Len(t) - Len(Suffix(t, Capacity)) + i
        BY <4>1
      <4> QED
        BY <3>1, <3>3, <4>2, <4>3
    <3> QED
      BY <3>4, <3>5
  <2> QED
    BY <1>4, <2>1, <2>2
<1>7. Append(e, value) = Suffix(t, Capacity)
  BY <1>3, <1>5, <1>6
<1> QED
  BY <1>7 DEF BufferPush, d, t, e

\* The points of a sparkline are the newest of the buffer.
LEMMA SparklineIsSuffix ==
  ASSUME NEW S, NEW d \in Seq(S), NEW width \in Nat
  PROVE  to_sparkline_data(d, width) = Suffix(d, width)
<1>0. SubSeq(d, 1, Len(d)) = d
  BY SubSeqFull
<1>1. CASE Len(d) < width
  BY <1>0, <1>1 DEF to_sparkline_data, Suffix
<1>2. CASE Len(d) = width
  BY <1>0, <1>2 DEF to_sparkline_data, Suffix
<1>3. CASE Len(d) > width
  <2>1. ~(Len(d) < width) /\ ~(Len(d) <= width)
    BY <1>3
  <2>2. to_sparkline_data(d, width) = SubSeq(d, Len(d) - width + 1, Len(d))
    BY <2>1 DEF to_sparkline_data
  <2>3. Suffix(d, width) = SubSeq(d, Len(d) - width + 1, Len(d))
    BY <2>1 DEF Suffix
  <2> QED
    BY <2>2, <2>3
<1> QED
  BY <1>1, <1>2, <1>3

\* The suffix of a suffix is a suffix.
LEMMA SuffixOfSuffix ==
  ASSUME NEW S, NEW s \in Seq(S), NEW m \in Nat, NEW n \in Nat
  PROVE  Suffix(Suffix(s, m), n) = Suffix(s, IF n < m THEN n ELSE m)
<1> DEFINE k == IF n < m THEN n ELSE m
           a == Suffix(s, m)
           b == Suffix(a, n)
           c == Suffix(s, k)
<1>1. /\ a \in Seq(S) /\ Len(a) = IF Len(s) <= m THEN Len(s) ELSE m
      /\ \A i \in 1..Len(a) : a[i] = s[Len(s) - Len(a) + i]
  BY SuffixProperties
<1>2. k \in Nat /\ k <= m /\ k <= n /\ (k = m \/ k = n)
  OBVIOUS
<1>3. /\ c \in Seq(S) /\ Len(c) = IF Len(s) <= k THEN Len(s) ELSE k
      /\ \A i \in 1..Len(c) : c[i] = s[Len(s) - Len(c) + i]
  BY <1>2, SuffixProperties
<1> HIDE DEF a, c, k
<1>4. /\ b \in Seq(S) /\ Len(b) = IF Len(a) <= n THEN Len(a) ELSE n
      /\ \A i \in 1..Len(b) : b[i] = a[Len(a) - Len(b) + i]
  BY <1>1, SuffixProperties
<1> HIDE DEF b
<1>5. Len(b) = Len(c)
  BY <1>1, <1>2, <1>3, <1>4
<1>6. ASSUME NEW i \in 1..Len(b) PROVE b[i] = c[i]
  <2>0. /\ Len(a) \in Nat /\ Len(b) \in Nat /\ Len(c) \in Nat /\ Len(s) \in Nat
        /\ Len(b) <= Len(a) /\ i \in Nat /\ 1 <= i /\ i <= Len(b)
    BY <1>1, <1>3, <1>4
  <2>1. Len(a) - Len(b) + i \in 1..Len(a)
    BY <2>0
  <2>2. b[i] = s[Len(s) - Len(a) + (Len(a) - Len(b) + i)]
    BY <1>1, <1>4, <2>1
  <2>3. Len(s) - Len(a) + (Len(a) - Len(b) + i) = Len(s) - Len(c) + i
    BY <2>0, <1>5
  <2>4. c[i] = s[Len(s) - Len(c) + i]
    BY <1>3, <1>5
  <2> QED
    BY <2>2, <2>3, <2>4
<1>7. b = c
  BY <1>3, <1>4, <1>5, <1>6
<1> QED
  BY <1>7 DEF a, b, c, k

-----------------------------------------------------------------------------
(* Type correctness. *)

\* A bucket with one more sample is a bucket.
LEMMA PushToIsBucket ==
  ASSUME NEW b \in Bucket, NEW value \in Values, NEW m \in Nat
  PROVE  /\ PushTo(b, value, m) \in Bucket
         /\ PushTo(b, value, m).count > 0 /\ PushTo(b, value, m).minute = m
BY ValueAssumption DEF PushTo, Bucket, NegInfinity

\* The deque after a bucket was finished: its last bucket is that one, the others
\* are those it had, without the oldest when it was full.
LEMMA FinishedBuckets ==
  ASSUME buckets \in Seq(Bucket), Len(buckets) <= MaxBuckets, current_bucket \in Bucket
  PROVE  /\ Finished \in Seq(Bucket) /\ Len(Finished) <= MaxBuckets /\ Len(Finished) > 0
         /\ Finished[Len(Finished)] = current_bucket
         /\ \E k \in {0, 1} :
              /\ k = IF Len(buckets) >= MaxBuckets THEN 1 ELSE 0
              /\ Len(Finished) = Len(buckets) + 1 - k
              /\ \A i \in 1..(Len(Finished) - 1) :
                   i + k \in 1..Len(buckets) /\ Finished[i] = buckets[i + k]
<1> DEFINE e == IF Len(buckets) >= MaxBuckets THEN Tail(buckets) ELSE buckets
<1>0. MaxBuckets \in Nat \ {0}
  BY BucketAssumption
<1>1. /\ e \in Seq(Bucket) /\ Len(e) <= MaxBuckets - 1
      /\ \E k \in {0, 1} :
           /\ k = IF Len(buckets) >= MaxBuckets THEN 1 ELSE 0
           /\ Len(e) = Len(buckets) - k
           /\ \A i \in 1..Len(e) : i + k \in 1..Len(buckets) /\ e[i] = buckets[i + k]
  <2>1. CASE Len(buckets) >= MaxBuckets
    <3>1. /\ e \in Seq(Bucket) /\ Len(e) = MaxBuckets - 1 /\ Len(buckets) = MaxBuckets
          /\ \A i \in 1..Len(e) : i + 1 \in 1..Len(buckets) /\ e[i] = buckets[i + 1]
      BY <1>0, <2>1
    <3> QED
      BY <1>0, <3>1
  <2>2. CASE ~(Len(buckets) >= MaxBuckets)
    <3>1. /\ e \in Seq(Bucket) /\ Len(e) <= MaxBuckets - 1 /\ Len(e) = Len(buckets) - 0
          /\ \A i \in 1..Len(e) : i + 0 \in 1..Len(buckets) /\ e[i] = buckets[i + 0]
      BY <1>0, <2>2
    <3> QED
      BY <3>1
  <2> QED
    BY <2>1, <2>2
<1> HIDE DEF e
<1>2. Finished = Append(e, current_bucket)
  BY DEF Finished, e
<1>3. /\ Finished \in Seq(Bucket) /\ Len(Finished) = Len(e) + 1
      /\ Finished[Len(Finished)] = current_bucket
      /\ \A i \in 1..Len(e) : Finished[i] = e[i]
  BY <1>1, <1>2
<1>4. Len(Finished) <= MaxBuckets /\ Len(Finished) > 0 /\ Len(Finished) - 1 = Len(e)
  BY <1>0, <1>1, <1>3
<1>5. PICK k \in {0, 1} :
        /\ k = IF Len(buckets) >= MaxBuckets THEN 1 ELSE 0
        /\ Len(e) = Len(buckets) - k
        /\ \A i \in 1..Len(e) : i + k \in 1..Len(buckets) /\ e[i] = buckets[i + k]
  BY <1>1
<1>6. Len(Finished) = Len(buckets) + 1 - k
  <2>1. Len(e) \in Nat /\ Len(buckets) \in Nat /\ Len(e) = Len(buckets) - k /\ k \in Int
    BY <1>1, <1>5
  <2> QED
    BY <1>3, <2>1
<1>7. \A i \in 1..(Len(Finished) - 1) :
        i + k \in 1..Len(buckets) /\ Finished[i] = buckets[i + k]
  BY <1>3, <1>4, <1>5
<1> QED
  BY <1>3, <1>4, <1>5, <1>6, <1>7

\* The elements of a log are samples.
LEMMA LogElements ==
  ASSUME NEW l \in Seq([minute : Nat, value : Values]), NEW i \in 1..Len(l)
  PROVE  l[i].value \in Values
<1>1. l[i] \in [minute : Nat, value : Values]
  BY ElementOfSeq
<1> QED
  BY <1>1

\* What was recorded is a sequence of samples.
LEMMA RecordedIsSeq ==
  ASSUME log \in Seq([minute : Nat, value : Values])
  PROVE  Recorded \in Seq(Values) /\ Len(Recorded) = Len(log)
<1>1. \A i \in 1..Len(log) : log[i].value \in Values
  BY LogElements
<1>2. Len(log) \in Nat
  OBVIOUS
<1> QED
  BY <1>1, <1>2 DEF Recorded

LEMMA InitTypeOK == Init => TypeOK
<1> SUFFICES ASSUME Init PROVE TypeOK
  OBVIOUS
<1>1. current_bucket \in Bucket
  BY DEF Init, NewBucket, Bucket
<1>2. data \in Seq(Values) /\ Len(data) <= Capacity
  BY CapacityAssumption DEF Init, EmptyBuffer
<1>3. buckets \in Seq(Bucket) /\ Len(buckets) <= MaxBuckets
  BY BucketAssumption DEF Init
<1> QED
  BY <1>1, <1>2, <1>3, BoundAssumption DEF Init, TypeOK

\* What record() does to the variables.
LEMMA RecordTypeOK ==
  ASSUME TypeOK, NEW value \in Values, record(value)
  PROVE  TypeOK'
<1> USE DEF TypeOK
<1>0. NewBucket \in Bucket /\ minute \in Nat
  BY BoundAssumption DEF NewBucket, Bucket
<1>1. data' \in Seq(Values) /\ Len(data') <= Capacity
  BY CapacityAssumption DEF record, BufferPush
<1>2. buckets' \in Seq(Bucket) /\ Len(buckets') <= MaxBuckets
  BY FinishedBuckets DEF record, push
<1>3. current_bucket' \in Bucket
  BY <1>0, PushToIsBucket DEF record, push
<1>4. log' \in Seq([minute : Nat, value : Values])
  BY <1>0 DEF record
<1> QED
  BY <1>1, <1>2, <1>3, <1>4 DEF record, push

LEMMA NextTypeOK == TypeOK /\ [Next]_vars => TypeOK'
<1> SUFFICES ASSUME TypeOK, [Next]_vars PROVE TypeOK'
  OBVIOUS
<1>1. CASE MinutePasses
  BY <1>1, BoundAssumption DEF MinutePasses, TypeOK
<1>2. CASE \E value \in Values : record(value)
  BY <1>2, RecordTypeOK
<1>3. CASE UNCHANGED vars
  BY <1>3 DEF vars, TypeOK
<1> QED
  BY <1>1, <1>2, <1>3 DEF Next, Finish

\* The variables keep their types; buffer and deque keep their bounds.
THEOREM TypeCorrect == Spec => []TypeOK
BY InitTypeOK, NextTypeOK, PTL DEF Spec

-----------------------------------------------------------------------------
(* The charts. *)

LEMMA NextHoldsLastSamples ==
  TypeOK /\ HoldsLastSamples /\ [Next]_vars => HoldsLastSamples'
<1> SUFFICES ASSUME TypeOK, HoldsLastSamples, [Next]_vars PROVE HoldsLastSamples'
  OBVIOUS
<1>1. ASSUME NEW value \in Values, record(value)
      PROVE  HoldsLastSamples'
  <2>1. Recorded \in Seq(Values) /\ Len(Recorded) = Len(log)
    BY RecordedIsSeq DEF TypeOK
  <2>2. log' = Append(log, [minute |-> minute, value |-> value])
    BY <1>1 DEF record
  <2>3. log \in Seq([minute : Nat, value : Values])
    BY DEF TypeOK
  <2>4. /\ log' \in Seq([minute : Nat, value : Values])
        /\ Len(log') = Len(log) + 1
        /\ \A i \in 1..Len(log) : log'[i] = log[i]
        /\ log'[Len(log) + 1].value = value
    BY <1>1, <2>2, <2>3, NextTypeOK DEF TypeOK
  <2>5. Recorded' \in Seq(Values) /\ Len(Recorded') = Len(log) + 1
    <3>1. \A i \in 1..Len(log') : log'[i].value \in Values
      BY <2>4, LogElements
    <3>2. Len(log') \in Nat
      BY <2>4
    <3> QED
      BY <2>4, <3>1, <3>2 DEF Recorded
  <2>6. \A i \in 1..Len(Recorded') : Recorded'[i] = Append(Recorded, value)[i]
    <3> SUFFICES ASSUME NEW i \in 1..(Len(log) + 1)
                 PROVE  Recorded'[i] = Append(Recorded, value)[i]
      BY <2>5
    <3>1. Recorded'[i] = log'[i].value
      BY <2>4 DEF Recorded
    <3>2. CASE i = Len(log) + 1
      BY <2>1, <2>4, <3>1, <3>2
    <3>3. CASE i \in 1..Len(log)
      <4>1. Append(Recorded, value)[i] = Recorded[i]
        BY <2>1, <3>3
      <4>2. Recorded[i] = log[i].value
        BY <3>3 DEF Recorded
      <4> QED
        BY <2>4, <3>1, <3>3, <4>1, <4>2
    <3>4. Len(log) \in Nat
      BY <2>3
    <3>5. i = Len(log) + 1 \/ i \in 1..Len(log)
      BY <3>4
    <3> QED
      BY <3>2, <3>3, <3>5
  <2>7. Recorded' = Append(Recorded, value)
    <3>1. Append(Recorded, value) \in Seq(Values) /\ Len(Append(Recorded, value)) = Len(Recorded')
      BY <2>1, <2>5
    <3> QED
      BY <2>5, <2>6, <3>1, SeqEqual
  <2>8. data' = BufferPush(Suffix(Recorded, Capacity), value)
    BY <1>1 DEF record, HoldsLastSamples
  <2> QED
    BY <2>1, <2>7, <2>8, PushKeepsSuffix DEF HoldsLastSamples
<1>2. CASE MinutePasses \/ UNCHANGED vars
  BY <1>2 DEF MinutePasses, vars, HoldsLastSamples, Recorded
<1> QED
  BY <1>1, <1>2 DEF Next, Finish

\* The ring buffer is its definition: the last Capacity samples, oldest first.
THEOREM BufferHoldsLastSamples == Spec => []HoldsLastSamples
<1>1. Init => HoldsLastSamples
  <2> SUFFICES ASSUME Init PROVE HoldsLastSamples
    OBVIOUS
  <2>1. Len(log) = 0 /\ Recorded = <<>>
    BY DEF Init, Recorded
  <2> QED
    BY <2>1, CapacityAssumption DEF Init, HoldsLastSamples, EmptyBuffer, Suffix
<1> QED
  BY <1>1, NextHoldsLastSamples, TypeCorrect, PTL DEF Spec

\* A sparkline of any width shows the newest samples.
THEOREM SparklinesAreRecent == Spec => []SparklineIsRecent
<1>1. TypeOK /\ HoldsLastSamples => SparklineIsRecent
  <2> SUFFICES ASSUME TypeOK, HoldsLastSamples, NEW width \in 0..(Capacity + 1)
               PROVE  to_sparkline_data(data, width)
                        = Suffix(Recorded, IF width < Capacity THEN width ELSE Capacity)
    BY DEF SparklineIsRecent
  <2>1. width \in Nat /\ Capacity \in Nat
    BY CapacityAssumption
  <2>2. Recorded \in Seq(Values) /\ data \in Seq(Values)
    BY RecordedIsSeq DEF TypeOK
  <2>3. to_sparkline_data(data, width) = Suffix(Suffix(Recorded, Capacity), width)
    BY <2>1, <2>2, SparklineIsSuffix DEF HoldsLastSamples
  <2> QED
    BY <2>1, <2>2, <2>3, SuffixOfSuffix
<1> QED
  BY <1>1, TypeCorrect, BufferHoldsLastSamples, PTL

-----------------------------------------------------------------------------
(* The minutes. *)

\* A sample in the running minute, or after minutes without any.
LEMMA RecordKeepsMinutes ==
  ASSUME TypeOK, BucketsInOrder, NEW value \in Values, record(value)
  PROVE  BucketsInOrder'
<1> USE DEF TypeOK
<1>0. NewBucket \in Bucket /\ minute \in Nat /\ current_minute \in Nat
  BY BoundAssumption DEF NewBucket, Bucket
<1>1. current_minute' = minute /\ minute' = minute /\ current_minute <= minute
  BY DEF record, push, BucketsInOrder
<1>2. current_bucket'.count > 0 /\ current_bucket'.minute = minute
  <2>1. \/ current_bucket' = PushTo(NewBucket, value, minute)
        \/ current_bucket' = PushTo(current_bucket, value, minute)
    BY DEF record, push
  <2>2. \A b \in Bucket : /\ PushTo(b, value, minute).count > 0
                           /\ PushTo(b, value, minute).minute = minute
    BY <1>0, PushToIsBucket
  <2>3. NewBucket \in Bucket /\ current_bucket \in Bucket
    BY <1>0
  <2> QED
    BY ONLY <2>1, <2>2, <2>3
<1>3. CASE minute > current_minute /\ current_bucket.count > 0
  <2>1. buckets' = Finished
    BY <1>3 DEF record, push
  <2> DEFINE n == Len(Finished)
  <2>2. /\ Finished \in Seq(Bucket) /\ n > 0 /\ Finished[n] = current_bucket
    BY FinishedBuckets
  <2>3. PICK k \in {0, 1} : \A i \in 1..(n - 1) :
               i + k \in 1..Len(buckets) /\ Finished[i] = buckets[i + k]
    BY FinishedBuckets
  <2>4. current_bucket.minute = current_minute
    BY <1>3 DEF BucketsInOrder
  <2>5. \A i \in 1..(n - 1) : Finished[i].count > 0 /\ Finished[i].minute < current_minute
    BY <2>3 DEF BucketsInOrder
  <2>6. \A i \in 1..n : Finished[i].count > 0 /\ Finished[i].minute < minute
    <3> TAKE i \in 1..n
    <3>0. Finished[i].minute \in Nat
      <4>1. Finished[i] \in Bucket
        BY <2>2, ElementOfSeq
      <4> QED
        BY <4>1 DEF Bucket
    <3>1. CASE i = n
      BY <1>3, <2>2, <2>4, <3>1
    <3>2. CASE i \in 1..(n - 1)
      BY <1>0, <1>3, <2>5, <3>0, <3>2
    <3> QED
      BY <2>2, <3>1, <3>2
  <2>7. \A i, j \in 1..n : i < j => Finished[i].minute < Finished[j].minute
    <3> SUFFICES ASSUME NEW i \in 1..n, NEW j \in 1..n, i < j
                 PROVE  Finished[i].minute < Finished[j].minute
      OBVIOUS
    <3>0. i \in 1..(n - 1)
      BY <2>2
    <3>1. CASE j = n
      BY <2>2, <2>4, <2>5, <3>0, <3>1
    <3>2. CASE j \in 1..(n - 1)
      <4>1. i + k \in 1..Len(buckets) /\ j + k \in 1..Len(buckets) /\ i + k < j + k
        BY <2>3, <3>0, <3>2
      <4>2. Finished[i] = buckets[i + k] /\ Finished[j] = buckets[j + k]
        BY <2>3, <3>0, <3>2
      <4> QED
        BY <4>1, <4>2 DEF BucketsInOrder
    <3> QED
      BY <2>2, <3>1, <3>2
  <2> QED
    BY <1>0, <1>1, <1>2, <2>1, <2>2, <2>6, <2>7 DEF BucketsInOrder
<1>4. CASE ~(minute > current_minute /\ current_bucket.count > 0)
  <2>1. buckets' = buckets
    BY <1>4 DEF record, push
  <2>2. \A i \in 1..Len(buckets) : buckets[i].minute \in Nat
    <3> TAKE i \in 1..Len(buckets)
    <3>1. buckets[i] \in Bucket
      BY ElementOfSeq
    <3> QED
      BY <3>1 DEF Bucket
  <2>3. \A i \in 1..Len(buckets) : buckets[i].count > 0 /\ buckets[i].minute < minute
    BY <1>0, <1>1, <2>2 DEF BucketsInOrder
  <2> QED
    BY <1>0, <1>1, <1>2, <2>1, <2>3 DEF BucketsInOrder
<1> QED
  BY <1>3, <1>4

\* The minutes of the buckets are in order, and no finished bucket is empty.
LEMMA OrderOfBuckets == Spec => []BucketsInOrder
<1>1. Init => BucketsInOrder
  BY DEF Init, NewBucket, BucketsInOrder
<1>2. TypeOK /\ BucketsInOrder /\ [Next]_vars => BucketsInOrder'
  <2> SUFFICES ASSUME TypeOK, BucketsInOrder, [Next]_vars PROVE BucketsInOrder'
    OBVIOUS
  <2>1. CASE MinutePasses
    BY <2>1, BoundAssumption DEF MinutePasses, BucketsInOrder, TypeOK
  <2>2. CASE \E value \in Values : record(value)
    BY <2>2, RecordKeepsMinutes
  <2>3. CASE UNCHANGED vars
    BY <2>3 DEF vars, BucketsInOrder
  <2> QED
    BY <2>1, <2>2, <2>3 DEF Next, Finish
<1> QED
  BY <1>1, <1>2, TypeCorrect, PTL DEF Spec

-----------------------------------------------------------------------------
(* The samples of a window. *)

\* A minute with samples is the current one or has a bucket, unless all the buckets
\* that the deque can hold are of later minutes.
MinutesKept ==
  \A m \in SampledMinutes :
    \/ m = current_minute
    \/ \E i \in 1..Len(buckets) : buckets[i].minute = m
    \/ Len(buckets) = MaxBuckets /\ \A i \in 1..Len(buckets) : m < buckets[i].minute

\* The inductive invariant behind the statistics: a bucket is the sum, the number and
\* the maximum of exactly the samples of its minute, and no minute that fits into the
\* deque is missing.
BucketsHoldSamples ==
  /\ \A i \in 1..Len(buckets) : Holds(buckets[i])
  /\ IF log = <<>> THEN current_bucket = NewBucket /\ buckets = <<>>
     ELSE current_bucket.count > 0 /\ Holds(current_bucket)
  /\ \A i \in 1..Len(log) : log[i].minute <= current_minute
  /\ MinutesKept

LogType == Seq([minute : Nat, value : Values])

\* Every set of samples is a finite set of positions in the log.
LEMMA LogFacts ==
  ASSUME log \in LogType
  PROVE  /\ Len(log) \in Nat /\ DOMAIN log = 1..Len(log) /\ IsFiniteSet(1..Len(log))
         /\ \A i \in 1..Len(log) : log[i].minute \in Nat /\ log[i].value \in Nat
         /\ \A I \in SUBSET (1..Len(log)) : IsFiniteSet(I) /\ Cardinality(I) \in Nat
         /\ \A M : SamplesOf(M) \in SUBSET (1..Len(log))
<1>1. /\ Len(log) \in Nat /\ DOMAIN log = 1..Len(log)
  BY DEF LogType
<1>2. IsFiniteSet(1..Len(log))
  BY <1>1, FS_Interval
<1>3. \A i \in 1..Len(log) : log[i] \in [minute : Nat, value : Values]
  BY ElementOfSeq DEF LogType
<1>4. \A i \in 1..Len(log) : log[i].minute \in Nat /\ log[i].value \in Nat
  BY <1>3, ValueAssumption
<1> QED
  BY <1>1, <1>2, <1>4, FS_Subset, FS_CardinalityType DEF SamplesOf

\* Totals are numbers, and those of two separate sets of samples add up.
LEMMA TotalFacts ==
  ASSUME log \in LogType
  PROVE  /\ \A I \in SUBSET (1..Len(log)) : TotalOf(I) \in Nat
         /\ TotalOf({}) = 0
         /\ \A I, J \in SUBSET (1..Len(log)) :
              I \cap J = {} => /\ TotalOf(I \cup J) = TotalOf(I) + TotalOf(J)
                               /\ Cardinality(I \cup J) = Cardinality(I) + Cardinality(J)
<1> DEFINE f == [i \in DOMAIN log |-> log[i].value]
<1>1. \A i \in 1..Len(log) : f[i] \in Nat
  BY LogFacts
<1>2. \A I \in SUBSET (1..Len(log)) : IsFiniteSet(I)
  BY LogFacts
<1>3. \A I : TotalOf(I) = SumFunctionOnSet(f, I)
  BY DEF TotalOf
<1> HIDE DEF f
<1>4. \A I \in SUBSET (1..Len(log)) : TotalOf(I) \in Nat
  <2> TAKE I \in SUBSET (1..Len(log))
  <2>1. \A i \in I : f[i] \in Nat
    BY <1>1
  <2> QED
    BY <1>2, <1>3, <2>1, SumNat
<1>5. TotalOf({}) = 0
  BY <1>3, SumEmpty
<1>6. ASSUME NEW I \in SUBSET (1..Len(log)), NEW J \in SUBSET (1..Len(log)), I \cap J = {}
      PROVE  /\ TotalOf(I \cup J) = TotalOf(I) + TotalOf(J)
             /\ Cardinality(I \cup J) = Cardinality(I) + Cardinality(J)
  <2>1. IsFiniteSet(I) /\ IsFiniteSet(J) /\ Cardinality(I) \in Nat /\ Cardinality(J) \in Nat
    BY <1>2, FS_CardinalityType
  <2>2. \A x \in J \cup I : f[x] \in Int
    BY <1>1
  <2>3. TotalOf(I \cup J) = TotalOf(I) + TotalOf(J)
    BY <1>3, <1>6, <2>1, <2>2, SumUnion
  <2>4. Cardinality(I \cup J) = Cardinality(I) + Cardinality(J)
    <3>1. Cardinality(I \cup J) = Cardinality(I) + Cardinality(J) - Cardinality(I \cap J)
      BY <2>1, FS_Union
    <3>2. Cardinality(I \cap J) = 0
      BY <1>6, FS_EmptySet
    <3> QED
      BY <2>1, <3>1, <3>2
  <2> QED
    BY <2>3, <2>4
<1> QED
  BY <1>4, <1>5, <1>6

\* A record adds one sample at the end of the log.
LEMMA LogGrows ==
  ASSUME log \in LogType, NEW value \in Values, minute \in Nat,
         log' = Append(log, [minute |-> minute, value |-> value])
  PROVE  /\ log' \in LogType /\ log' # <<>>
         /\ Len(log') = Len(log) + 1 /\ Len(log) \in Nat
         /\ \A i \in 1..Len(log) : log'[i] = log[i]
         /\ log'[Len(log) + 1].minute = minute /\ log'[Len(log) + 1].value = value
<1>1. [minute |-> minute, value |-> value] \in [minute : Nat, value : Values]
  OBVIOUS
<1> QED
  BY <1>1 DEF LogType

\* The sample belongs to the running minute and to no other.
LEMMA SamplesGrow ==
  ASSUME log \in LogType, NEW value \in Values, minute \in Nat,
         log' = Append(log, [minute |-> minute, value |-> value])
  PROVE  /\ \A m : m # minute => SamplesAt(m)' = SamplesAt(m)
         /\ \A m : m = minute => SamplesAt(m)' = SamplesAt(m) \cup {Len(log) + 1}
<1>1. 1..Len(log') = 1..Len(log) \cup {Len(log) + 1} /\ Len(log) + 1 \notin 1..Len(log)
  BY LogGrows
<1> QED
  BY <1>1, LogGrows DEF SamplesAt, SamplesOf

\* The sum of a function that got one more argument.
LEMMA SumGrows ==
  ASSUME NEW I, IsFiniteSet(I), NEW n, n \notin I, NEW f, NEW g,
         \A i \in I : f[i] \in Nat /\ g[i] = f[i], g[n] \in Nat
  PROVE  /\ SumFunctionOnSet(g, I) = SumFunctionOnSet(f, I)
         /\ SumFunctionOnSet(g, I \cup {n}) = SumFunctionOnSet(f, I) + g[n]
<1>1. SumFunctionOnSet(g, I) = SumFunctionOnSet(f, I)
  BY SumEqual
<1>2. SumFunctionOnSet(g, I \cup {n}) = g[n] + SumFunctionOnSet(g, I)
  BY SumAdd
<1>3. SumFunctionOnSet(f, I) \in Nat
  BY SumNat
<1> QED
  BY <1>1, <1>2, <1>3

\* The total of old samples is what it was; with the new one it is more by its value.
LEMMA TotalGrows ==
  ASSUME log \in LogType, NEW value \in Values, minute \in Nat,
         log' = Append(log, [minute |-> minute, value |-> value]),
         NEW I, I \in SUBSET (1..Len(log)), NEW n, n = Len(log) + 1
  PROVE  /\ TotalOf(I)' = TotalOf(I)
         /\ TotalOf(I \cup {n})' = TotalOf(I) + value
         /\ Cardinality(I \cup {n}) = Cardinality(I) + 1
<1>1. /\ DOMAIN log = 1..Len(log) /\ DOMAIN log' = 1..n /\ Len(log) \in Nat
      /\ \A i \in 1..Len(log) : log[i].value \in Nat
      /\ IsFiniteSet(I) /\ Cardinality(I) \in Nat /\ n \notin I
  BY LogFacts, LogGrows DEF LogType
<1>2. PICK f : f = [i \in DOMAIN log |-> log[i].value]
  OBVIOUS
<1>3. PICK g : g = [i \in DOMAIN log' |-> log'[i].value]
  OBVIOUS
<1>4. \A i \in I : f[i] \in Nat /\ g[i] = f[i]
  BY <1>1, <1>2, <1>3, LogGrows
<1>5. g[n] = value /\ value \in Nat
  BY <1>1, <1>3, LogGrows, ValueAssumption
<1>6. /\ SumFunctionOnSet(g, I) = SumFunctionOnSet(f, I)
      /\ SumFunctionOnSet(g, I \cup {n}) = SumFunctionOnSet(f, I) + g[n]
  <2>1. IsFiniteSet(I) /\ n \notin I /\ g[n] \in Nat
    BY <1>1, <1>5
  <2> QED
    BY ONLY <1>4, <2>1, SumGrows
<1>7. Cardinality(I \cup {n}) = Cardinality(I) + 1
  BY <1>1, FS_AddElement
<1>8. TotalOf(I) = SumFunctionOnSet(f, I)
  BY <1>2 DEF TotalOf
<1>9. TotalOf(I)' = SumFunctionOnSet(g, I)
  BY <1>3 DEF TotalOf
<1>10. TotalOf(I \cup {n})' = SumFunctionOnSet(g, I \cup {n})
  BY <1>3 DEF TotalOf
<1> QED
  BY <1>5, <1>6, <1>7, <1>8, <1>9, <1>10

\* A bucket of another minute is not concerned by a sample.
LEMMA HoldsStays ==
  ASSUME log \in LogType, NEW value \in Values, minute \in Nat,
         log' = Append(log, [minute |-> minute, value |-> value]),
         NEW b, Holds(b), b.minute # minute
  PROVE  Holds(b)'
<1>1. SamplesAt(b.minute)' = SamplesAt(b.minute)
  BY SamplesGrow
<1>2. SamplesAt(b.minute) \in SUBSET (1..Len(log))
  BY LogFacts DEF SamplesAt
<1>3. TotalOf(SamplesAt(b.minute))' = TotalOf(SamplesAt(b.minute))
  <2>1. PICK I : I = SamplesAt(b.minute)
    OBVIOUS
  <2>2. TotalOf(I)' = TotalOf(I)
    BY <1>2, <2>1, TotalGrows
  <2>3. TotalOf(SamplesAt(b.minute))' = TotalOf(I)'
    BY <1>1, <2>1 DEF TotalOf
  <2> QED
    BY <2>1, <2>2, <2>3
<1>4. \A i \in SamplesAt(b.minute) : log'[i] = log[i]
  BY <1>2, LogGrows
<1> QED
  BY <1>1, <1>3, <1>4 DEF Holds

\* A sample goes into the bucket of its minute.
LEMMA HoldsPushed ==
  ASSUME log \in LogType, NEW value \in Values, minute \in Nat,
         log' = Append(log, [minute |-> minute, value |-> value]),
         NEW b \in Bucket, NEW c, c = PushTo(b, value, minute),
         \/ b.minute = minute /\ Holds(b)
         \/ SamplesAt(minute) = {} /\ b = NewBucket
  PROVE  Holds(c)'
<1>1. PICK n : n = Len(log) + 1
  OBVIOUS
<1>2. PICK I : I = SamplesAt(minute)
  OBVIOUS
<1>3. I \in SUBSET (1..Len(log)) /\ SamplesAt(c.minute)' = I \cup {n}
  BY <1>1, <1>2, LogFacts, SamplesGrow DEF SamplesAt, PushTo
<1>4. /\ b.sum = TotalOf(I) /\ b.count = Cardinality(I)
      /\ \A i \in I : log[i].value <= b.max
      /\ I # {} => \E i \in I : log[i].value = b.max
      /\ I = {} => b.max = NegInfinity
  <2>1. CASE b.minute = minute /\ Holds(b)
    BY <1>2, <2>1 DEF Holds
  <2>2. CASE SamplesAt(minute) = {} /\ b = NewBucket
    BY <1>2, <2>2, TotalFacts, FS_EmptySet DEF NewBucket
  <2> QED
    BY <2>1, <2>2
<1>5. TotalOf(I \cup {n})' = TotalOf(I) + value /\ Cardinality(I \cup {n}) = Cardinality(I) + 1
  BY <1>1, <1>3, TotalGrows
<1>6. TotalOf(SamplesAt(c.minute))' = TotalOf(I \cup {n})'
  BY <1>3 DEF TotalOf
<1>7. c.sum = TotalOf(SamplesAt(c.minute))' /\ c.count = Cardinality(SamplesAt(c.minute)')
  BY <1>3, <1>4, <1>5, <1>6 DEF PushTo
<1>8. value \in Nat /\ b.max \in Nat \cup {NegInfinity} /\ NegInfinity = -1 /\ b.max \in Int
  BY ValueAssumption DEF Bucket, NegInfinity
<1>9. /\ \A i \in I : log'[i].value = log[i].value /\ log[i].value \in Int
      /\ log'[n].value = value
  <2>1. log'[n].value = value /\ \A i \in 1..Len(log) : log'[i] = log[i]
    BY <1>1, LogGrows
  <2>2. \A i \in 1..Len(log) : log[i].value \in Int
    <3>1. \A i \in 1..Len(log) : log[i].value \in Nat
      BY LogFacts
    <3> QED
      BY <3>1
  <2> QED
    BY <1>3, <2>1, <2>2
<1>10. \A i \in I \cup {n} : log'[i].value <= c.max
  <2>1. value <= c.max /\ b.max <= c.max /\ c.max \in Int
    BY <1>8 DEF PushTo
  <2>2. \A i \in I : log'[i].value <= c.max
    <3> TAKE i \in I
    <3>1. log'[i].value = log[i].value /\ log[i].value \in Int
      BY <1>9
    <3>2. log[i].value <= b.max
      BY <1>4
    <3>3. b.max <= c.max /\ b.max \in Int /\ c.max \in Int
      BY <1>8, <2>1
    <3> QED
      BY ONLY <3>1, <3>2, <3>3
  <2> QED
    BY <1>9, <2>1, <2>2
<1>11. \E i \in I \cup {n} : log'[i].value = c.max
  <2>1. CASE value > b.max
    BY <1>9, <2>1 DEF PushTo
  <2>2. CASE ~ (value > b.max)
    <3>1. I # {} /\ c.max = b.max
      BY <1>4, <1>8, <2>2 DEF PushTo
    <3> QED
      BY <1>4, <1>9, <3>1
  <2> QED
    BY <2>1, <2>2
<1> QED
  BY <1>3, <1>7, <1>10, <1>11 DEF Holds

\* Recording keeps the invariant: in a new minute the current bucket is finished and
\* only a minute older than all others can leave the deque.
LEMMA RecordHoldsSamples ==
  ASSUME TypeOK, BucketsInOrder, BucketsHoldSamples, NEW value \in Values, record(value)
  PROVE  BucketsHoldSamples'
<1>0. /\ log \in LogType /\ minute \in Nat /\ current_minute \in Nat /\ MaxBuckets \in Nat \ {0}
      /\ log' = Append(log, [minute |-> minute, value |-> value])
      /\ current_minute' = minute /\ minute' = minute /\ current_minute <= minute
      /\ buckets \in Seq(Bucket) /\ Len(buckets) <= MaxBuckets /\ current_bucket \in Bucket
      /\ Len(buckets) \in Nat
  BY BoundAssumption, BucketAssumption DEF TypeOK, LogType, record, push, BucketsInOrder
<1>1. log' # <<>> /\ Len(log') = Len(log) + 1 /\ Len(log) \in Nat
  BY <1>0, LogGrows
<1>2. \A i \in 1..Len(log') : log'[i].minute <= current_minute'
  <2>1. \A i \in 1..Len(log) : log[i].minute <= current_minute /\ log[i].minute \in Nat
    BY <1>0, LogFacts DEF BucketsHoldSamples
  <2>2. \A i \in 1..Len(log') : i \in 1..Len(log) \/ i = Len(log) + 1
    BY <1>1
  <2> QED
    BY <1>0, <2>1, <2>2, LogGrows
<1>3. \A m \in SampledMinutes' : m \in SampledMinutes \/ m = minute
  <2>1. \A i \in 1..Len(log') : i \in 1..Len(log) \/ i = Len(log) + 1
    BY <1>1
  <2> QED
    BY <1>0, <2>1, LogGrows DEF SampledMinutes
<1>4. \A i \in 1..Len(buckets) : buckets[i].minute \in Nat /\ buckets[i].minute < current_minute
  <2> TAKE i \in 1..Len(buckets)
  <2>1. buckets[i] \in Bucket
    BY <1>0, ElementOfSeq
  <2> QED
    BY <2>1 DEF Bucket, BucketsInOrder
<1>5. ASSUME NEW b, NEW i \in 1..Len(buckets), b = buckets[i] PROVE Holds(b)'
  <2>1. Holds(b) /\ b.minute # minute
    BY <1>0, <1>4, <1>5 DEF BucketsHoldSamples
  <2> QED
    BY <1>0, <2>1, HoldsStays
<1>6. NewBucket \in Bucket
  BY DEF NewBucket, Bucket
<1>7. ASSUME NEW c, c = current_bucket', Holds(c)'
      PROVE  Holds(current_bucket)'
  BY <1>7 DEF Holds
<1>8. PICK c : c = current_bucket'
  OBVIOUS
<1>9. CASE minute > current_minute /\ current_bucket.count > 0
  <2>1. buckets' = Finished /\ current_bucket' = PushTo(NewBucket, value, minute)
    BY <1>9 DEF record, push
  <2>2. log # <<>>
    BY <1>9 DEF BucketsHoldSamples, NewBucket
  <2>3. current_bucket.minute = current_minute
    BY <1>9 DEF BucketsInOrder
  <2>4. SamplesAt(minute) = {}
    <3>1. \A i \in 1..Len(log) : log[i].minute \in Nat /\ log[i].minute <= current_minute
      BY <1>0, LogFacts DEF BucketsHoldSamples
    <3> QED
      BY <1>0, <1>9, <3>1 DEF SamplesAt, SamplesOf
  <2>5. Holds(c)'
    BY <1>0, <1>6, <1>8, <2>1, <2>4, HoldsPushed
  <2>6. current_bucket'.count > 0
    BY <2>1 DEF PushTo, NewBucket
  <2>7. PICK b : b = current_bucket
    OBVIOUS
  <2>8. Holds(b)'
    <3>1. Holds(b) /\ b.minute # minute
      BY <1>0, <1>9, <2>2, <2>3, <2>7 DEF BucketsHoldSamples
    <3> QED
      BY <1>0, <3>1, HoldsStays
  <2> DEFINE n == Len(Finished)
  <2>9. /\ Finished \in Seq(Bucket) /\ n > 0 /\ n \in Nat /\ Finished[n] = current_bucket
    BY <1>0, FinishedBuckets
  <2>10. PICK k \in {0, 1} :
           /\ k = IF Len(buckets) >= MaxBuckets THEN 1 ELSE 0
           /\ n = Len(buckets) + 1 - k
           /\ \A i \in 1..(n - 1) : i + k \in 1..Len(buckets) /\ Finished[i] = buckets[i + k]
    BY <1>0, FinishedBuckets
  <2>11. ASSUME NEW i \in 1..Len(buckets') PROVE Holds(buckets[i])'
    <3>1. CASE i = n
      BY <2>1, <2>7, <2>8, <2>9, <3>1 DEF Holds
    <3>2. CASE i \in 1..(n - 1)
      <4>1. PICK d : d = Finished[i]
        OBVIOUS
      <4>2. Holds(d)'
        BY <1>5, <2>10, <3>2, <4>1
      <4> QED
        BY <2>1, <4>1, <4>2 DEF Holds
    <3> QED
      BY <2>1, <2>9, <3>1, <3>2
  <2>12. MinutesKept'
    <3> SUFFICES ASSUME NEW m \in SampledMinutes', m # minute
                 PROVE  \/ \E i \in 1..n : Finished[i].minute = m
                        \/ n = MaxBuckets /\ \A i \in 1..n : m < Finished[i].minute
      BY <1>0, <2>1 DEF MinutesKept
    <3>1. m \in SampledMinutes
      BY <1>3
    <3>2. m \in Nat
      BY <1>0, <3>1, LogFacts DEF SampledMinutes
    <3>3. CASE m = current_minute
      BY <2>3, <2>9, <3>3
    <3>4. CASE \E j \in 1..Len(buckets) : buckets[j].minute = m
      <4>1. PICK j \in 1..Len(buckets) : buckets[j].minute = m
        BY <3>4
      <4>2. CASE j - k \in 1..(n - 1)
        <5>1. Finished[j - k] = buckets[j] /\ j - k \in 1..n
          BY <2>9, <2>10, <4>2
        <5> QED
          BY <4>1, <5>1
      <4>3. CASE j - k \notin 1..(n - 1)
        <5>1. j = 1 /\ k = 1 /\ n = MaxBuckets /\ Len(buckets) = MaxBuckets
          BY <1>0, <2>9, <2>10, <4>3
        <5>2. \A i \in 1..(n - 1) : m < Finished[i].minute
          BY <2>10, <4>1, <5>1 DEF BucketsInOrder
        <5>3. m < Finished[n].minute
          BY <1>4, <2>3, <2>9, <4>1
        <5>4. \A i \in 1..n : m < Finished[i].minute
          BY <2>9, <5>2, <5>3
        <5> QED
          BY <5>1, <5>4
      <4> QED
        BY <4>2, <4>3
    <3>5. CASE Len(buckets) = MaxBuckets /\ \A i \in 1..Len(buckets) : m < buckets[i].minute
      <4>1. k = 1 /\ n = MaxBuckets
        BY <1>0, <2>9, <2>10, <3>5
      <4>2. \A i \in 1..(n - 1) : m < Finished[i].minute
        BY <2>10, <3>5, <4>1
      <4>3. m < Finished[n].minute
        <5>1. m < buckets[1].minute /\ buckets[1].minute < current_minute /\ buckets[1].minute \in Nat
          BY <1>0, <1>4, <3>5
        <5> QED
          BY <1>0, <2>3, <2>9, <3>2, <5>1
      <4>4. \A i \in 1..n : m < Finished[i].minute
        BY <2>9, <4>2, <4>3
      <4> QED
        BY <4>1, <4>4
    <3> QED
      BY <3>1, <3>3, <3>4, <3>5 DEF BucketsHoldSamples, MinutesKept
  <2> HIDE DEF n
  <2> QED
    BY <1>1, <1>2, <1>7, <1>8, <2>5, <2>6, <2>11, <2>12 DEF BucketsHoldSamples
<1>10. CASE ~(minute > current_minute /\ current_bucket.count > 0)
  <2>1. buckets' = buckets /\ current_bucket' = PushTo(current_bucket, value, minute)
    BY <1>10 DEF record, push
  <2>2. CASE log = <<>>
    <3>1. current_bucket = NewBucket /\ buckets = <<>>
      BY <2>2 DEF BucketsHoldSamples
    <3>2. SamplesAt(minute) = {}
      BY <2>2 DEF SamplesAt, SamplesOf
    <3>3. Holds(c)'
      BY <1>0, <1>6, <1>8, <2>1, <3>1, <3>2, HoldsPushed
    <3>4. MinutesKept'
      <4>1. SampledMinutes = {}
        BY <2>2 DEF SampledMinutes
      <4> QED
        BY <1>0, <1>3, <4>1 DEF MinutesKept
    <3>5. current_bucket'.count > 0
      BY <2>1, <3>1 DEF PushTo, NewBucket
    <3> QED
      BY <1>1, <1>2, <1>7, <1>8, <2>1, <3>1, <3>3, <3>4, <3>5 DEF BucketsHoldSamples
  <2>3. CASE log # <<>>
    <3>1. Holds(current_bucket) /\ current_bucket.count > 0 /\ current_bucket.minute = current_minute
      BY <2>3 DEF BucketsHoldSamples, BucketsInOrder
    <3>2. minute = current_minute
      BY <1>0, <1>10, <3>1
    <3>3. Holds(c)'
      BY <1>0, <1>8, <2>1, <3>1, <3>2, HoldsPushed
    <3>4. MinutesKept'
      BY <1>0, <1>3, <2>1, <3>2 DEF MinutesKept, BucketsHoldSamples
    <3>5. current_bucket'.count > 0
      BY <1>0, <2>1, <3>1 DEF PushTo, Bucket
    <3>6. ASSUME NEW i \in 1..Len(buckets') PROVE Holds(buckets[i])'
      <4>1. PICK d : d = buckets[i]
        OBVIOUS
      <4>2. Holds(d)'
        BY <1>5, <2>1, <4>1
      <4> QED
        BY <2>1, <4>1, <4>2 DEF Holds
    <3> QED
      BY <1>1, <1>2, <1>7, <1>8, <3>3, <3>4, <3>5, <3>6 DEF BucketsHoldSamples
  <2> QED
    BY <2>2, <2>3
<1> QED
  BY <1>9, <1>10

\* M[1], ..., M[n + 1] are members of S in increasing order, and any w + 1 last members
\* of S are among them.
ListsLast(M, n, S, w) ==
  /\ S \in SUBSET Nat /\ IsFiniteSet(S)
  /\ \A i \in 1..(n + 1) : M[i] \in S
  /\ \A i, j \in 1..(n + 1) : i < j => M[i] < M[j]
  /\ \A m \in S : \/ \E j \in 1..(n + 1) : M[j] = m
                  \/ w <= n /\ \A j \in 1..(n + 1) : m < M[j]

\* Then the w + 1 last members of S are the w + 1 last of the list.
LEMMA LatestOfIncreasing ==
  ASSUME NEW S, NEW n \in Nat, NEW M, NEW w \in Nat, ListsLast(M, n, S, w)
  PROVE  /\ \A m \in Latest(S, w + 1) : \E i \in 1..(n + 1) : i > n - w /\ m = M[i]
         /\ \A i \in 1..(n + 1) : i > n - w => M[i] \in Latest(S, w + 1)
<1> USE DEF ListsLast
<1> DEFINE Above(l) == {k \in S : k > l}
           Up(i) == {M[j] : j \in i..(n + 1)}
<1>1. \A i \in 1..(n + 1) : M[i] \in Nat
  OBVIOUS
<1>2. \A k : IsFiniteSet(Above(k)) /\ Cardinality(Above(k)) \in Nat
  <2> TAKE k
  <2>1. Above(k) \in SUBSET S
    OBVIOUS
  <2> HIDE DEF Above
  <2> QED
    BY <2>1, FS_Subset, FS_CardinalityType
<1>3. \A i \in 1..(n + 2) : IsFiniteSet(Up(i)) /\ Cardinality(Up(i)) = n + 2 - i
  <2> TAKE i \in 1..(n + 2)
  <2>1. IsFiniteSet(i..(n + 1)) /\ Cardinality(i..(n + 1)) = n + 2 - i
    BY FS_Interval
  <2>2. PICK J : J = i..(n + 1)
    OBVIOUS
  <2>3. \A x, y \in J : M[x] = M[y] => x = y
    <3> SUFFICES ASSUME NEW x \in J, NEW y \in J, M[x] = M[y], x # y PROVE FALSE
      OBVIOUS
    <3>1. x \in 1..(n + 1) /\ y \in 1..(n + 1)
      BY <2>2
    <3>2. M[x] \in Nat /\ M[y] \in Nat
      BY <1>1, <3>1
    <3>3. x < y \/ y < x
      BY <3>1
    <3> QED
      BY <3>1, <3>2, <3>3
  <2>4. IsFiniteSet({M[x] : x \in J}) /\ Cardinality({M[x] : x \in J}) = Cardinality(J)
    <3>1. IsFiniteSet(J)
      BY <2>1, <2>2
    <3> QED
      BY ONLY <3>1, <2>3, ImageFinite, ImageCardinality
  <2> QED
    BY <2>1, <2>2, <2>4
<1>4. ASSUME NEW i \in 1..(n + 1) PROVE Above(M[i]) = Up(i + 1)
  <2>1. Up(i + 1) \subseteq Above(M[i])
    OBVIOUS
  <2>2. ASSUME NEW k \in Above(M[i]) PROVE k \in Up(i + 1)
    <3>1. k \in S /\ k > M[i] /\ k \in Nat /\ M[i] \in Nat
      BY <1>1
    <3>2. PICK j \in 1..(n + 1) : M[j] = k
      BY <3>1
    <3>3. j > i
      BY <1>1, <3>1, <3>2
    <3> QED
      BY <3>2, <3>3
  <2> QED
    BY <2>1, <2>2
<1>5. ASSUME NEW i \in 1..(n + 1) PROVE Cardinality(Above(M[i])) < w + 1 <=> i > n - w
  <2>1. Cardinality(Above(M[i])) = n + 2 - (i + 1)
    <3>1. i + 1 \in 1..(n + 2)
      OBVIOUS
    <3>2. Above(M[i]) = Up(i + 1)
      BY <1>4
    <3> HIDE DEF Above, Up
    <3> QED
      BY <1>3, <3>1, <3>2
  <2> QED
    BY <2>1
<1>6. ASSUME NEW m, m \in S, w <= n, \A j \in 1..(n + 1) : m < M[j]
      PROVE  ~ (Cardinality(Above(m)) < w + 1)
  <2>1. Up(1) \in SUBSET Above(m)
    BY <1>6
  <2>2. Cardinality(Up(1)) <= Cardinality(Above(m))
    <3> HIDE DEF Above, Up
    <3> QED
      BY <1>2, <2>1, FS_Subset
  <2>3. Cardinality(Up(1)) = n + 1
    <3>1. 1 \in 1..(n + 2) /\ n + 2 - 1 = n + 1
      OBVIOUS
    <3> HIDE DEF Up
    <3> QED
      BY <1>3, <3>1
  <2> QED
    BY <1>2, <1>6, <2>2, <2>3
<1>7. \A l : l \in Latest(S, w + 1) <=> l \in S /\ Cardinality(Above(l)) < w + 1
  BY DEF Latest
<1> HIDE DEF Above, Up
<1>8. ASSUME NEW m \in Latest(S, w + 1) PROVE \E i \in 1..(n + 1) : i > n - w /\ m = M[i]
  BY <1>5, <1>6, <1>7, <1>8
<1>9. ASSUME NEW i \in 1..(n + 1), i > n - w PROVE M[i] \in Latest(S, w + 1)
  BY <1>5, <1>7, <1>9
<1> QED
  BY <1>8, <1>9

LEMMA InitHoldsSamples == Init => BucketsHoldSamples
<1> SUFFICES ASSUME Init PROVE BucketsHoldSamples
  OBVIOUS
<1>1. log = <<>> /\ buckets = <<>> /\ current_bucket = NewBucket
  BY DEF Init
<1>2. SampledMinutes = {}
  BY <1>1 DEF SampledMinutes
<1> QED
  BY <1>1, <1>2 DEF BucketsHoldSamples, MinutesKept

LEMMA SameHoldsSamples ==
  ASSUME BucketsHoldSamples, UNCHANGED <<buckets, current_bucket, current_minute, log>>
  PROVE  BucketsHoldSamples'
<1>1. buckets' = buckets /\ current_bucket' = current_bucket
      /\ current_minute' = current_minute /\ log' = log
  OBVIOUS
<1>3. Holds(current_bucket)' <=> Holds(current_bucket)
  BY <1>1 DEF Holds, SamplesAt, SamplesOf, TotalOf
<1>4. \A i \in 1..Len(buckets) : Holds(buckets[i])' <=> Holds(buckets[i])
  BY <1>1 DEF Holds, SamplesAt, SamplesOf, TotalOf
<1>5. MinutesKept' <=> MinutesKept
  BY <1>1 DEF MinutesKept, SampledMinutes
<1> QED
  BY <1>1, <1>3, <1>4, <1>5 DEF BucketsHoldSamples

\* Every bucket, the finished and the current, stands for exactly the samples recorded
\* in its minute, and no minute is lost before the deque is full.
THEOREM BucketsHoldTheirSamples == Spec => []BucketsHoldSamples
<1>1. TypeOK /\ BucketsInOrder /\ BucketsHoldSamples /\ [Next]_vars => BucketsHoldSamples'
  <2> SUFFICES ASSUME TypeOK, BucketsInOrder, BucketsHoldSamples, [Next]_vars
               PROVE  BucketsHoldSamples'
    OBVIOUS
  <2>1. CASE MinutePasses
    BY <2>1, SameHoldsSamples DEF MinutePasses
  <2>2. CASE \E value \in Values : record(value)
    BY <2>2, RecordHoldsSamples
  <2>3. CASE UNCHANGED vars
    BY <2>3, SameHoldsSamples DEF vars
  <2> QED
    BY <2>1, <2>2, <2>3 DEF Next, Finish
<1> QED
  BY <1>1, InitHoldsSamples, TypeCorrect, OrderOfBuckets, PTL DEF Spec

\* Every bucket stands for exactly the samples of one minute: no sample is counted in a
\* bucket of another minute, in two buckets, or in none while its minute has one.
THEOREM BucketsAreOfOneMinute == Spec => []BucketsAreMinutes
<1>1. BucketsInOrder /\ BucketsHoldSamples => BucketsAreMinutes
  BY DEF BucketsHoldSamples, BucketsAreMinutes
<1> QED
  BY <1>1, OrderOfBuckets, BucketsHoldTheirSamples, PTL

\* The minutes of a window are the last minutes with samples.
LEMMA WindowMinutes ==
  ASSUME TypeOK, BucketsInOrder, BucketsHoldSamples, log # <<>>,
         NEW w \in Nat, w <= MaxBuckets
  PROVE  Latest(SampledMinutes, w + 1)
           = {current_minute} \cup {buckets[i].minute : i \in Window(w)}
<1>0. /\ log \in LogType /\ current_minute \in Nat /\ MaxBuckets \in Nat \ {0}
      /\ buckets \in Seq(Bucket) /\ Len(buckets) \in Nat
      /\ Holds(current_bucket) /\ current_bucket.minute = current_minute
  BY BoundAssumption, BucketAssumption DEF TypeOK, LogType, BucketsHoldSamples, BucketsInOrder
<1>1. PICK n \in Nat : n = Len(buckets)
  BY <1>0
<1>2. PICK M : M = [i \in 1..(n + 1) |-> IF i <= n THEN buckets[i].minute ELSE current_minute]
  OBVIOUS
<1>3. PICK S : S = SampledMinutes
  OBVIOUS
<1>4. S \in SUBSET Nat /\ IsFiniteSet(S)
  <2>1. \A i \in 1..Len(log) : log[i].minute \in Nat
    BY <1>0, LogFacts
  <2>2. PICK I : I = 1..Len(log)
    OBVIOUS
  <2>3. PICK f : f = [i \in I |-> log[i].minute]
    OBVIOUS
  <2>4. IsFiniteSet({f[x] : x \in I})
    <3>1. IsFiniteSet(I)
      BY <1>0, <2>2, LogFacts
    <3> QED
      BY ONLY <3>1, ImageFinite
  <2> QED
    BY <1>3, <2>1, <2>2, <2>3, <2>4 DEF SampledMinutes
<1>5. /\ \A i \in 1..n : M[i] = buckets[i].minute /\ buckets[i].minute \in Nat
                         /\ buckets[i].minute < current_minute
      /\ M[n + 1] = current_minute
  <2>1. \A i \in 1..n : buckets[i] \in Bucket
    BY <1>0, <1>1, ElementOfSeq
  <2> QED
    BY <1>1, <1>2, <2>1 DEF Bucket, BucketsInOrder
<1>6. ASSUME NEW b, Holds(b) PROVE b.minute \in S
  BY <1>6, <1>3 DEF Holds, SamplesAt, SamplesOf, SampledMinutes
<1>7. \A i \in 1..(n + 1) : M[i] \in S
  <2> TAKE i \in 1..(n + 1)
  <2>1. CASE i = n + 1
    BY <1>0, <1>5, <1>6, <2>1
  <2>2. CASE i \in 1..n
    <3>1. Holds(buckets[i])
      BY <1>1, <2>2 DEF BucketsHoldSamples
    <3> QED
      BY <1>5, <1>6, <2>2, <3>1
  <2> QED
    BY <2>1, <2>2
<1>8. \A i, j \in 1..(n + 1) : i < j => M[i] < M[j]
  <2> SUFFICES ASSUME NEW i \in 1..n, NEW j \in 1..(n + 1), i < j PROVE M[i] < M[j]
    OBVIOUS
  <2>1. CASE j = n + 1
    BY <1>5, <2>1
  <2>2. CASE j \in 1..n
    BY <1>1, <1>5, <2>2 DEF BucketsInOrder
  <2> QED
    BY <2>1, <2>2
<1>9. \A m \in S : \/ \E j \in 1..(n + 1) : M[j] = m
                   \/ w <= n /\ \A j \in 1..(n + 1) : m < M[j]
  <2> SUFFICES ASSUME NEW m \in S, \A j \in 1..(n + 1) : M[j] # m
               PROVE  w <= n /\ \A j \in 1..(n + 1) : m < M[j]
    OBVIOUS
  <2>1. m # current_minute
    BY <1>5
  <2>2. ~ \E i \in 1..Len(buckets) : buckets[i].minute = m
    BY <1>1, <1>5
  <2>3. Len(buckets) = MaxBuckets /\ \A i \in 1..Len(buckets) : m < buckets[i].minute
    BY <1>3, <2>1, <2>2 DEF BucketsHoldSamples, MinutesKept
  <2>4. \A j \in 1..n : m < M[j]
    BY <1>1, <1>5, <2>3
  <2>5. m < M[n + 1]
    <3>1. 1 \in 1..n /\ m \in Nat
      BY <1>0, <1>1, <1>4, <2>3
    <3>2. m < buckets[1].minute /\ buckets[1].minute < current_minute /\ buckets[1].minute \in Nat
      BY <1>1, <1>5, <2>3, <3>1
    <3> QED
      BY <1>0, <1>5, <3>1, <3>2
  <2> QED
    BY <1>0, <1>1, <2>3, <2>4, <2>5
<1>10. ListsLast(M, n, S, w)
  BY <1>4, <1>7, <1>8, <1>9 DEF ListsLast
<1>11. /\ \A m \in Latest(S, w + 1) : \E i \in 1..(n + 1) : i > n - w /\ m = M[i]
       /\ \A i \in 1..(n + 1) : i > n - w => M[i] \in Latest(S, w + 1)
  BY <1>10, LatestOfIncreasing
<1>12. ASSUME NEW i \in 1..(n + 1), i > n - w
       PROVE  M[i] \in Latest(S, w + 1)
  BY <1>11, <1>12
<1>13. ASSUME NEW m \in Latest(S, w + 1)
       PROVE  m = current_minute \/ \E j \in Window(w) : m = buckets[j].minute
  <2>1. PICK i \in 1..(n + 1) : i > n - w /\ m = M[i]
    BY <1>11
  <2> QED
    BY <1>1, <1>5, <2>1 DEF Window
<1>14. current_minute \in Latest(S, w + 1)
  <2>1. n + 1 > n - w /\ n + 1 \in 1..(n + 1)
    OBVIOUS
  <2> QED
    BY <1>5, <1>12, <2>1
<1>15. ASSUME NEW j \in Window(w) PROVE buckets[j].minute \in Latest(S, w + 1)
  <2>1. j \in 1..(n + 1) /\ j > n - w /\ M[j] = buckets[j].minute
    BY <1>1, <1>5 DEF Window
  <2> QED
    BY <1>12, <2>1
<1> QED
  BY <1>3, <1>13, <1>14, <1>15

\* The samples of a window: those of the current minute and those of its buckets.
WindowSamples(w) ==
  SamplesAt(current_minute) \cup UNION {SamplesAt(buckets[i].minute) : i \in Window(w)}

\* A window is a finite set of buckets of different minutes, each with its samples.
LEMMA WindowFacts ==
  ASSUME TypeOK, BucketsInOrder, BucketsHoldSamples, log # <<>>,
         NEW w \in Nat, w <= MaxBuckets
  PROVE  /\ SamplesOf(Latest(SampledMinutes, w + 1)) = WindowSamples(w)
         /\ IsFiniteSet(Window(w)) /\ Window(w) \in SUBSET (1..Len(buckets))
         /\ Holds(current_bucket) /\ current_bucket.minute = current_minute
         /\ current_bucket \in Bucket
         /\ \A i \in Window(w) :
              /\ Holds(buckets[i]) /\ buckets[i] \in Bucket
              /\ buckets[i].minute < current_minute
         /\ \A i, j \in Window(w) : i # j => buckets[i].minute # buckets[j].minute
<1>1. /\ buckets \in Seq(Bucket) /\ Len(buckets) \in Nat /\ current_bucket \in Bucket
      /\ current_minute \in Nat
  BY BoundAssumption DEF TypeOK
<1>2. SamplesOf(Latest(SampledMinutes, w + 1)) = WindowSamples(w)
  <2>1. Latest(SampledMinutes, w + 1)
          = {current_minute} \cup {buckets[i].minute : i \in Window(w)}
    BY WindowMinutes
  <2> QED
    BY <2>1 DEF WindowSamples, SamplesAt, SamplesOf
<1>3. IsFiniteSet(Window(w)) /\ Window(w) \in SUBSET (1..Len(buckets))
  <2>1. IsFiniteSet(1..Len(buckets))
    BY <1>1, FS_Interval
  <2> QED
    BY <2>1, FS_Subset DEF Window
<1>4. \A i \in 1..Len(buckets) : buckets[i] \in Bucket /\ Holds(buckets[i])
  BY <1>1, ElementOfSeq DEF BucketsHoldSamples
<1>5. \A i, j \in 1..Len(buckets) : i # j => buckets[i].minute # buckets[j].minute
  <2> SUFFICES ASSUME NEW i \in 1..Len(buckets), NEW j \in 1..Len(buckets), i # j
               PROVE  buckets[i].minute # buckets[j].minute
    OBVIOUS
  <2>1. i < j \/ j < i
    BY <1>1
  <2>2. buckets[i].minute \in Nat /\ buckets[j].minute \in Nat
    BY <1>4 DEF Bucket
  <2> QED
    BY <2>1, <2>2 DEF BucketsInOrder
<1>6. Holds(current_bucket) /\ current_bucket.minute = current_minute
  BY DEF BucketsHoldSamples, BucketsInOrder
<1>7. \A i \in 1..Len(buckets) : buckets[i].minute < current_minute
  BY DEF BucketsInOrder
<1> QED
  BY <1>1, <1>2, <1>3, <1>4, <1>5, <1>6, <1>7

\* A sample is of one minute.
LEMMA MinutesApart ==
  ASSUME NEW m, NEW k, m # k
  PROVE  SamplesAt(m) \cap SamplesAt(k) = {}
BY DEF SamplesAt, SamplesOf

\* The buckets of a window add up to its samples.
LEMMA WindowSum ==
  ASSUME TypeOK, BucketsInOrder, BucketsHoldSamples, log # <<>>,
         NEW w \in Nat, w <= MaxBuckets
  PROVE  aggregate_window(w)
           = [sum |-> TotalOf(WindowSamples(w)), count |-> Cardinality(WindowSamples(w))]
<1>0. log \in LogType
  BY DEF TypeOK, LogType
<1>1. PICK W : W = Window(w)
  OBVIOUS
<1>2. PICK P : P = [i \in W |-> SamplesAt(buckets[i].minute)]
  OBVIOUS
<1>3. PICK f : f = [i \in DOMAIN log |-> log[i].value]
  OBVIOUS
<1>4. PICK s : s = [i \in DOMAIN buckets |-> buckets[i].sum]
  OBVIOUS
<1>5. PICK c : c = [i \in DOMAIN buckets |-> buckets[i].count]
  OBVIOUS
<1>6. IsFiniteSet(W) /\ W \in SUBSET DOMAIN buckets
  BY <1>1, WindowFacts DEF TypeOK
<1>7. \A m : /\ SamplesAt(m) \in SUBSET (1..Len(log))
             /\ IsFiniteSet(SamplesAt(m)) /\ Cardinality(SamplesAt(m)) \in Nat
  BY <1>0, LogFacts DEF SamplesAt
<1>8. \A x \in W : IsFiniteSet(P[x])
  BY <1>2, <1>7
<1>9. \A x, y \in W : x # y => P[x] \cap P[y] = {}
  BY <1>1, <1>2, WindowFacts, MinutesApart
<1>10. \A x \in W : \A z \in P[x] : f[z] \in Int
  BY <1>0, <1>2, <1>3, <1>7, LogFacts
<1>11. \A x \in W : s[x] = SumFunctionOnSet(f, P[x]) /\ c[x] = Cardinality(P[x])
  <2> TAKE x \in W
  <2>1. Holds(buckets[x]) /\ x \in DOMAIN buckets
    BY <1>1, <1>6, WindowFacts
  <2> QED
    BY <1>2, <1>3, <1>4, <1>5, <2>1 DEF Holds, TotalOf
<1>12. PICK U : U = UNION {P[x] : x \in W}
  OBVIOUS
<1>13. /\ SumFunctionOnSet(f, U) = SumFunctionOnSet(s, W)
       /\ Cardinality(U) = SumFunctionOnSet(c, W)
  <2>1. IsFiniteSet(W)
    BY <1>6
  <2>2. \A x \in W : s[x] = SumFunctionOnSet(f, P[x])
    BY <1>11
  <2>3. \A x \in W : c[x] = Cardinality(P[x])
    BY <1>11
  <2>4. SumFunctionOnSet(f, U) = SumFunctionOnSet(s, W)
    BY ONLY <1>8, <1>9, <1>10, <1>12, <2>1, <2>2, SumOfParts
  <2>5. Cardinality(U) = SumFunctionOnSet(c, W)
    BY ONLY <1>8, <1>9, <1>12, <2>1, <2>3, CardinalityOfParts
  <2> QED
    BY <2>4, <2>5
<1>14. PICK C : C = SamplesAt(current_minute)
  OBVIOUS
<1>15. WindowSamples(w) = C \cup U
  BY <1>1, <1>2, <1>12, <1>14 DEF WindowSamples
<1>16. C \in SUBSET (1..Len(log)) /\ U \in SUBSET (1..Len(log)) /\ C \cap U = {}
  <2>1. \A x \in W : C \cap P[x] = {}
    <3> TAKE x \in W
    <3>1. buckets[x].minute \in Nat /\ buckets[x].minute < current_minute
      BY <1>1, WindowFacts DEF Bucket
    <3>2. buckets[x].minute # current_minute
      BY <3>1
    <3> QED
      BY <1>2, <1>14, <3>2, MinutesApart
  <2> QED
    BY <1>2, <1>7, <1>12, <1>14, <2>1
<1>17. /\ TotalOf(C \cup U) = TotalOf(C) + TotalOf(U)
       /\ Cardinality(C \cup U) = Cardinality(C) + Cardinality(U)
  BY <1>0, <1>16, TotalFacts
<1>18. current_bucket.sum = TotalOf(C) /\ current_bucket.count = Cardinality(C)
  BY <1>14, WindowFacts DEF Holds
<1>19. TotalOf(U) = SumFunctionOnSet(s, W)
  BY <1>3, <1>13 DEF TotalOf
<1>20. aggregate_window(w)
         = [sum |-> current_bucket.sum + SumFunctionOnSet(s, W),
            count |-> current_bucket.count + SumFunctionOnSet(c, W)]
  BY <1>1, <1>4, <1>5 DEF aggregate_window
<1> QED
  BY <1>13, <1>15, <1>17, <1>18, <1>19, <1>20

\* The greatest maximum of the buckets is the greatest sample.
LEMMA WindowMax ==
  ASSUME TypeOK, BucketsInOrder, BucketsHoldSamples, log # <<>>,
         NEW w \in Nat, w <= MaxBuckets
  PROVE  /\ WindowSamples(w) # {} /\ Cardinality(WindowSamples(w)) \in Nat \ {0}
         /\ max_in_window(w) = MaxOf(WindowSamples(w)) /\ max_in_window(w) \in Nat
<1>0. log \in LogType
  BY DEF TypeOK, LogType
<1>1. PICK W : W = Window(w)
  OBVIOUS
<1>2. PICK I : I = WindowSamples(w)
  OBVIOUS
<1> DEFINE A == {log[i].value : i \in I}
           B == {current_bucket.max} \cup {buckets[i].max : i \in W}
           Fits(b) == /\ b.max \in A
                      /\ \A i \in SamplesAt(b.minute) : log[i].value <= b.max
<1>3. I \in SUBSET (1..Len(log)) /\ IsFiniteSet(I)
  <2>1. I = SamplesOf(Latest(SampledMinutes, w + 1))
    BY <1>2, WindowFacts
  <2> QED
    BY <1>0, <2>1, LogFacts
<1>4. \A i \in I : log[i].value \in Nat
  BY <1>0, <1>3, LogFacts
<1>5. ASSUME NEW b, Holds(b), SamplesAt(b.minute) \subseteq I PROVE Fits(b)
  BY <1>5 DEF Holds
<1>6. Fits(current_bucket)
  <2>1. Holds(current_bucket) /\ SamplesAt(current_bucket.minute) \subseteq I
    BY <1>2, WindowFacts DEF WindowSamples
  <2> QED
    BY <1>5, <2>1
<1>7. \A i \in W : Fits(buckets[i])
  <2> TAKE i \in W
  <2>1. Holds(buckets[i]) /\ SamplesAt(buckets[i].minute) \subseteq I
    BY <1>1, <1>2, WindowFacts DEF WindowSamples
  <2> QED
    BY <1>5, <2>1
<1>8. \A i \in I : \/ i \in SamplesAt(current_bucket.minute)
                   \/ \E j \in W : i \in SamplesAt(buckets[j].minute)
  BY <1>1, <1>2, WindowFacts DEF WindowSamples
<1>9. A \subseteq Nat /\ B \subseteq A /\ B # {}
  BY <1>4, <1>6, <1>7
<1>10. \A a \in A : \E b \in B : a <= b
  <2> SUFFICES ASSUME NEW i \in I PROVE \E b \in B : log[i].value <= b
    OBVIOUS
  <2>1. CASE i \in SamplesAt(current_bucket.minute)
    BY <1>6, <2>1
  <2>2. CASE \E j \in W : i \in SamplesAt(buckets[j].minute)
    BY <1>7, <2>2
  <2> QED
    BY <1>8, <2>1, <2>2
<1>11. IsFiniteSet(A)
  <2>1. PICK f : f = [i \in I |-> log[i].value]
    OBVIOUS
  <2>2. IsFiniteSet({f[i] : i \in I})
    BY ONLY <1>3, ImageFinite
  <2>3. {f[i] : i \in I} = A
    BY <2>1
  <2> QED
    BY <2>2, <2>3
<1>12. I # {} /\ Cardinality(I) \in Nat \ {0}
  <2>1. I # {}
    BY <1>9
  <2> QED
    BY <1>3, <2>1, FS_EmptySet, FS_CardinalityType
<1>13. MaxOf(I) = Max(A) /\ max_in_window(w) = Max(B)
  BY <1>1, <1>12 DEF MaxOf, max_in_window
<1> HIDE DEF A, B
<1>14. IsFiniteSet(B) /\ A # {}
  BY <1>9, <1>11, FS_Subset
<1>15. /\ Max(A) \in A /\ \A y \in A : Max(A) >= y
       /\ Max(B) \in B /\ \A y \in B : Max(B) >= y
  <2>1. A \in SUBSET Int /\ B \in SUBSET Int
    BY <1>9
  <2> QED
    BY <1>9, <1>11, <1>14, <2>1, MaxOfFinite
<1>16. Max(A) = Max(B) /\ Max(B) \in Nat
  <2>1. Max(A) \in Nat /\ Max(B) \in Nat /\ Max(A) >= Max(B)
    BY <1>9, <1>15
  <2>2. PICK b \in B : Max(A) <= b
    BY <1>10, <1>15
  <2>3. b \in Nat /\ Max(B) >= b
    BY <1>9, <1>15
  <2> QED
    BY <2>1, <2>2, <2>3
<1> QED
  BY <1>2, <1>12, <1>13, <1>16

\* Before the first sample every window is empty.
LEMMA NothingInWindow ==
  ASSUME TypeOK, BucketsHoldSamples, log = <<>>, NEW w \in Nat
  PROVE  /\ aggregate_window(w) = [sum |-> 0, count |-> 0]
         /\ max_in_window(w) = NegInfinity
         /\ SampledMinutes = {} /\ \A M : SamplesOf(M) = {}
<1>1. current_bucket = NewBucket /\ buckets = <<>>
  BY DEF BucketsHoldSamples
<1>2. Window(w) = {}
  BY <1>1 DEF Window
<1>3. \A f : SumFunctionOnSet(f, Window(w)) = 0
  BY <1>2, SumEmpty
<1>4. aggregate_window(w) = [sum |-> 0, count |-> 0]
  BY <1>1, <1>3 DEF aggregate_window, NewBucket
<1>5. max_in_window(w) = Max({NegInfinity})
  BY <1>1, <1>2 DEF max_in_window, NewBucket
<1>6. Max({NegInfinity}) = NegInfinity
  <2>1. {NegInfinity} \in SUBSET Int /\ {NegInfinity} # {}
    BY DEF NegInfinity
  <2>2. IsFiniteSet({NegInfinity})
    BY FS_Singleton
  <2>3. Max({NegInfinity}) \in {NegInfinity}
    BY <2>1, <2>2, MaxOfFinite
  <2> QED
    BY <2>3
<1> QED
  BY <1>4, <1>5, <1>6 DEF SampledMinutes, SamplesOf

\* An hour count that the deque holds.
LEMMA HoursFit ==
  ASSUME NEW h \in 1..(MaxBuckets \div HourMinutes)
  PROVE  h * HourMinutes \in Nat /\ h * HourMinutes <= MaxBuckets
<1>1. PICK n \in Nat : n = MaxBuckets
  BY BucketAssumption
<1>2. PICK k \in Nat \ {0} : k = HourMinutes
  BY BucketAssumption
<1>3. PICK q : q = n \div k
  OBVIOUS
<1>4. q \in Int /\ n = k * q + (n % k) /\ n % k \in Nat /\ k * q <= n
  BY <1>3
<1>5. h <= q /\ h \in Nat
  BY <1>1, <1>2, <1>3
<1>6. h * k <= q * k
  BY <1>4, <1>5
<1>7. h * k \in Nat /\ q * k = k * q /\ k * q \in Int
  BY <1>4, <1>5
<1> QED
  BY <1>1, <1>2, <1>4, <1>6, <1>7

\* The statistics of the last h hours are the average and the maximum of the samples of
\* the last h * 60 + 1 minutes that have samples, each counted once.
THEOREM WindowsAreLatestSampledMinutes == Spec => []WindowIsLatestSampledMinutes
<1>1. TypeOK /\ BucketsInOrder /\ BucketsHoldSamples => WindowIsLatestSampledMinutes
  <2> SUFFICES ASSUME TypeOK, BucketsInOrder, BucketsHoldSamples,
                      NEW h \in 1..(MaxBuckets \div HourMinutes), NEW w, w = h * HourMinutes,
                      NEW I, I = SamplesOf(Latest(SampledMinutes, w + 1))
               PROVE  /\ aggregate_window(w) = [sum |-> TotalOf(I), count |-> Cardinality(I)]
                      /\ average_over_hours(h)
                           = IF I = {} THEN 0 ELSE TotalOf(I) \div Cardinality(I)
                      /\ max_over_hours(h) = MaxOf(I)
    BY DEF WindowIsLatestSampledMinutes
  <2>1. w \in Nat /\ w <= MaxBuckets
    BY HoursFit
  <2>2. CASE log = <<>>
    <3>1. /\ aggregate_window(w) = [sum |-> 0, count |-> 0] /\ max_in_window(w) = NegInfinity
          /\ I = {}
      BY <2>1, <2>2, NothingInWindow
    <3>2. TotalOf(I) = 0 /\ Cardinality(I) = 0
      BY <3>1, SumEmpty, FS_EmptySet DEF TotalOf
    <3> QED
      BY <3>1, <3>2 DEF average_over_hours, max_over_hours, MaxOf
  <2>3. CASE log # <<>>
    <3>1. I = WindowSamples(w)
      BY <2>1, <2>3, WindowFacts
    <3>2. aggregate_window(w) = [sum |-> TotalOf(I), count |-> Cardinality(I)]
      BY <2>1, <2>3, <3>1, WindowSum
    <3>3. /\ I # {} /\ Cardinality(I) # 0
          /\ max_in_window(w) = MaxOf(I) /\ max_in_window(w) \in Nat
      BY <2>1, <2>3, <3>1, WindowMax
    <3>4. average_over_hours(h) = TotalOf(I) \div Cardinality(I)
      BY <3>2, <3>3 DEF average_over_hours
    <3>5. max_over_hours(h) = MaxOf(I)
      BY <3>3 DEF max_over_hours, NegInfinity
    <3> QED
      BY <3>2, <3>3, <3>4, <3>5
  <2> QED
    BY <2>2, <2>3
<1> QED
  BY <1>1, TypeCorrect, OrderOfBuckets, BucketsHoldTheirSamples, PTL

-----------------------------------------------------------------------------
(* GpuReadings: the pages. *)

\* While the devices are read, what has been read lies at the position of the
\* device; everything else that a loop leaves behind is gone before the next.
PartialIsInOrder ==
  at = "gpus" => /\ \E S : partial \in Seq(S)
                 /\ Len(partial) = idx
                 /\ \A i \in DOMAIN partial : partial[i].index = i - 1

Loops ==
  /\ at \in {"idle", "gpus", "nvlink", "processes"}
  /\ idx \in Nat
  /\ at = "idle" => idx = 0 /\ partial = <<>>

IInv == Loops /\ PartialIsInOrder /\ PageIsOfOneDevice

\* A sequence that grows keeps its elements where they are.
LEMMA AppendKeepsPlaces ==
  ASSUME NEW S, NEW s \in Seq(S), NEW e
  PROVE  /\ Append(s, e) \in Seq(S \cup {e})
         /\ Len(Append(s, e)) = Len(s) + 1
         /\ Append(s, e)[Len(s) + 1] = e
         /\ \A i \in DOMAIN Append(s, e) :
              i \in Nat /\ (i = Len(s) + 1 \/ (i \in DOMAIN s /\ Append(s, e)[i] = s[i]))
<1> DEFINE T == S \cup {e}
<1>1. S \subseteq T /\ e \in T
  OBVIOUS
<1> HIDE DEF T
<1>2. s \in Seq(T)
  BY <1>1, SeqMonotonic
<1>3. /\ Append(s, e) \in Seq(T)
      /\ Len(Append(s, e)) = Len(s) + 1
      /\ Append(s, e)[Len(s) + 1] = e
      /\ \A i \in DOMAIN Append(s, e) :
           i \in Nat /\ (i = Len(s) + 1 \/ (i \in DOMAIN s /\ Append(s, e)[i] = s[i]))
  BY <1>1, <1>2
<1> QED
  BY <1>3 DEF T

LEMMA InitIInv == GpuInit => IInv
<1> SUFFICES ASSUME GpuInit PROVE IInv
  OBVIOUS
<1> QED
  BY DEF GpuInit, IInv, Loops, PartialIsInOrder, PageIsOfOneDevice

\* The world may change at any time: what has been read stays.
LEMMA WorldIInv ==
  ASSUME IInv, UNCHANGED <<at, idx, partial, shown>>
  PROVE  IInv'
BY DEF IInv, Loops, PartialIsInOrder, PageIsOfOneDevice, shown

LEMMA TickEventIInv == ASSUME IInv, TickEvent PROVE IInv'
<1>1. partial' = <<>> /\ idx' = 0 /\ at' = "gpus" /\ UNCHANGED shown
  BY DEF TickEvent, IInv, Loops
<1>2. <<>> \in Seq({}) /\ Len(<<>>) = 0 /\ DOMAIN <<>> = {}
  OBVIOUS
<1> QED
  BY <1>1, <1>2 DEF IInv, Loops, PartialIsInOrder, PageIsOfOneDevice, shown

\* A device is read into its place, or the whole report fails.
LEMMA ReadGpuIInv ==
  ASSUME IInv, NEW framebuffer, NEW readable, ReadGpu(framebuffer, readable)
  PROVE  IInv'
<1>1. UNCHANGED shown /\ at = "gpus"
  BY DEF ReadGpu
<1>2. PageIsOfOneDevice'
  BY <1>1 DEF IInv, PageIsOfOneDevice, shown
<1>3. CASE idx \in lost
  <2>1. at' = "nvlink" /\ partial' = <<>> /\ idx' = 0
    BY <1>3 DEF ReadGpu
  <2> QED
    BY <1>2, <2>1 DEF IInv, Loops, PartialIsInOrder
<1>4. CASE idx \notin lost
  <2> DEFINE e == collect_device(idx, framebuffer, readable)
  <2>1. /\ partial' = Append(partial, e) /\ e.index = idx
        /\ idx' = idx + 1 /\ at' = "gpus" /\ idx \in Nat
    BY <1>1, <1>4 DEF ReadGpu, collect_device, IInv, Loops
  <2>2. PICK S : partial \in Seq(S)
    BY <1>1 DEF IInv, PartialIsInOrder
  <2>3. Len(partial) = idx /\ \A i \in DOMAIN partial : partial[i].index = i - 1
    BY <1>1 DEF IInv, PartialIsInOrder
  <2> HIDE DEF e
  <2>4. /\ partial' \in Seq(S \cup {e}) /\ Len(partial') = idx'
        /\ \A i \in DOMAIN partial' : partial'[i].index = i - 1
    BY <2>1, <2>2, <2>3, AppendKeepsPlaces
  <2> QED
    BY <1>2, <2>1, <2>4 DEF IInv, Loops, PartialIsInOrder
<1> QED
  BY <1>3, <1>4

\* A complete report is shown, and every sample goes to the history of its device.
LEMMA UpdateGpusIInv == ASSUME IInv, update_gpus PROVE IInv'
<1>1. /\ at = "gpus" /\ gpus' = partial /\ at' = "nvlink" /\ idx' = 0
      /\ UNCHANGED <<nvlink, gpu_processes>>
  BY DEF update_gpus
<1>2. \A i \in DOMAIN partial : partial[i].index = i - 1
  BY <1>1 DEF IInv, PartialIsInOrder
<1>3. \A i \in DOMAIN gpu_histories : gpu_histories[i] \subseteq {i - 1}
  BY DEF IInv, PageIsOfOneDevice
<1>4. gpu_histories' =
        [i \in DOMAIN gpu_histories |->
           IF i \in DOMAIN partial THEN gpu_histories[i] \cup {partial[i].index}
           ELSE gpu_histories[i]]
  BY DEF update_gpus
<1>5. \A i \in DOMAIN gpu_histories' : gpu_histories'[i] \subseteq {i - 1}
  BY <1>2, <1>3, <1>4
<1> QED
  BY <1>1, <1>2, <1>4, <1>5 DEF IInv, Loops, PartialIsInOrder, PageIsOfOneDevice

\* The links are kept by number, apart from what has a position.
LEMMA CollectNvlinkIInv == ASSUME IInv, collect_nvlink PROVE IInv'
BY DEF collect_nvlink, world, IInv, Loops, PartialIsInOrder, PageIsOfOneDevice

\* The process collector touches neither metrics nor histories.
LEMMA ProcessesIInv ==
  ASSUME IInv, (\E readable \in SUBSET Tables : ReadProcesses(readable)) \/ update_gpu_processes
  PROVE  IInv'
<1>1. CASE \E readable \in SUBSET Tables : ReadProcesses(readable)
  BY <1>1 DEF ReadProcesses, IInv, Loops, PartialIsInOrder, PageIsOfOneDevice, shown
<1>2. CASE update_gpu_processes
  BY <1>2 DEF update_gpu_processes, IInv, Loops, PartialIsInOrder, PageIsOfOneDevice
<1> QED
  BY <1>1, <1>2

LEMMA NextIInv == IInv /\ [GpuNext]_gpuVars => IInv'
<1>1. IInv /\ UNCHANGED gpuVars => IInv'
  BY WorldIInv DEF gpuVars, shown
<1>2. IInv /\ (\E g \in Devices : DeviceChanges(g)) => IInv'
  BY WorldIInv DEF DeviceChanges
<1>3. IInv /\ (\E g \in Devices, p \in Pids, entry \in Entries :
                 ProcessChanges(g, p, entry)) => IInv'
  BY WorldIInv DEF ProcessChanges
<1> QED
  BY <1>1, <1>2, <1>3, TickEventIInv, ReadGpuIInv, UpdateGpusIInv, CollectNvlinkIInv,
     ProcessesIInv DEF GpuNext

\* The metrics and the history that the GPU view puts on one page are of one device,
\* whichever devices get lost between any two calls of NVML.
THEOREM PagesAreOfOneDevice == GpuSpec => []PageIsOfOneDevice
<1>1. IInv => PageIsOfOneDevice
  BY DEF IInv
<1> QED
  BY <1>1, InitIInv, NextIInv, PTL DEF GpuSpec

-----------------------------------------------------------------------------
(* The memory of a device and the rows of its processes. *)

\* What was read of a device that has been steady is what its tables say now.
UsedBy(g) == collect_process_used_gpu_memory(g, Tables)
Reads(g, r) == r.shared => r.used = UsedBy(g)
RowsRead(g, rows) == {row \in rows : row.gpu = g} = RowsOf(g, Tables)
Rows == UNION {partial[i] : i \in DOMAIN partial}

\* The inductive invariant behind the sum: the metrics of the steady devices that the
\* loop has passed, then their rows, are as their tables; the rows of other devices
\* are still to come.
MemoryRead ==
  /\ steady \subseteq Devices /\ idx <= device_count
  /\ at = "gpus" => \A g \in steady : g < idx => Reads(g, partial[g + 1])
  /\ at # "gpus" => \A g \in steady : Reads(g, gpus[g + 1])
  /\ at = "nvlink" => idx = 0 /\ partial = <<>>
  /\ at = "processes" =>
       /\ \E S : partial \in Seq(S)
       /\ \A row \in Rows : row.gpu \in Nat /\ row.gpu < idx
       /\ \A g \in steady : g < idx => RowsRead(g, Rows)
  /\ at = "idle" => \A g \in steady : RowsRead(g, gpu_processes)

LEMMA InitMemoryRead == GpuInit => MemoryRead
BY CountAssumption DEF GpuInit, MemoryRead

LEMMA TickMemoryRead == ASSUME IInv, MemoryRead, TickEvent PROVE MemoryRead'
BY CountAssumption DEF TickEvent, IInv, Loops, MemoryRead, Devices

\* A device whose process tables change is no longer steady; the tables of the others
\* are what they were.
LEMMA WorldMemoryRead ==
  ASSUME IInv, MemoryRead, UNCHANGED <<at, idx, partial, shown>>, steady' \subseteq steady,
         \A g \in steady' : g \in Devices => uses'[g] = uses[g]
  PROVE  MemoryRead'
<1>1. \A g \in steady' : g \in steady /\ uses'[g] = uses[g]
  BY DEF MemoryRead
<1>2. \A g \in steady' : UsedBy(g)' = UsedBy(g) /\ RowsOf(g, Tables)' = RowsOf(g, Tables)
  BY <1>1 DEF UsedBy, collect_process_used_gpu_memory, Largest, RowsOf, RowMemory, Listed, TablesOf
<1>3. /\ at' = at /\ idx' = idx /\ partial' = partial /\ gpus' = gpus
      /\ gpu_processes' = gpu_processes /\ Rows' = Rows
  BY DEF shown, Rows
<1> QED
  BY <1>1, <1>2, <1>3 DEF MemoryRead, Reads, RowsRead

\* The metrics of the device that the loop has come to.
LEMMA ReadGpuMemoryRead ==
  ASSUME IInv, MemoryRead, NEW framebuffer, NEW readable, ReadGpu(framebuffer, readable)
  PROVE  MemoryRead'
<1>1. at = "gpus" /\ idx < device_count /\ idx \in Nat /\ UNCHANGED <<uses, lost, gpus>>
  BY DEF ReadGpu, world, shown, IInv, Loops
<1>2. CASE idx \in lost
  BY <1>1, <1>2, CountAssumption DEF ReadGpu, MemoryRead
<1>3. CASE idx \notin lost
  <2> DEFINE e == collect_device(idx, framebuffer, readable)
  <2>1. /\ partial' = Append(partial, e) /\ idx' = idx + 1 /\ at' = "gpus"
        /\ steady' = IF readable = Tables THEN steady ELSE steady \ {idx}
    BY <1>1, <1>3 DEF ReadGpu
  <2>2. PICK S : partial \in Seq(S)
    BY <1>1 DEF IInv, PartialIsInOrder
  <2>3. Len(partial) = idx
    BY <1>1 DEF IInv, PartialIsInOrder
  <2>0. steady' \subseteq Devices' /\ idx' <= device_count
    BY <1>1, <2>1, CountAssumption DEF MemoryRead, Devices
  <2> SUFFICES ASSUME NEW g \in steady', g < idx + 1
               PROVE  Reads(g, partial[g + 1])'
    <3> HIDE DEF e
    <3> QED
      BY <2>0, <2>1 DEF MemoryRead
  <2>4. g \in steady /\ g \in Nat
    BY <2>1, CountAssumption DEF MemoryRead, Devices
  <2>5. UsedBy(g)' = UsedBy(g)
    BY <1>1 DEF UsedBy, collect_process_used_gpu_memory, Largest, Listed, TablesOf
  <2>6. CASE g = idx
    <3>1. readable = Tables
      BY <2>1, <2>6
    <3>2. Reads(g, e)
      BY <2>6, <3>1 DEF Reads, UsedBy, collect_device
    <3> HIDE DEF e
    <3>3. partial'[g + 1] = e
      BY <2>1, <2>2, <2>3, <2>6, AppendKeepsPlaces
    <3> QED
      BY <2>5, <3>2, <3>3 DEF Reads
  <2>7. CASE g # idx
    <3>1. g < idx /\ g + 1 \in 1..Len(partial)
      BY <1>1, <2>3, <2>4, <2>7
    <3>2. Reads(g, partial[g + 1])
      BY <1>1, <2>4, <3>1 DEF MemoryRead
    <3> HIDE DEF e
    <3>3. partial'[g + 1] = partial[g + 1]
      BY <2>1, <2>2, <3>1
    <3> QED
      BY <2>5, <3>2, <3>3 DEF Reads
  <2> QED
    BY <2>6, <2>7
<1> QED
  BY <1>2, <1>3

\* All devices have been passed when the metrics are shown, and no process has been
\* read when the links are.
LEMMA UpdateMemoryRead ==
  ASSUME IInv, MemoryRead, update_gpus \/ collect_nvlink
  PROVE  MemoryRead'
<1>1. UNCHANGED <<steady, uses>>
  BY DEF update_gpus, collect_nvlink, world
<1>2. \A g : UsedBy(g)' = UsedBy(g)
  BY <1>1 DEF UsedBy, collect_process_used_gpu_memory, Largest, Listed, TablesOf
<1>3. CASE update_gpus
  <2>1. /\ at = "gpus" /\ at' = "nvlink" /\ idx = device_count /\ idx' = 0 /\ partial' = <<>>
        /\ gpus' = partial
    BY <1>3 DEF update_gpus
  <2>2. \A g \in steady : g < idx
    BY <2>1, CountAssumption DEF MemoryRead, Devices
  <2> QED
    BY <1>1, <1>2, <2>1, <2>2, CountAssumption DEF MemoryRead, Reads
<1>4. CASE collect_nvlink
  <2>1. /\ at = "nvlink" /\ at' = "processes" /\ idx' = idx /\ partial' = partial /\ gpus' = gpus
    BY <1>4 DEF collect_nvlink
  <2>2. idx = 0 /\ partial = <<>>
    BY <2>1 DEF MemoryRead
  <2>3. Rows' = {} /\ partial' \in Seq({})
    BY <2>1, <2>2 DEF Rows
  <2>4. \A g \in steady : ~ (g < idx')
    BY <2>1, <2>2, CountAssumption DEF MemoryRead, Devices
  <2> QED
    BY <1>1, <1>2, <2>1, <2>2, <2>3, <2>4, CountAssumption DEF MemoryRead, Reads
<1> QED
  BY <1>3, <1>4

\* The rows of the device that the loop has come to; none of it have been read before.
LEMMA ReadProcessesMemoryRead ==
  ASSUME IInv, MemoryRead, NEW readable, ReadProcesses(readable)
  PROVE  MemoryRead'
<1>1. /\ at = "processes" /\ at' = at /\ idx < device_count /\ idx \in Nat /\ idx' = idx + 1
      /\ UNCHANGED <<uses, gpus>>
      /\ steady' = IF readable = Tables /\ idx \notin lost THEN steady ELSE steady \ {idx}
  BY DEF ReadProcesses, world, shown, IInv, Loops
<1>2. PICK S : partial \in Seq(S)
  BY <1>1 DEF MemoryRead
<1>3. PICK N : N = IF idx \in lost THEN {} ELSE RowsOf(idx, readable)
  OBVIOUS
<1>4. Rows' = Rows \cup N /\ \E T : partial' \in Seq(T)
  <2>1. CASE idx \in lost
    BY <1>2, <1>3, <2>1 DEF ReadProcesses, Rows
  <2>2. CASE idx \notin lost
    <3>1. partial' = Append(partial, N)
      BY <1>3, <2>2 DEF ReadProcesses
    <3>2. partial' \in Seq(S \cup {N})
      BY <1>2, <3>1, AppendKeepsPlaces
    <3>3. /\ DOMAIN partial' = DOMAIN partial \cup {Len(partial) + 1}
          /\ \A i \in DOMAIN partial : partial'[i] = partial[i]
          /\ partial'[Len(partial) + 1] = N
      BY <1>2, <3>1
    <3> QED
      BY <3>2, <3>3 DEF Rows
  <2> QED
    BY <2>1, <2>2
<1>5. \A row \in N : row.gpu = idx
  BY <1>3 DEF RowsOf
<1>6. \A row \in Rows : row.gpu \in Nat /\ row.gpu < idx
  BY <1>1 DEF MemoryRead
<1>7. \A row \in Rows' : row.gpu \in Nat /\ row.gpu < idx'
  <2> TAKE row \in Rows'
  <2>1. CASE row \in N
    BY <1>1, <1>5, <2>1
  <2>2. CASE row \in Rows
    BY <1>1, <1>6, <2>2
  <2> QED
    BY <1>4, <2>1, <2>2
<1>8. ASSUME NEW g \in steady', g < idx'
      PROVE  RowsRead(g, Rows)'
  <2>1. g \in steady /\ g \in Nat
    BY <1>1, CountAssumption DEF MemoryRead, Devices
  <2>2. RowsOf(g, Tables)' = RowsOf(g, Tables)
    BY <1>1 DEF RowsOf, RowMemory, Listed, TablesOf
  <2>3. CASE g = idx
    <3>1. N = RowsOf(g, Tables)
      BY <1>1, <1>3, <2>3
    <3>2. \A row \in Rows : row.gpu # g
      BY <1>1, <1>6, <2>3
    <3>3. {row \in Rows' : row.gpu = g} = N
      BY <1>4, <1>5, <2>3, <3>2
    <3> QED
      BY <2>2, <3>1, <3>3 DEF RowsRead
  <2>4. CASE g # idx
    <3>1. g < idx
      BY <1>1, <1>8, <2>1, <2>4
    <3>2. RowsRead(g, Rows)
      BY <1>1, <2>1, <3>1 DEF MemoryRead
    <3>3. {row \in Rows' : row.gpu = g} = {row \in Rows : row.gpu = g}
      BY <1>4, <1>5, <2>4
    <3> QED
      BY <2>2, <3>2, <3>3 DEF RowsRead
  <2> QED
    BY <2>3, <2>4
<1>9. \A g : UsedBy(g)' = UsedBy(g)
  BY <1>1 DEF UsedBy, collect_process_used_gpu_memory, Largest, Listed, TablesOf
<1>10. \A g \in steady' : Reads(g, gpus[g + 1])'
  BY <1>1, <1>9 DEF MemoryRead, Reads
<1>11. steady' \subseteq Devices' /\ idx' <= device_count
  BY <1>1, CountAssumption DEF MemoryRead, Devices
<1> QED
  BY <1>1, <1>4, <1>7, <1>8, <1>10, <1>11 DEF MemoryRead

LEMMA UpdateProcessesMemoryRead == ASSUME IInv, MemoryRead, update_gpu_processes PROVE MemoryRead'
<1>1. /\ at = "processes" /\ at' = "idle" /\ idx = device_count /\ idx' = 0
      /\ gpu_processes' = Rows /\ UNCHANGED <<steady, uses, gpus>>
  BY DEF update_gpu_processes, world, Rows
<1>2. \A g \in steady : RowsRead(g, Rows)
  BY <1>1, CountAssumption DEF MemoryRead, Devices
<1>3. \A g : /\ UsedBy(g)' = UsedBy(g)
             /\ RowsOf(g, Tables)' = RowsOf(g, Tables)
  BY <1>1 DEF UsedBy, collect_process_used_gpu_memory, Largest, RowsOf, RowMemory, Listed, TablesOf
<1> QED
  BY <1>1, <1>2, <1>3, CountAssumption DEF MemoryRead, Reads, RowsRead

LEMMA NextMemoryRead == IInv /\ MemoryRead /\ [GpuNext]_gpuVars => MemoryRead'
<1> SUFFICES ASSUME IInv, MemoryRead, [GpuNext]_gpuVars PROVE MemoryRead'
  OBVIOUS
<1>1. CASE \E g \in Devices : DeviceChanges(g)
  BY <1>1, WorldMemoryRead DEF DeviceChanges
<1>2. CASE \E g \in Devices, p \in Pids, entry \in Entries : ProcessChanges(g, p, entry)
  <2>1. PICK g \in Devices, p \in Pids, entry \in Entries : ProcessChanges(g, p, entry)
    BY <1>2
  <2>2. /\ UNCHANGED <<at, idx, partial, shown>> /\ steady' = steady \ {g}
        /\ uses' = [uses EXCEPT ![g][p] = entry]
    BY <2>1 DEF ProcessChanges
  <2>3. \A h \in steady' : uses'[h] = uses[h]
    BY <2>2
  <2> QED
    BY <2>2, <2>3, WorldMemoryRead
<1>3. CASE UNCHANGED gpuVars
  BY <1>3, WorldMemoryRead DEF gpuVars, shown
<1> QED
  BY <1>1, <1>2, <1>3, TickMemoryRead, ReadGpuMemoryRead, UpdateMemoryRead,
     ReadProcessesMemoryRead, UpdateProcessesMemoryRead DEF GpuNext

\* The amounts of a process are numbers of at most two tables.
UsesType == uses \in [Devices -> [Pids -> Entries \cup {<<>>}]]

LEMMA UsesTypeCorrect == GpuSpec => []UsesType
<1>1. GpuInit => UsesType
  BY DEF GpuInit, UsesType
<1>2. UsesType /\ [GpuNext]_gpuVars => UsesType'
  <2> SUFFICES ASSUME UsesType, [GpuNext]_gpuVars PROVE UsesType'
    OBVIOUS
  <2>1. CASE \E g \in Devices, p \in Pids, entry \in Entries : ProcessChanges(g, p, entry)
    BY <2>1 DEF ProcessChanges, UsesType, Devices
  <2>2. CASE UNCHANGED uses
    BY <2>2 DEF UsesType, Devices
  <2> QED
    BY <2>1, <2>2 DEF GpuNext, DeviceChanges, TickEvent, ReadGpu, update_gpus, collect_nvlink,
                      ReadProcesses, update_gpu_processes, gpuVars, world
<1> QED
  BY <1>1, <1>2, PTL DEF GpuSpec

\* The row of a process keeps one of its amounts, the other collector the largest.
LEMMA RowIsOneAmount ==
  ASSUME UsesType, NEW g \in Devices, NEW p \in Listed(g, Tables)
  PROVE  /\ RowMemory(g, p, Tables) \in Nat /\ Largest(g, Tables)[p] \in Nat
         /\ RowMemory(g, p, Tables) <= Largest(g, Tables)[p]
         /\ ComputeSaysMost(g) => RowMemory(g, p, Tables) = Largest(g, Tables)[p]
<1> DEFINE e == uses[g][p]
           T == TablesOf(g, p, Tables)
           S == {e[t] : t \in T}
<1>1. p \in Pids /\ T = DOMAIN e \cap Tables /\ T # {}
  BY DEF Listed, TablesOf
<1>2. e \in Entries \cup {<<>>}
  BY <1>1 DEF UsesType
<1>3. \A t \in T : e[t] \in Nat
  <2>1. CASE e \in Entries
    <3>1. e \in [DOMAIN e -> Nat]
      BY <2>1, EntryAssumption
    <3> QED
      BY <1>1, <3>1
  <2>2. CASE e = <<>>
    BY <1>1, <2>2
  <2> QED
    BY <1>2, <2>1, <2>2
<1>4. Largest(g, Tables)[p] = Max(S)
  BY DEF Largest
<1>5. /\ RowMemory(g, p, Tables) = e[IF "compute" \in T THEN "compute" ELSE "graphics"]
      /\ (IF "compute" \in T THEN "compute" ELSE "graphics") \in T
  BY <1>1 DEF RowMemory, Tables
<1>6. T \subseteq {"compute", "graphics"}
  BY <1>1 DEF Tables
<1>7. ComputeSaysMost(g) /\ "compute" \in T /\ "graphics" \in T => e["graphics"] <= e["compute"]
  BY <1>1 DEF ComputeSaysMost, Tables
<1> HIDE DEF e, T
<1>8. S \in SUBSET Int /\ S # {}
  BY <1>1, <1>3
<1>9. IsFiniteSet(S)
  <2>1. IsFiniteSet({"compute", "graphics"})
    <3>1. {"compute", "graphics"} = {"compute"} \cup {"graphics"}
      OBVIOUS
    <3>2. IsFiniteSet({"compute"})
      BY FS_Singleton
    <3> QED
      BY <3>1, <3>2, FS_AddElement
  <2>2. IsFiniteSet(T)
    BY <1>6, <2>1, FS_Subset
  <2> QED
    BY <2>2, ImageFinite
<1>10. Max(S) \in S /\ \A y \in S : Max(S) >= y
  BY <1>8, <1>9, MaxOfFinite
<1>11. PICK t \in T : Max(S) = e[t]
  BY <1>10
<1>12. PICK r \in T : /\ r = IF "compute" \in T THEN "compute" ELSE "graphics"
                      /\ RowMemory(g, p, Tables) = e[r] /\ e[r] <= Max(S)
  BY <1>5, <1>10
<1>13. ComputeSaysMost(g) => e[r] = e[t]
  <2> SUFFICES ASSUME ComputeSaysMost(g) PROVE e[t] <= e[r]
    BY <1>3, <1>11, <1>12
  <2>1. CASE t = r
    BY <1>3, <2>1
  <2>2. CASE t # r
    BY <1>6, <1>7, <1>12, <2>2
  <2> QED
    BY <2>1, <2>2
<1> QED
  BY <1>3, <1>4, <1>11, <1>12, <1>13

\* One row for each process: the sum over the rows is the sum over the processes of the
\* amounts the rows keep, each at most the largest.
LEMMA RowsAddUp ==
  ASSUME UsesType, NEW g \in Devices, RowsRead(g, gpu_processes)
  PROVE  /\ RowsSum(g) <= UsedBy(g)
         /\ ComputeSaysMost(g) => RowsSum(g) = UsedBy(g)
<1>1. PICK L : L = Listed(g, Tables)
  OBVIOUS
<1>2. PICK m : m = [p \in L |-> [gpu |-> g, pid |-> p, type |-> TablesOf(g, p, Tables),
                                 memory |-> RowMemory(g, p, Tables)]]
  OBVIOUS
<1>3. PICK h : h = [row \in gpu_processes |-> row.memory]
  OBVIOUS
<1>4. PICK f : f = [p \in L |-> RowMemory(g, p, Tables)]
  OBVIOUS
<1>5. IsFiniteSet(L)
  BY <1>1, PidAssumption, FS_Subset DEF Listed
<1>6. {m[p] : p \in L} = {row \in gpu_processes : row.gpu = g}
  BY <1>1, <1>2 DEF RowsRead, RowsOf
<1>7. PICK l : l = Largest(g, Tables)
  OBVIOUS
<1>8. \A p \in L : /\ f[p] \in Nat /\ l[p] \in Nat /\ f[p] <= l[p]
                   /\ ComputeSaysMost(g) => f[p] = l[p]
  BY <1>1, <1>4, <1>7, RowIsOneAmount
<1>9. \A p \in L : m[p] \in gpu_processes /\ m[p].pid = p /\ m[p].memory = f[p]
  BY <1>2, <1>4, <1>6
<1>10. \A p \in L : h[m[p]] \in Int /\ f[p] = h[m[p]]
  BY <1>3, <1>8, <1>9
<1>11. \A p, q \in L : m[p] = m[q] => p = q
  BY <1>9
<1>12. SumFunctionOnSet(f, L) = SumFunctionOnSet(h, {m[p] : p \in L})
  BY ONLY <1>5, <1>10, <1>11, SumRenamed
<1>13. RowsSum(g) = SumFunctionOnSet(f, L)
  BY <1>3, <1>6, <1>12 DEF RowsSum
<1>14. UsedBy(g) = SumFunctionOnSet(l, L)
  BY <1>1, <1>7 DEF UsedBy, collect_process_used_gpu_memory
<1>15. SumFunctionOnSet(f, L) <= SumFunctionOnSet(l, L)
  <2>1. \A p \in L : f[p] \in Int /\ l[p] \in Int /\ f[p] <= l[p]
    BY <1>8
  <2> QED
    BY ONLY <1>5, <2>1, SumMonotone
<1>16. ASSUME ComputeSaysMost(g) PROVE SumFunctionOnSet(f, L) = SumFunctionOnSet(l, L)
  <2>1. \A p \in L : f[p] \in Int /\ f[p] = l[p]
    BY <1>8, <1>16
  <2> QED
    BY ONLY <1>5, <2>1, SumEqual
<1> QED
  BY <1>13, <1>14, <1>15, <1>16

\* While the tables of a device neither change nor fail, the rows of its processes never
\* add up to more than the memory shown for a GPU that shares the system's, whatever the
\* two tables say of each process, and to exactly that where the compute table says most.
THEOREM MemoryOfRowsAddsUp == GpuSpec => []MemoryAddsUp
<1>1. IInv /\ MemoryRead /\ UsesType => MemoryAddsUp
  <2> SUFFICES ASSUME IInv, MemoryRead, UsesType, at = "idle",
                      NEW g \in steady, gpus[g + 1].shared
               PROVE  /\ RowsSum(g) <= gpus[g + 1].used
                      /\ ComputeSaysMost(g) => RowsSum(g) = gpus[g + 1].used
    BY DEF MemoryAddsUp
  <2>1. g \in Devices /\ Reads(g, gpus[g + 1]) /\ RowsRead(g, gpu_processes)
    BY DEF MemoryRead
  <2> QED
    BY <2>1, RowsAddUp DEF Reads
<1> QED
  BY <1>1, InitIInv, NextIInv, InitMemoryRead, NextMemoryRead, UsesTypeCorrect, PTL DEF GpuSpec

=============================================================================
