------------------------------- MODULE RingBuffer ------------------------------
(***************************************************************************)
(* RingBuffer of src/domain/history.rs, the samples behind a sparkline or  *)
(* a line chart, as operations on a sequence.  The queries round or        *)
(* average what the buffer holds; what matters is which samples those are. *)
(* clear() has no caller.                                                  *)
(***************************************************************************)
EXTENDS Integers, Sequences

CONSTANT Capacity  \* config.history_length, at least 10 after sanitize

ASSUME CapacityAssumption == Capacity \in Nat \ {0}

\* The last n elements of s (all of them when there are fewer).
Suffix(s, n) ==
  IF Len(s) <= n THEN s ELSE SubSeq(s, Len(s) - n + 1, Len(s))

\* RingBuffer::new
EmptyBuffer == <<>>

\* push: pop_front when full, push_back.
BufferPush(data, value) ==
  Append(IF Len(data) >= Capacity THEN Tail(data) ELSE data, value)

\* Mutant: the oldest points of the buffer instead of the newest.
to_sparkline_data_Oldest(data, max_points) ==
  SubSeq(data, 1, IF Len(data) < max_points THEN Len(data) ELSE max_points)

\* to_sparkline_data, before rounding: skip(len.saturating_sub(max_points)).
to_sparkline_data(data, max_points) ==
  LET skip == IF Len(data) < max_points THEN 0 ELSE Len(data) - max_points
  IN  SubSeq(data, skip + 1, Len(data))

=============================================================================
