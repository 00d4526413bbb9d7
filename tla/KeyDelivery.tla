------------------------------ MODULE KeyDelivery ------------------------------
(***************************************************************************)
(* What the two threads of module EventLoop promise the user together: key *)
(* presses are handled in the order in which they were typed, each once,   *)
(* and none is lost before the session is over.  Nothing is said of        *)
(* threads, channels, ticks or of the way a session ends.                  *)
(***************************************************************************)
EXTENDS Integers, Sequences

VARIABLES
  typed,    \* number of key presses so far; key press n carries the id n
  pending,  \* ids of the key presses not yet handled
  handled,  \* ids of the key presses handled, in order
  over      \* whether the session has ended

vars == <<typed, pending, handled, over>>

Init == typed = 0 /\ pending = {} /\ handled = <<>> /\ over = FALSE

Type ==
  /\ ~over
  /\ typed' = typed + 1 /\ pending' = pending \cup {typed + 1}
  /\ UNCHANGED <<handled, over>>

\* The oldest key press comes first.
Handle ==
  /\ \E n \in pending :
       /\ \A m \in pending : n <= m
       /\ pending' = pending \ {n} /\ handled' = Append(handled, n)
  /\ UNCHANGED <<typed, over>>

\* What was not handled is dropped.
End == ~over /\ over' = TRUE /\ pending' = {} /\ UNCHANGED <<typed, handled>>

\* After the end keys go to nobody.
TypeInVain == over /\ typed' = typed + 1 /\ UNCHANGED <<pending, handled, over>>

Next == Type \/ Handle \/ End \/ TypeInVain

Spec == Init /\ [][Next]_vars

=============================================================================
