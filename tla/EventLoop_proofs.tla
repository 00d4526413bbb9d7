--------------------------- MODULE EventLoop_proofs ---------------------------
(***************************************************************************)
(* Proofs about EventLoop, for every capacity of the channel, every        *)
(* interval and any number of keys and failures: the types (the channel    *)
(* never overflows, the interval keeps its limits), the release of the     *)
(* terminal on every way out, and the spacing of the ticks.                *)
(***************************************************************************)
EXTENDS EventLoop, TLAPS

-----------------------------------------------------------------------------
(* The inductive invariant and its parts.  TypeOK is not inductive by       *)
(* itself: that the hand is full when the thread sends takes HandFull.      *)

\* The event thread sends what it has read, never the empty hand.
HandFull == evPc = "sendInput" => hand \in ChannelEvents

\* The way out is taken in the right order: the mouse is released before the
\* terminal is restored, and an error is known for one.
WayOut ==
  /\ uiPc = "restore" => ~term.mouse
  /\ uiPc = "error" => outcome = "failed"

\* While the thread runs, last_tick is not older than the Tick it sent last, and
\* it goes to send a Tick only when tick_rate has passed.
ClocksAgree ==
  /\ evPc \in {"poll", "sendInput", "tickCheck", "sendTick"} => elapsed <= gap
  /\ evPc = "sendTick" => elapsed >= tick_rate

IInv == TypeOK /\ HandFull /\ WayOut /\ RawModeReleased /\ MouseReleased /\ ClocksAgree

-----------------------------------------------------------------------------
(* Type correctness. *)

USE DEF EvPcs, UiPcs, Outcomes

\* Clamp yields a value between its limits.
LEMMA ClampInRange ==
  ASSUME NEW lo \in Int, NEW x \in Int, NEW hi \in Int, lo <= hi
  PROVE  Clamp(lo, x, hi) \in lo..hi
BY DEF Clamp

\* An event that the terminal delivers and that is not a paste goes to the channel.
LEMMA ReadEvents ==
  ASSUME NEW e \in TtyEvents, e.kind # "paste"
  PROVE  e \in ChannelEvents
BY DEF TtyEvents, ChannelEvents, Idle

\* A key press on the channel carries the id of a key press.
LEMMA PressIds ==
  ASSUME NEW e \in ChannelEvents, e.kind \in PressKinds
  PROVE  e.id \in 1..MaxKeys
BY DEF ChannelEvents, Press, Idle, Tick, PressKinds

\* A key press is a terminal event, a Tick a channel event.
LEMMA EventTypes ==
  /\ \A k \in PressKinds, n \in 1..MaxKeys : Press(k, n) \in TtyEvents
  /\ \A k \in {"idle", "paste"} : Idle(k) \in TtyEvents
  /\ Tick \in ChannelEvents
<1>1. \A k \in PressKinds, n \in 1..MaxKeys : Press(k, n) \in TtyEvents
  BY DEF TtyEvents
<1>2. \A k \in {"idle", "paste"} : Idle(k) \in TtyEvents
  BY DEF TtyEvents
<1>3. Tick \in ChannelEvents
  BY DEF ChannelEvents
<1> QED
  BY <1>1, <1>2, <1>3

LEMMA InitTypeOK == Init => TypeOK
<1> SUFFICES ASSUME Init PROVE TypeOK
  OBVIOUS
<1>1. hand \in ChannelEvents \cup {NoEvent}
  BY DEF Init
<1>2. tty \in Seq(TtyEvents) /\ queue \in Seq(ChannelEvents) /\ handled \in Seq(1..MaxKeys)
  BY DEF Init
<1>3. Len(tty) <= TtySize /\ Len(queue) <= ChannelCap
  BY BoundAssumption, ChannelAssumption DEF Init
<1>4. term \in [raw : BOOLEAN, mouse : BOOLEAN]
  BY DEF Init
<1>5. /\ elapsed \in 0..MaxInterval /\ gap \in 0..MaxInterval
      /\ interval \in MinInterval..MaxInterval /\ paced \in MinInterval..MaxInterval
      /\ typed \in 0..MaxKeys /\ failures \in 0..MaxFailures
  BY IntervalAssumption, BoundAssumption DEF Init
<1> QED
  BY <1>1, <1>2, <1>3, <1>4, <1>5 DEF Init, TypeOK

\* The actions of the user, the terminal and the clock keep the types.
LEMMA WorldTypeOK ==
  ASSUME TypeOK,
         \/ \E k \in PressKinds : PressKey(k)
         \/ \E k \in {"idle", "paste"} : OtherInput(k)
         \/ TimePasses
  PROVE  TypeOK'
<1> USE DEF TypeOK, evVars, history
<1>1. CASE \E k \in PressKinds : PressKey(k)
  <2>1. PICK k \in PressKinds : PressKey(k)
    BY <1>1
  <2>2. typed + 1 \in 1..MaxKeys
    BY <2>1, BoundAssumption DEF PressKey
  <2>3. Press(k, typed + 1) \in TtyEvents
    BY <2>2, EventTypes
  <2>4. tty' \in Seq(TtyEvents) /\ Len(tty') <= TtySize
    BY <2>1, <2>3, BoundAssumption DEF PressKey
  <2> QED
    BY <2>1, <2>2, <2>4, BoundAssumption DEF PressKey
<1>2. CASE \E k \in {"idle", "paste"} : OtherInput(k)
  <2>1. PICK k \in {"idle", "paste"} : OtherInput(k)
    BY <1>2
  <2>2. tty' \in Seq(TtyEvents) /\ Len(tty') <= TtySize
    BY <2>1, EventTypes, BoundAssumption DEF OtherInput
  <2> QED
    BY <2>1, <2>2 DEF OtherInput
<1>3. CASE TimePasses
  <2>1. elapsed' \in 0..MaxInterval /\ gap' \in 0..MaxInterval
    BY <1>3, ClampInRange, IntervalAssumption DEF TimePasses
  <2> QED
    BY <1>3, <2>1 DEF TimePasses
<1> QED
  BY <1>1, <1>2, <1>3

\* The event thread keeps the types.
LEMMA EventThreadTypeOK ==
  ASSUME TypeOK, HandFull, EventThread
  PROVE  TypeOK'
<1> USE DEF TypeOK, history
<1>1. CASE PollInput
  <2>1. Head(tty) \in TtyEvents /\ tty' \in Seq(TtyEvents) /\ Len(tty') <= TtySize
    BY <1>1, BoundAssumption DEF PollInput
  <2>2. hand' \in ChannelEvents \cup {NoEvent} /\ evPc' \in EvPcs
    BY <1>1, <2>1, ReadEvents DEF PollInput
  <2> QED
    BY <1>1, <2>1, <2>2 DEF PollInput
<1>2. CASE PollTimeout
  BY <1>2 DEF PollTimeout
<1>3. CASE PollFails
  BY <1>3, BoundAssumption DEF PollFails
<1>4. CASE SendInput
  BY <1>4, ChannelAssumption DEF SendInput, HandFull
<1>5. CASE TickCheck
  BY <1>5 DEF TickCheck
<1>6. CASE SendTick
  <2>1. queue' \in Seq(ChannelEvents) /\ Len(queue') <= ChannelCap
    BY <1>6, EventTypes, ChannelAssumption DEF SendTick
  <2> QED
    BY <1>6, <2>1, IntervalAssumption DEF SendTick
<1>7. CASE ResetTick
  BY <1>7, IntervalAssumption DEF ResetTick
<1>8. CASE SendFails
  BY <1>8 DEF SendFails
<1> QED
  BY <1>1, <1>2, <1>3, <1>4, <1>5, <1>6, <1>7, <1>8 DEF EventThread

\* The main thread keeps the types.
LEMMA MainThreadTypeOK == ASSUME TypeOK, MainThread PROVE TypeOK'
<1> USE DEF TypeOK, evVars, history
<1>1. CASE InitTerminal
  BY <1>1 DEF InitTerminal
<1>2. CASE CaptureMouse
  <2>1. term' \in [raw : BOOLEAN, mouse : BOOLEAN]
    BY <1>2 DEF CaptureMouse
  <2>2. elapsed' \in 0..MaxInterval /\ gap' \in 0..MaxInterval
    BY <1>2, IntervalAssumption DEF CaptureMouse
  <2> QED
    BY <1>2, <2>1, <2>2 DEF CaptureMouse
<1>3. CASE Collect
  BY <1>3 DEF Collect
<1>4. CASE Draw
  BY <1>4 DEF Draw
<1>5. CASE Recv
  <2>1. /\ Head(queue) \in ChannelEvents
        /\ queue' \in Seq(ChannelEvents) /\ Len(queue') <= ChannelCap
    BY <1>5, ChannelAssumption DEF Recv
  <2>2. interval' \in MinInterval..MaxInterval
    BY <1>5, IntervalAssumption DEF Recv, adjust_interval, Clamp
  <2>3. handled' \in Seq(1..MaxKeys)
    <3>1. handled' = IF Head(queue).kind \in PressKinds
                       THEN Append(handled, Head(queue).id) ELSE handled
      BY <1>5 DEF Recv
    <3>2. CASE Head(queue).kind \in PressKinds
      <4>1. Head(queue).id \in 1..MaxKeys
        BY <2>1, <3>2, PressIds
      <4> QED
        BY <3>1, <3>2, <4>1
    <3> QED
      BY <3>1, <3>2
  <2>4. uiPc' \in UiPcs /\ outcome' \in Outcomes
    BY <1>5 DEF Recv
  <2> QED
    BY <1>5, <2>1, <2>2, <2>3, <2>4 DEF Recv
<1>6. CASE ReleaseMouse
  BY <1>6 DEF ReleaseMouse
<1>7. CASE Restore
  <2>1. term' \in [raw : BOOLEAN, mouse : BOOLEAN]
    BY <1>7 DEF Restore
  <2>2. queue' \in Seq(ChannelEvents) /\ Len(queue') <= ChannelCap
    BY <1>7, ChannelAssumption DEF Restore
  <2> QED
    BY <1>7, <2>1, <2>2 DEF Restore
<1>8. CASE TerminalFails
  BY <1>8, BoundAssumption, ChannelAssumption DEF TerminalFails
<1>9. CASE Panic
  BY <1>9, BoundAssumption, ChannelAssumption DEF Panic
<1>10. CASE RecvFails
  BY <1>10 DEF RecvFails
<1> QED
  BY <1>1, <1>2, <1>3, <1>4, <1>5, <1>6, <1>7, <1>8, <1>9, <1>10 DEF MainThread

LEMMA NextTypeOK == TypeOK /\ HandFull /\ [Next]_vars => TypeOK'
<1>1. TypeOK /\ UNCHANGED vars => TypeOK'
  BY DEF TypeOK, vars
<1>2. TypeOK /\ EventThreadPanics => TypeOK'
  BY BoundAssumption DEF TypeOK, EventThreadPanics, history
<1> QED
  BY <1>1, <1>2, WorldTypeOK, EventThreadTypeOK, MainThreadTypeOK DEF Next, Ended

-----------------------------------------------------------------------------
(* The other parts. *)

\* Only PollInput goes to send, and it takes an event into the hand first.
LEMMA NextHandFull == TypeOK /\ HandFull /\ [Next]_vars => HandFull'
<1> SUFFICES ASSUME TypeOK, HandFull, [Next]_vars PROVE HandFull'
  OBVIOUS
<1> USE DEF HandFull, evVars, history
<1>1. CASE PollInput
  <2>1. Head(tty) \in TtyEvents
    BY <1>1 DEF PollInput, TypeOK
  <2> QED
    BY <1>1, <2>1, ReadEvents DEF PollInput
<1>2. CASE EventThread /\ ~PollInput
  BY <1>2 DEF EventThread, PollTimeout, PollFails, SendInput, TickCheck, SendTick,
              ResetTick, SendFails
<1>3. CASE MainThread
  BY <1>3 DEF MainThread, InitTerminal, CaptureMouse, Collect, Draw, Recv, ReleaseMouse,
              Restore, TerminalFails, Panic, RecvFails
<1>4. CASE UNCHANGED <<evPc, hand>> \/ EventThreadPanics
  BY <1>4 DEF EventThreadPanics
<1> QED
  BY <1>1, <1>2, <1>3, <1>4 DEF Next, PressKey, OtherInput, TimePasses, Ended, vars

\* Every way out of run_ui gives the terminal back.
LEMMA NextTerminal ==
  TypeOK /\ WayOut /\ RawModeReleased /\ MouseReleased /\ [Next]_vars
    => WayOut' /\ RawModeReleased' /\ MouseReleased'
<1> SUFFICES ASSUME TypeOK, WayOut, RawModeReleased, MouseReleased, [Next]_vars
             PROVE  WayOut' /\ RawModeReleased' /\ MouseReleased'
  OBVIOUS
<1> USE DEF WayOut, RawModeReleased, MouseReleased, Alive, TypeOK
<1>1. CASE InitTerminal \/ CaptureMouse \/ Collect \/ Draw \/ Recv \/ RecvFails
  BY <1>1 DEF InitTerminal, CaptureMouse, Collect, Draw, Recv, RecvFails
<1>2. CASE ReleaseMouse \/ Restore
  BY <1>2 DEF ReleaseMouse, Restore
<1>3. CASE TerminalFails \/ Panic \/ EventThreadPanics
  BY <1>3 DEF TerminalFails, Panic, EventThreadPanics
<1>4. CASE UNCHANGED <<uiPc, term, outcome>>
  BY <1>4
<1> QED
  BY <1>1, <1>2, <1>3, <1>4
     DEF Next, MainThread, EventThread, PressKey, OtherInput, TimePasses, PollInput,
         PollTimeout, PollFails, SendInput, TickCheck, SendTick, ResetTick, SendFails,
         Ended, vars

\* Both clocks advance together, and the Tick is recorded before last_tick is
\* reset.
LEMMA NextClocksAgree == TypeOK /\ ClocksAgree /\ [Next]_vars => ClocksAgree'
<1> SUFFICES ASSUME TypeOK, ClocksAgree, [Next]_vars PROVE ClocksAgree'
  OBVIOUS
<1>0. /\ elapsed \in Int /\ gap \in Int /\ 0 <= elapsed /\ 0 <= gap
      /\ elapsed <= MaxInterval /\ gap <= MaxInterval /\ MaxInterval \in Int
      /\ tick_rate \in Int
  BY IntervalAssumption DEF TypeOK, tick_rate
<1> USE DEF ClocksAgree
<1>1. CASE TimePasses
  BY <1>0, <1>1 DEF TimePasses, Clamp
<1>2. CASE EventThread
  BY <1>0, <1>2 DEF EventThread, PollInput, PollTimeout, PollFails, SendInput, TickCheck,
                    SendTick, ResetTick, SendFails, history
<1>3. CASE MainThread
  BY <1>0, <1>3 DEF MainThread, InitTerminal, CaptureMouse, Collect, Draw, Recv,
                    ReleaseMouse, Restore, TerminalFails, Panic, RecvFails, evVars, history
<1>4. CASE UNCHANGED <<evPc, elapsed, gap>> \/ EventThreadPanics
  BY <1>4 DEF EventThreadPanics, history
<1> QED
  BY <1>1, <1>2, <1>3, <1>4 DEF Next, PressKey, OtherInput, evVars, history, Ended, vars

-----------------------------------------------------------------------------
(* The theorems. *)

LEMMA InitIInv == Init => IInv
BY InitTypeOK
   DEF Init, IInv, HandFull, WayOut, RawModeReleased, MouseReleased, ClocksAgree, Alive

\* The inductive invariant holds in every reachable state.
THEOREM Invariance == Spec => []IInv
<1>1. IInv /\ [Next]_vars => IInv'
  BY NextTypeOK, NextHandFull, NextTerminal, NextClocksAgree DEF IInv
<1> QED
  BY <1>1, InitIInv, PTL DEF Spec

\* The variables keep their types: the channel never holds more than its capacity,
\* and '+' and '-' never leave the limits of the interval.
THEOREM TypeCorrect == Spec => []TypeOK
<1>1. IInv => TypeOK
  BY DEF IInv
<1> QED
  BY <1>1, Invariance, PTL

\* The terminal is never left in raw mode, whichever of its ways out run_ui takes.
THEOREM RawModeIsReleased == Spec => []RawModeReleased
<1>1. IInv => RawModeReleased
  BY DEF IInv
<1> QED
  BY <1>1, Invariance, PTL

\* The mouse is given back after a quit and after a panic.
THEOREM MouseIsReleased == Spec => []MouseReleased
<1>1. IInv => MouseReleased
  BY DEF IInv
<1> QED
  BY <1>1, Invariance, PTL

\* The terminal is as the user had it after every way out.
THEOREM TerminalIsReleased == Spec => []TerminalReleased
<1>1. RawModeReleased /\ MouseReleased => TerminalReleased
  BY DEF TerminalReleased
<1> QED
  BY <1>1, RawModeIsReleased, MouseIsReleased, PTL

\* Two ticks are never closer than tick_rate, however long the thread was blocked
\* on the channel in between.
THEOREM TicksAreSpaced == Spec => TickSpacing
<1>1. IInv /\ [Next]_vars => [EnqueuesTick => gap >= tick_rate]_vars
  <2> SUFFICES ASSUME IInv, EnqueuesTick PROVE gap >= tick_rate
    OBVIOUS
  <2>1. elapsed \in Int /\ gap \in Int /\ tick_rate \in Int
    BY IntervalAssumption DEF IInv, TypeOK, tick_rate
  <2> QED
    BY <2>1 DEF IInv, ClocksAgree, EnqueuesTick
<1> QED
  BY <1>1, Invariance, PTL DEF Spec, TickSpacing

-----------------------------------------------------------------------------
(* EventLoop implements KeyDelivery.  What is pending is what InTransit     *)
(* collects from the terminal, the hand and the channel; the invariant says *)
(* that these three, in this order from the newest to the oldest, hold the  *)
(* key presses in the order in which they were typed.                       *)

Ordered(s) ==
  \A i, j \in DOMAIN s :
    i < j /\ IsPress(s[i]) /\ IsPress(s[j]) => s[i].id < s[j].id
Before(s, t) == \A n \in Presses(s), m \in Presses(t) : n < m

HandEmpty ==
  /\ evPc # "sendInput" => hand = NoEvent
  /\ uiPc \in {"init", "capture"} => evPc = "unborn"
KeysOrdered ==
  /\ Ordered(queue) /\ Ordered(tty)
  /\ Before(queue, <<hand>>) /\ Before(queue, tty) /\ Before(<<hand>>, tty)
  /\ InTransit \subseteq 1..typed

\* The key presses of sequences: the operators that Presses and Ordered collect.
LEMMA PressesOfOne ==
  ASSUME NEW e PROVE Presses(<<e>>) = IF IsPress(e) THEN {e.id} ELSE {}
BY DEF Presses

LEMMA PressesOfNone == Presses(<<>>) = {} /\ Ordered(<<>>)
BY DEF Presses, Ordered

LEMMA PressesOfAppend ==
  ASSUME NEW S, NEW s \in Seq(S), NEW e \in S
  PROVE  /\ Presses(Append(s, e)) = Presses(s) \cup Presses(<<e>>)
         /\ Ordered(s) /\ Before(s, <<e>>) => Ordered(Append(s, e))
<1> DEFINE t == Append(s, e)
<1>1. /\ DOMAIN t = DOMAIN s \cup {Len(s) + 1} /\ t[Len(s) + 1] = e
      /\ \A i \in DOMAIN s : t[i] = s[i] /\ i \in Int /\ i < Len(s) + 1
  OBVIOUS
<1>2. Presses(t) = Presses(s) \cup Presses(<<e>>)
  BY <1>1, PressesOfOne DEF Presses
<1>3. ASSUME Ordered(s), Before(s, <<e>>) PROVE Ordered(t)
  <2> SUFFICES ASSUME NEW i \in DOMAIN t, NEW j \in DOMAIN t, i < j,
                      IsPress(t[i]), IsPress(t[j])
               PROVE  t[i].id < t[j].id
    BY DEF Ordered
  <2>1. i \in DOMAIN s
    BY <1>1
  <2>2. CASE j \in DOMAIN s
    BY <1>1, <1>3, <2>1, <2>2 DEF Ordered
  <2>3. CASE j = Len(s) + 1
    <3>1. t[i].id \in Presses(s)
      BY <1>1, <2>1 DEF Presses
    <3>2. t[j].id \in Presses(<<e>>)
      BY <1>1, <2>3, PressesOfOne
    <3> QED
      BY <1>3, <3>1, <3>2 DEF Before
  <2> QED
    BY <1>1, <2>2, <2>3
<1> QED
  BY <1>2, <1>3

LEMMA PressesOfTail ==
  ASSUME NEW S, NEW s \in Seq(S), s # <<>>
  PROVE  /\ Presses(s) = Presses(<<Head(s)>>) \cup Presses(Tail(s))
         /\ Ordered(s) => Ordered(Tail(s)) /\ Before(<<Head(s)>>, Tail(s))
<1> DEFINE t == Tail(s)
<1>1. /\ Head(s) = s[1] /\ 1 \in DOMAIN s
      /\ \A i \in DOMAIN t : i \in Int /\ i + 1 \in DOMAIN s /\ t[i] = s[i + 1] /\ 1 < i + 1
      /\ \A i \in DOMAIN s : i \in Int /\ (i = 1 \/ i - 1 \in DOMAIN t)
  OBVIOUS
<1>2. Presses(s) = Presses(<<Head(s)>>) \cup Presses(t)
  <2>1. ASSUME NEW n \in Presses(s) PROVE n \in Presses(<<Head(s)>>) \cup Presses(t)
    <3>1. PICK i \in DOMAIN s : IsPress(s[i]) /\ n = s[i].id
      BY DEF Presses
    <3>2. CASE i = 1
      BY <1>1, <3>1, <3>2, PressesOfOne
    <3>3. CASE i - 1 \in DOMAIN t
      <4>1. t[i - 1] = s[i]
        BY <1>1, <3>3
      <4> QED
        BY <3>1, <3>3, <4>1 DEF Presses
    <3> QED
      BY <1>1, <3>2, <3>3
  <2>2. Presses(<<Head(s)>>) \subseteq Presses(s)
    BY <1>1, PressesOfOne DEF Presses
  <2>3. Presses(t) \subseteq Presses(s)
    BY <1>1 DEF Presses
  <2> QED
    BY <2>1, <2>2, <2>3
<1>3. ASSUME Ordered(s) PROVE Ordered(t)
  BY <1>1, <1>3 DEF Ordered
<1>4. ASSUME Ordered(s) PROVE Before(<<Head(s)>>, t)
  <2> SUFFICES ASSUME NEW n \in Presses(<<Head(s)>>), NEW m \in Presses(t) PROVE n < m
    BY DEF Before
  <2>1. n = s[1].id /\ IsPress(s[1])
    BY <1>1, PressesOfOne
  <2>2. PICK i \in DOMAIN t : IsPress(t[i]) /\ m = t[i].id
    BY DEF Presses
  <2> QED
    BY <1>1, <1>4, <2>1, <2>2 DEF Ordered
<1> QED
  BY <1>2, <1>3, <1>4

LEMMA InitKeys == Init => Keys!Init /\ HandEmpty /\ KeysOrdered
<1> SUFFICES ASSUME Init PROVE Keys!Init /\ HandEmpty /\ KeysOrdered
  OBVIOUS
<1>1. Presses(<<hand>>) = {}
  BY PressesOfOne DEF Init, NoEvent, Idle, IsPress, PressKinds
<1>2. Presses(queue) = {} /\ Presses(tty) = {} /\ Ordered(queue) /\ Ordered(tty)
  BY PressesOfNone DEF Init
<1>3. ~Over
  BY DEF Init, Over
<1> QED
  BY <1>1, <1>2, <1>3 DEF Init, Keys!Init, InTransit, HandEmpty, KeysOrdered, Before

\* The hand is empty but for the time between read and send.
LEMMA NextHandEmpty == HandEmpty /\ [Next]_vars => HandEmpty'
<1> SUFFICES ASSUME HandEmpty, [Next]_vars PROVE HandEmpty'
  OBVIOUS
<1> USE DEF HandEmpty, evVars, history
<1>1. CASE EventThread
  BY <1>1 DEF EventThread, PollInput, PollTimeout, PollFails, SendInput, TickCheck, SendTick,
              ResetTick, SendFails
<1>2. CASE MainThread
  BY <1>2 DEF MainThread, InitTerminal, CaptureMouse, Collect, Draw, Recv, ReleaseMouse,
              Restore, TerminalFails, Panic, RecvFails
<1>3. CASE UNCHANGED <<evPc, hand, uiPc>> \/ EventThreadPanics
  BY <1>3 DEF EventThreadPanics
<1> QED
  BY <1>1, <1>2, <1>3 DEF Next, PressKey, OtherInput, TimePasses, Ended, vars

\* A step of the implementation as KeyDelivery sees it.
KeyStep == [Keys!Next]_(Keys!vars)

\* Steps that neither touch what holds key presses nor end the session.
LEMMA QuietStep ==
  ASSUME UNCHANGED <<typed, tty, hand, queue, handled>>, Over' = Over, KeysOrdered
  PROVE  KeysOrdered' /\ KeyStep
BY DEF KeyStep, Keys!vars, KeysOrdered, InTransit, Over

\* A key press or another event of the terminal.
LEMMA TerminalStep ==
  ASSUME TypeOK, KeysOrdered, NEW e \in TtyEvents, tty' = Append(tty, e),
         UNCHANGED <<hand, queue, handled, uiPc>>,
         IF IsPress(e) THEN typed' = typed + 1 /\ e.id = typed' ELSE UNCHANGED typed
  PROVE  KeysOrdered' /\ KeyStep
<1>1. Presses(tty') = Presses(tty) \cup Presses(<<e>>)
  BY PressesOfAppend DEF TypeOK
<1>2. Ordered(tty) /\ Before(tty, <<e>>) => Ordered(tty')
  BY PressesOfAppend DEF TypeOK
<1>3. Over' = Over
  BY DEF Over
<1>4. typed \in Nat
  BY DEF TypeOK
<1>5. CASE IsPress(e)
  <2>1. Presses(<<e>>) = {typed + 1}
    BY <1>5, PressesOfOne
  <2>2. Before(tty, <<e>>)
    BY <1>4, <2>1 DEF KeysOrdered, InTransit, Before
  <2>3. InTransit' = InTransit \cup {typed + 1}
    BY <1>1, <2>1 DEF InTransit
  <2>4. KeysOrdered'
    BY <1>1, <1>2, <1>4, <1>5, <2>1, <2>2, <2>3 DEF KeysOrdered, Before, InTransit
  <2>5. KeyStep
    BY <1>3, <1>5, <2>3 DEF KeyStep, Keys!Next, Keys!Type, Keys!TypeInVain
  <2> QED
    BY <2>4, <2>5
<1>6. CASE ~IsPress(e)
  <2>1. Presses(<<e>>) = {}
    BY <1>6, PressesOfOne
  <2>2. Ordered(tty') /\ Presses(tty') = Presses(tty)
    BY <1>1, <1>2, <2>1 DEF Before, KeysOrdered
  <2> QED
    BY <1>3, <1>6, <2>2 DEF KeyStep, Keys!vars, KeysOrdered, InTransit, Before
<1> QED
  BY <1>5, <1>6

LEMMA WorldKeys ==
  ASSUME TypeOK, KeysOrdered,
         \/ \E k \in PressKinds : PressKey(k)
         \/ \E k \in {"idle", "paste"} : OtherInput(k)
         \/ TimePasses
  PROVE  KeysOrdered' /\ KeyStep
<1>1. CASE \E k \in PressKinds : PressKey(k)
  <2>1. PICK k \in PressKinds : PressKey(k)
    BY <1>1
  <2>2. typed + 1 \in 1..MaxKeys
    BY <2>1, BoundAssumption DEF PressKey, TypeOK
  <2>3. /\ Press(k, typed + 1) \in TtyEvents /\ IsPress(Press(k, typed + 1))
        /\ Press(k, typed + 1).id = typed + 1
    BY <2>2, EventTypes DEF Press, IsPress
  <2> QED
    BY <2>1, <2>3, TerminalStep DEF PressKey, evVars, history
<1>2. CASE \E k \in {"idle", "paste"} : OtherInput(k)
  <2>1. PICK k \in {"idle", "paste"} : OtherInput(k)
    BY <1>2
  <2>2. Idle(k) \in TtyEvents /\ ~IsPress(Idle(k))
    BY <2>1, EventTypes DEF Idle, IsPress, PressKinds
  <2> QED
    BY <2>1, <2>2, TerminalStep DEF OtherInput, evVars, history
<1>3. CASE TimePasses
  BY <1>3, QuietStep DEF TimePasses, Over
<1> QED
  BY <1>1, <1>2, <1>3

\* read(): the oldest event of the terminal goes into the empty hand.
LEMMA PollInputKeys ==
  ASSUME TypeOK, HandEmpty, KeysOrdered, PollInput
  PROVE  KeysOrdered' /\ KeyStep
<1> DEFINE e == Head(tty)
<1>1. /\ Presses(tty) = Presses(<<e>>) \cup Presses(tty')
      /\ Ordered(tty') /\ Before(<<e>>, tty')
  BY PressesOfTail DEF PollInput, TypeOK, KeysOrdered
<1>2. Presses(<<hand>>) = {}
  BY PressesOfOne DEF PollInput, HandEmpty, NoEvent, Idle, IsPress, PressKinds
<1>3. Presses(<<hand>>)' = Presses(<<e>>)
  <2>1. CASE e.kind = "paste"
    <3>1. hand' = NoEvent
      BY <2>1 DEF PollInput
    <3> QED
      BY <2>1, <3>1, PressesOfOne DEF NoEvent, Idle, IsPress, PressKinds
  <2>2. CASE e.kind # "paste"
    BY <2>2 DEF PollInput
  <2> QED
    BY <2>1, <2>2
<1>4. InTransit' = InTransit
  BY <1>1, <1>2, <1>3 DEF PollInput, InTransit
<1>5. UNCHANGED <<typed, queue, handled, uiPc>> /\ Over' = Over
  BY DEF PollInput, history, Over
<1>6. KeysOrdered'
  BY <1>1, <1>3, <1>4, <1>5 DEF KeysOrdered, Before
<1> QED
  BY <1>4, <1>5, <1>6 DEF KeyStep, Keys!vars

\* tx.send: the event in the hand joins the channel behind all others.
LEMMA SendInputKeys ==
  ASSUME TypeOK, HandFull, KeysOrdered, SendInput
  PROVE  KeysOrdered' /\ KeyStep
<1>1. hand \in ChannelEvents
  BY DEF SendInput, HandFull
<1>2. Presses(queue') = Presses(queue) \cup Presses(<<hand>>) /\ Ordered(queue')
  BY <1>1, PressesOfAppend DEF SendInput, TypeOK, KeysOrdered
<1>3. Presses(<<hand>>)' = {}
  BY PressesOfOne DEF SendInput, NoEvent, Idle, IsPress, PressKinds
<1>4. InTransit' = InTransit
  BY <1>2, <1>3 DEF SendInput, InTransit
<1>5. UNCHANGED <<typed, tty, handled, uiPc>> /\ Over' = Over
  BY DEF SendInput, history, Over
<1>6. KeysOrdered'
  BY <1>2, <1>3, <1>4, <1>5 DEF KeysOrdered, Before
<1> QED
  BY <1>4, <1>5, <1>6 DEF KeyStep, Keys!vars

\* A Tick is nobody's key press.
LEMMA SendTickKeys ==
  ASSUME TypeOK, KeysOrdered, SendTick
  PROVE  KeysOrdered' /\ KeyStep
<1>1. Presses(<<Tick>>) = {}
  BY PressesOfOne DEF Tick, Idle, IsPress, PressKinds
<1>2. Before(queue, <<Tick>>)
  BY <1>1 DEF Before
<1>3. Presses(queue') = Presses(queue) /\ Ordered(queue')
  <2>1. queue \in Seq(ChannelEvents) /\ Tick \in ChannelEvents /\ queue' = Append(queue, Tick)
    BY EventTypes DEF SendTick, TypeOK
  <2>2. /\ Presses(queue') = Presses(queue) \cup Presses(<<Tick>>)
        /\ Ordered(queue) /\ Before(queue, <<Tick>>) => Ordered(queue')
    BY <2>1, PressesOfAppend
  <2> QED
    BY <1>1, <1>2, <2>2 DEF KeysOrdered
<1>4. UNCHANGED <<typed, tty, hand, handled, uiPc>> /\ Over' = Over
  BY DEF SendTick, Over
<1> QED
  BY <1>3, <1>4 DEF KeyStep, Keys!vars, KeysOrdered, InTransit, Before

LEMMA EventThreadKeys ==
  ASSUME TypeOK, HandFull, HandEmpty, KeysOrdered, EventThread
  PROVE  KeysOrdered' /\ KeyStep
<1>1. CASE PollTimeout \/ PollFails \/ TickCheck \/ ResetTick
  BY <1>1, QuietStep DEF PollTimeout, PollFails, TickCheck, ResetTick, history, Over
<1>2. CASE SendFails
  <2>1. Over /\ Over' /\ UNCHANGED <<typed, tty, queue, handled>>
    BY <1>2 DEF SendFails, RxDropped, Over, history
  <2>2. Presses(<<hand>>)' = {}
    BY <1>2, PressesOfOne DEF SendFails, NoEvent, Idle, IsPress, PressKinds
  <2> QED
    BY <2>1, <2>2 DEF KeyStep, Keys!vars, KeysOrdered, InTransit, Before
<1> QED
  BY <1>1, <1>2, PollInputKeys, SendInputKeys, SendTickKeys DEF EventThread

\* event_rx.recv(): the oldest key press of all is at the head of the channel.
LEMMA RecvKeys ==
  ASSUME TypeOK, KeysOrdered, Recv
  PROVE  KeysOrdered' /\ KeyStep
<1> DEFINE e == Head(queue)
<1>1. /\ Presses(queue) = Presses(<<e>>) \cup Presses(queue')
      /\ Ordered(queue') /\ Before(<<e>>, queue')
  BY PressesOfTail DEF Recv, TypeOK, KeysOrdered
<1>2. /\ UNCHANGED <<typed, tty, hand>>
      /\ handled' = IF IsPress(e) THEN Append(handled, e.id) ELSE handled
  BY DEF Recv, evVars, IsPress
<1>3. ~Over /\ ~Over' /\ Over' = Over
  BY DEF Recv, Over
<1>4. InTransit = Presses(<<e>>) \cup InTransit'
  BY <1>1, <1>2 DEF InTransit
<1>5. KeysOrdered'
  BY <1>1, <1>2, <1>4 DEF KeysOrdered, Before
<1>6. CASE IsPress(e)
  <2>1. Presses(<<e>>) = {e.id}
    BY <1>6, PressesOfOne
  <2>2. \A m \in InTransit' : e.id < m
    BY <1>1, <1>2, <2>1 DEF KeysOrdered, Before, InTransit
  <2>3. \A m \in InTransit : m \in Int
    BY DEF KeysOrdered
  <2>4. \A m \in InTransit : e.id <= m
    BY <1>4, <2>1, <2>2, <2>3
  <2>5. InTransit' = InTransit \ {e.id} /\ e.id \in InTransit
    BY <1>4, <2>1, <2>2, <2>3
  <2>6. Keys!Handle
    BY <1>2, <1>3, <1>6, <2>4, <2>5 DEF Keys!Handle
  <2> QED
    BY <1>5, <2>6 DEF KeyStep, Keys!Next
<1>7. CASE ~IsPress(e)
  <2>1. InTransit' = InTransit
    BY <1>4, <1>7, PressesOfOne
  <2> QED
    BY <1>2, <1>3, <1>5, <1>7, <2>1 DEF KeyStep, Keys!vars
<1> QED
  BY <1>6, <1>7

\* The ways out: what is still under way is dropped, once.
LEMMA EndKeys ==
  ASSUME KeysOrdered, UNCHANGED <<typed, tty, handled>>, queue' = <<>>,
         hand' \in {hand, NoEvent}, Over'
  PROVE  KeysOrdered' /\ KeyStep
<1>1. Presses(queue)' = {} /\ Ordered(queue')
  BY PressesOfNone
<1>2. Presses(<<hand>>)' \subseteq Presses(<<hand>>)
  BY PressesOfOne DEF NoEvent, Idle, IsPress, PressKinds
<1>3. KeysOrdered'
  BY <1>1, <1>2 DEF KeysOrdered, InTransit, Before
<1>4. KeyStep
  BY DEF KeyStep, Keys!Next, Keys!End, Keys!vars, Over
<1> QED
  BY <1>3, <1>4

LEMMA MainThreadKeys ==
  ASSUME TypeOK, KeysOrdered, MainThread
  PROVE  KeysOrdered' /\ KeyStep
<1>1. CASE InitTerminal \/ CaptureMouse \/ Collect \/ Draw \/ RecvFails \/ ReleaseMouse
  BY <1>1, QuietStep DEF InitTerminal, CaptureMouse, Collect, Draw, RecvFails, ReleaseMouse,
                         evVars, history, Over
<1>2. CASE Restore \/ TerminalFails \/ Panic
  BY <1>2, EndKeys DEF Restore, TerminalFails, Panic, evVars, history, Over
<1> QED
  BY <1>1, <1>2, RecvKeys DEF MainThread

LEMMA NextKeys ==
  TypeOK /\ HandFull /\ HandEmpty /\ KeysOrdered /\ [Next]_vars => KeysOrdered' /\ KeyStep
<1>1. KeysOrdered /\ UNCHANGED vars => KeysOrdered' /\ KeyStep
  BY QuietStep DEF vars, Over
<1>2. KeysOrdered /\ EventThreadPanics => KeysOrdered' /\ KeyStep
  BY QuietStep DEF EventThreadPanics, history, Over
<1> QED
  BY <1>1, <1>2, WorldKeys, EventThreadKeys, MainThreadKeys DEF Next, Ended

\* The threads and the channel implement KeyDelivery: key presses are handled in
\* the order typed, each once and none skipped, for every capacity of the channel.
THEOREM KeysDelivered == Spec => KeysAreDelivered
<1>1. IInv => TypeOK /\ HandFull
  BY DEF IInv
<1> QED
  BY <1>1, Invariance, InitKeys, NextHandEmpty, NextKeys, PTL
     DEF Spec, KeysAreDelivered, Keys!Spec, KeyStep

=============================================================================
