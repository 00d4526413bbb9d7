------------------------------- MODULE EventLoop -------------------------------
(***************************************************************************)
(* The two threads of the dgxtop terminal program and the channel between  *)
(* them.  The "dgxtop-events" thread (src/app/worker.rs) polls the         *)
(* terminal, forwards what it reads and adds a Tick every tick_rate; the   *)
(* main thread (src/ui/terminal.rs, run_ui) draws, receives one event,     *)
(* handles it and draws again, until a quit key, an error or a panic.      *)
(* What a key does to the views is the subject of module ProcessView: here *)
(* a key quits, changes the refresh speed or does neither.                 *)
(*                                                                         *)
(* Time is counted in the unit of the '+' and '-' keys (0.1 s) and the two *)
(* clocks stop at MaxInterval, beyond which the code makes no difference.  *)
(***************************************************************************)
EXTENDS Integers, Sequences

CONSTANTS
  ChannelCap,      \* capacity of the channel (256 in the code)
  MinInterval,     \* smallest refresh interval (0.1 s)
  MaxInterval,     \* largest refresh interval (10 s)
  StartInterval,   \* config.update_interval_secs when run_ui is called
  TtySize,         \* bound: events the terminal buffers before they are read
  MaxKeys,         \* bound: key presses of one session
  MaxFailures      \* bound: I/O errors and panics of one session

ASSUME ChannelAssumption == ChannelCap \in Nat \ {0}
ASSUME IntervalAssumption ==
  /\ MinInterval \in Nat \ {0} /\ MaxInterval \in Nat
  /\ StartInterval \in MinInterval..MaxInterval
ASSUME BoundAssumption == TtySize \in Nat /\ MaxKeys \in Nat /\ MaxFailures \in Nat

VARIABLES
  tty,       \* terminal events not yet read by the event thread
  typed,     \* number of key presses so far; key press n carries the id n
  evPc,      \* where the event thread is in its loop
  hand,      \* the event it has read and is sending
  elapsed,   \* last_tick.elapsed(), at most MaxInterval
  queue,     \* the channel
  uiPc,      \* where the main thread is
  interval,  \* state.config.update_interval_secs
  term,      \* terminal modes: raw (with the alternate screen) and mouse
  failures,  \* I/O errors and panics so far
  outcome,   \* how run_ui ended
  handled,   \* history: ids of the key presses handled, in order
  gap,       \* history: time since the last Tick was enqueued, at most MaxInterval
  paced      \* history: interval when the last Tick was enqueued

evVars == <<evPc, hand, elapsed>>
history == <<handled, gap, paced>>
vars == <<tty, typed, evPc, hand, elapsed, queue, uiPc, interval, term, failures,
          outcome, handled, gap, paced>>

PressKinds == {"quit", "faster", "slower", "other"}
\* Key releases, mouse and resize events ("idle") reach the channel and change
\* nothing there; focus and paste events are dropped by the event thread.
Press(k, n) == [kind |-> k, id |-> n]
Idle(k) == [kind |-> k, id |-> 0]
Tick == Idle("tick")
NoEvent == Idle("none")
TtyEvents == {Press(k, n) : k \in PressKinds, n \in 1..MaxKeys}
               \cup {Idle("idle"), Idle("paste")}
ChannelEvents == {Press(k, n) : k \in PressKinds, n \in 1..MaxKeys}
               \cup {Idle("idle"), Tick}

EvPcs == {"unborn", "poll", "sendInput", "tickCheck", "sendTick", "reset", "stopped"}
UiPcs == {"init", "capture", "collect", "draw", "recv", "cleanup", "restore",
          "error", "exited"}
Outcomes == {"running", "quit", "failed", "panicked"}

\* Duration::from_secs_f64(state.config.update_interval_secs), computed once,
\* before the thread is spawned.
tick_rate == StartInterval

Clamp(lo, x, hi) == IF x < lo THEN lo ELSE IF x > hi THEN hi ELSE x

Init ==
  /\ tty = <<>> /\ typed = 0
  /\ evPc = "unborn" /\ hand = NoEvent /\ elapsed = 0
  /\ queue = <<>>
  /\ uiPc = "init" /\ interval = StartInterval
  /\ term = [raw |-> FALSE, mouse |-> FALSE]
  /\ failures = 0 /\ outcome = "running"
  /\ handled = <<>> /\ gap = 0 /\ paced = StartInterval

-----------------------------------------------------------------------------
(* The world: the user, the terminal and the clock. *)

Alive == uiPc # "exited"

PressKey(k) ==
  /\ Alive /\ typed < MaxKeys /\ Len(tty) < TtySize
  /\ typed' = typed + 1
  /\ tty' = Append(tty, Press(k, typed + 1))
  /\ UNCHANGED <<evVars, queue, uiPc, interval, term, failures, outcome, history>>

OtherInput(k) ==
  /\ Alive /\ Len(tty) < TtySize
  /\ tty' = Append(tty, Idle(k))
  /\ UNCHANGED <<typed, evVars, queue, uiPc, interval, term, failures, outcome, history>>

TimePasses ==
  /\ Alive
  /\ elapsed < MaxInterval \/ gap < MaxInterval
  /\ elapsed' = Clamp(0, elapsed + 1, MaxInterval)
  /\ gap' = Clamp(0, gap + 1, MaxInterval)
  /\ UNCHANGED <<tty, typed, evPc, hand, queue, uiPc, interval, term, failures,
                 outcome, handled, paced>>

-----------------------------------------------------------------------------
(* The event thread.  The stop channel never delivers: run_ui keeps the    *)
(* sender and drops it without sending, and try_recv on a closed channel   *)
(* is an Err, so the check at the head of the loop never leaves it.        *)

\* run_ui returned an Err: its receiver is gone, main has not ended the process.
RxDropped == uiPc = "error"

\* poll() is true when an event waits, whatever the timeout; read() takes it.
PollInput ==
  /\ evPc = "poll" /\ tty # <<>>
  /\ tty' = Tail(tty)
  /\ IF Head(tty).kind = "paste"
       THEN evPc' = "tickCheck" /\ hand' = NoEvent
       ELSE evPc' = "sendInput" /\ hand' = Head(tty)
  /\ UNCHANGED <<typed, elapsed, queue, uiPc, interval, term, failures, outcome, history>>

\* Mutant: the thread does not wait for poll when it is late.
PollTimeout_TickFirst ==
  /\ evPc = "poll" /\ elapsed >= tick_rate
  /\ evPc' = "tickCheck"
  /\ UNCHANGED <<tty, typed, hand, elapsed, queue, uiPc, interval, term, failures,
                 outcome, history>>

\* poll() is false once the timeout, tick_rate - last_tick.elapsed(), has passed.
PollTimeout ==
  /\ evPc = "poll" /\ tty = <<>> /\ elapsed >= tick_rate
  /\ evPc' = "tickCheck"
  /\ UNCHANGED <<tty, typed, hand, elapsed, queue, uiPc, interval, term, failures,
                 outcome, history>>

\* poll() or read() fails: nothing is read and the loop goes on.
PollFails ==
  /\ evPc = "poll" /\ failures < MaxFailures
  /\ failures' = failures + 1
  /\ evPc' = "tickCheck"
  /\ UNCHANGED <<tty, typed, hand, elapsed, queue, uiPc, interval, term, outcome, history>>

\* Mutant: try_send, which drops the event when the channel is full.
SendInput_TrySend ==
  /\ evPc = "sendInput" /\ ~RxDropped
  /\ queue' = IF Len(queue) < ChannelCap THEN Append(queue, hand) ELSE queue
  /\ hand' = NoEvent
  /\ evPc' = "tickCheck"
  /\ UNCHANGED <<tty, typed, elapsed, uiPc, interval, term, failures, outcome, history>>

\* Mutant: the tick is checked only when no input was read.
SendInput_ThenPoll ==
  /\ evPc = "sendInput" /\ ~RxDropped /\ Len(queue) < ChannelCap
  /\ queue' = Append(queue, hand)
  /\ hand' = NoEvent
  /\ evPc' = "poll"
  /\ UNCHANGED <<tty, typed, elapsed, uiPc, interval, term, failures, outcome, history>>

\* tx.send blocks while the channel is full.
SendInput ==
  /\ evPc = "sendInput" /\ ~RxDropped /\ Len(queue) < ChannelCap
  /\ queue' = Append(queue, hand)
  /\ hand' = NoEvent
  /\ evPc' = "tickCheck"
  /\ UNCHANGED <<tty, typed, elapsed, uiPc, interval, term, failures, outcome, history>>

TickCheck ==
  /\ evPc = "tickCheck"
  /\ evPc' = IF elapsed >= tick_rate THEN "sendTick" ELSE "poll"
  /\ UNCHANGED <<tty, typed, hand, elapsed, queue, uiPc, interval, term, failures,
                 outcome, history>>

\* Mutant: a tick is sent to a full channel.
SendTick_OneMore ==
  /\ evPc = "sendTick" /\ ~RxDropped /\ Len(queue) <= ChannelCap
  /\ queue' = Append(queue, Tick)
  /\ evPc' = "reset"
  /\ gap' = 0 /\ paced' = interval
  /\ UNCHANGED <<tty, typed, hand, elapsed, uiPc, interval, term, failures, outcome, handled>>

SendTick ==
  /\ evPc = "sendTick" /\ ~RxDropped /\ Len(queue) < ChannelCap
  /\ queue' = Append(queue, Tick)
  /\ evPc' = "reset"
  /\ gap' = 0 /\ paced' = interval
  /\ UNCHANGED <<tty, typed, hand, elapsed, uiPc, interval, term, failures, outcome, handled>>

\* Mutant: last_tick += tick_rate, which catches up after a delay.
ResetTick_CatchUp ==
  /\ evPc = "reset"
  /\ elapsed' = elapsed - tick_rate
  /\ evPc' = "poll"
  /\ UNCHANGED <<tty, typed, hand, queue, uiPc, interval, term, failures, outcome, history>>

\* last_tick = Instant::now(), after the send that may have blocked.
ResetTick ==
  /\ evPc = "reset"
  /\ elapsed' = 0
  /\ evPc' = "poll"
  /\ UNCHANGED <<tty, typed, hand, queue, uiPc, interval, term, failures, outcome, history>>

\* A send on a channel whose receiver is gone fails, blocked or not.
SendFails ==
  /\ evPc \in {"sendInput", "sendTick"} /\ RxDropped
  /\ evPc' = "stopped"
  /\ hand' = NoEvent
  /\ UNCHANGED <<tty, typed, elapsed, queue, uiPc, interval, term, failures, outcome, history>>

\* poll() or read() panics: the hook that main installed releases the mouse and
\* restores the terminal, and the thread ends.  The main thread goes on.
EventThreadPanics ==
  /\ evPc = "poll" /\ failures < MaxFailures
  /\ failures' = failures + 1
  /\ term' = [raw |-> FALSE, mouse |-> FALSE]
  /\ evPc' = "stopped"
  /\ UNCHANGED <<tty, typed, hand, elapsed, queue, uiPc, interval, outcome, history>>

EventThread ==
  Alive /\ \/ PollInput \/ PollTimeout \/ PollFails \/ SendInput
           \/ TickCheck \/ SendTick \/ ResetTick \/ SendFails

-----------------------------------------------------------------------------
(* The main thread: main and run_ui. *)

\* ratatui::init()
InitTerminal ==
  /\ uiPc = "init"
  /\ term' = [term EXCEPT !.raw = TRUE]
  /\ uiPc' = "capture"
  /\ UNCHANGED <<tty, typed, evVars, queue, interval, failures, outcome, history>>

\* EnableMouseCapture, then spawn_event_loop, whose clock starts now.
CaptureMouse ==
  /\ uiPc = "capture"
  /\ term' = [term EXCEPT !.mouse = TRUE]
  /\ uiPc' = "collect" /\ evPc' = "poll" /\ elapsed' = 0 /\ gap' = 0
  /\ UNCHANGED <<tty, typed, hand, queue, interval, failures, outcome, handled, paced>>

\* collect_all: every collector's failure is logged and swallowed.
Collect ==
  /\ uiPc = "collect"
  /\ uiPc' = "draw"
  /\ UNCHANGED <<tty, typed, evVars, queue, interval, term, failures, outcome, history>>

Draw ==
  /\ uiPc = "draw"
  /\ uiPc' = "recv"
  /\ UNCHANGED <<tty, typed, evVars, queue, interval, term, failures, outcome, history>>

adjust_interval(kind) ==
  CASE kind = "faster" -> Clamp(MinInterval, interval - 1, MaxInterval)
    [] kind = "slower" -> Clamp(MinInterval, interval + 1, MaxInterval)
    [] OTHER -> interval

\* event_rx.recv() and the handling of what it returns.  Whatever the event,
\* the loop draws before it receives again.
Recv ==
  /\ uiPc = "recv" /\ queue # <<>>
  /\ queue' = Tail(queue)
  /\ LET e == Head(queue) IN
       /\ uiPc' = CASE e.kind = "tick" -> "collect"
                    [] e.kind = "quit" -> "cleanup"
                    [] OTHER -> "draw"
       /\ interval' = adjust_interval(e.kind)
       /\ outcome' = IF e.kind = "quit" THEN "quit" ELSE outcome
       /\ handled' = IF e.kind \in PressKinds THEN Append(handled, e.id) ELSE handled
  /\ UNCHANGED <<tty, typed, evVars, term, failures, gap, paced>>

\* recv() on a channel that is empty and whose sender is gone is an Err, which
\* ends the loop as a quit key does.
RecvFails ==
  /\ uiPc = "recv" /\ queue = <<>> /\ evPc = "stopped"
  /\ uiPc' = "cleanup" /\ outcome' = "quit"
  /\ UNCHANGED <<tty, typed, evVars, queue, interval, term, failures, history>>

\* DisableMouseCapture after a quit.
ReleaseMouse ==
  /\ uiPc = "cleanup"
  /\ term' = [term EXCEPT !.mouse = FALSE]
  /\ uiPc' = "restore"
  /\ UNCHANGED <<tty, typed, evVars, queue, interval, failures, outcome, history>>

\* Mutant: main reports an Err without restoring the terminal.
Restore_NotOnError ==
  /\ uiPc \in {"restore", "error"}
  /\ term' = IF uiPc = "error" THEN term ELSE [term EXCEPT !.raw = FALSE]
  /\ uiPc' = "exited" /\ evPc' = "stopped" /\ hand' = NoEvent /\ queue' = <<>>
  /\ UNCHANGED <<tty, typed, elapsed, interval, failures, outcome, history>>

\* ratatui::restore(), by run_ui after a quit or by main after an Err; then the
\* process ends, and with it the event thread.
Restore ==
  /\ uiPc \in {"restore", "error"}
  /\ term' = [term EXCEPT !.raw = FALSE]
  /\ uiPc' = "exited" /\ evPc' = "stopped" /\ hand' = NoEvent /\ queue' = <<>>
  /\ UNCHANGED <<tty, typed, elapsed, interval, failures, outcome, history>>

\* EnableMouseCapture, terminal.draw or DisableMouseCapture returns an Err: the
\* `?` leaves run_ui, which drops the receiver.
TerminalFails ==
  /\ uiPc \in {"capture", "draw", "cleanup"} /\ failures < MaxFailures
  /\ failures' = failures + 1
  /\ uiPc' = "error" /\ outcome' = "failed"
  /\ queue' = <<>>
  /\ UNCHANGED <<tty, typed, evVars, interval, term, history>>

\* A panic of the main thread while the terminal is set up, the event thread is
\* spawned (expect), or data is collected, drawn or handled: the hook releases the
\* mouse and restores the terminal, then the process ends.
Panic ==
  /\ uiPc \in {"init", "capture", "collect", "draw", "recv"} /\ failures < MaxFailures
  /\ failures' = failures + 1
  /\ term' = [raw |-> FALSE, mouse |-> FALSE]
  /\ uiPc' = "exited" /\ outcome' = "panicked"
  /\ evPc' = "stopped" /\ hand' = NoEvent /\ queue' = <<>>
  /\ UNCHANGED <<tty, typed, elapsed, interval, history>>

MainThread ==
  \/ InitTerminal \/ CaptureMouse \/ Collect \/ Draw \/ Recv \/ RecvFails
  \/ ReleaseMouse \/ Restore \/ TerminalFails \/ Panic

\* The process has ended: the only state in which nothing is left to do.
Ended == ~Alive /\ UNCHANGED vars

Next ==
  \/ \E k \in PressKinds : PressKey(k)
  \/ \E k \in {"idle", "paste"} : OtherInput(k)
  \/ TimePasses
  \/ EventThread
  \/ EventThreadPanics
  \/ MainThread
  \/ Ended

\* The operating system schedules both threads and the clock runs; the user
\* promises nothing.
Fairness == WF_vars(TimePasses) /\ WF_vars(EventThread) /\ WF_vars(MainThread)

Spec == Init /\ [][Next]_vars
FairSpec == Spec /\ Fairness

-----------------------------------------------------------------------------
(* Properties. *)

\* Every variable keeps its type; in particular the channel never holds more
\* than its capacity and '+' and '-' keep the interval within its limits.
TypeOK ==
  /\ tty \in Seq(TtyEvents) /\ Len(tty) <= TtySize /\ typed \in 0..MaxKeys
  /\ evPc \in EvPcs /\ hand \in ChannelEvents \cup {NoEvent}
  /\ elapsed \in 0..MaxInterval
  /\ queue \in Seq(ChannelEvents) /\ Len(queue) <= ChannelCap
  /\ uiPc \in UiPcs /\ interval \in MinInterval..MaxInterval
  /\ term \in [raw : BOOLEAN, mouse : BOOLEAN]
  /\ failures \in 0..MaxFailures /\ outcome \in Outcomes
  /\ handled \in Seq(1..MaxKeys)
  /\ gap \in 0..MaxInterval /\ paced \in MinInterval..MaxInterval

IsPress(e) == e.kind \in PressKinds
Presses(s) == {s[i].id : i \in {j \in DOMAIN s : IsPress(s[j])}}

\* The key presses between the terminal and the handler.
InTransit == Presses(queue) \cup Presses(<<hand>>) \cup Presses(tty)
Over == uiPc \in {"error", "exited"}

Keys == INSTANCE KeyDelivery
          WITH pending <- IF Over THEN {} ELSE InTransit, over <- Over

\* The two threads and the channel implement KeyDelivery: no key press is lost,
\* duplicated or overtaken on its way from the terminal through the event thread
\* and the channel to the handler, in spite of the ticks and idle events between
\* them and of sends that block.
KeysAreDelivered == Keys!Spec

EnqueuesTick == evPc = "sendTick" /\ evPc' = "reset"

\* A tick never comes sooner than tick_rate after the one before it, not even
\* after the thread was blocked on a full channel: there is no burst of ticks
\* to catch up (last_tick is reset after the send).
TickSpacing == [][EnqueuesTick => gap >= tick_rate]_vars

RawModeReleased == ~Alive => ~term.raw
MouseReleased == ~Alive /\ outcome # "failed" => ~term.mouse

\* However the process ends - quit, error or panic, and at whatever point of
\* the setup or of the loop - it does not leave the terminal in raw mode; after a
\* quit and after a panic the mouse is released too.
TerminalReleased == RawModeReleased /\ MouseReleased

\* Every key press takes effect and a quit key ends the program, although keys
\* queue behind ticks and idle events, the thread that forwards them may be blocked
\* on the full channel and the other one draws after every event.
KeysTakeEffect ==
  \A n \in 1..MaxKeys :
    (n \in InTransit) ~> (~Alive \/ (n \notin InTransit /\ outcome # "quit"))

\* Data is collected again and again whatever the terminal sends: a flood of
\* mouse motion does not starve the ticks.
CollectsForever == (uiPc = "recv") ~> (uiPc = "collect" \/ ~Alive)

\* What the key table of README.md says of '+' and '-' ("Increase / decrease
\* refresh speed") and the footer displays: when the interval has not changed
\* since the last tick, the next tick waits for it.  The code does not do so.
RefreshSpeedApplies ==
  [][EnqueuesTick /\ interval = paced => gap >= interval]_vars

=============================================================================
