------------------------------- MODULE LiveClient ------------------------------
(***************************************************************************)
(* The web client of the exporter (tonic-dgxtop-web/webui/src): the socket *)
(* that useLiveSnapshot keeps open for the whole page, and the history     *)
(* requests of the page of one GPU (pages/GpuDetail).  Callbacks run one   *)
(* at a time; sockets, timers and responses call back in any order.        *)
(*                                                                         *)
(* useLiveSnapshot runs as an effect.  React may stop an effect and run it *)
(* again (main.tsx asks for it with StrictMode in development); each run   *)
(* has its own `stopped', while the state of the page is shared.           *)
(*                                                                         *)
(* The length of the delays is left out, and with it the backoff; one of   *)
(* the four charts of the page stands for all.                             *)
(***************************************************************************)
EXTENDS Integers, Sequences

SeqExt == INSTANCE SequencesExt

CONSTANTS
  Ranges,        \* "1h", "6h", "12h", "24h"
  MaxEffects,    \* bound: how often the effect runs
  MaxPublished,  \* bound: snapshots published
  MaxInFlight    \* bound: requests for one range under way

ASSUME ClientBounds == MaxEffects \in Nat \ {0} /\ {MaxPublished, MaxInFlight} \subseteq Nat

VARIABLES
  up,           \* whether the exporter can be reached
  published,    \* the latest snapshot of the exporter
  effect,       \* the run of the effect that is not stopped
  sockets,      \* the sockets that have not closed, wsRef being the last
  timers,       \* timers[e]: pending calls of connect of run e
  snapshot,     \* the snapshot shown, 0 for none
  range,        \* the range selected
  intervals,    \* ranges that setInterval requests
  in_flight,    \* in_flight[r]: requests for range r under way
  chart         \* the range of the data shown

server == <<up, published>>
live == <<effect, sockets, timers, snapshot>>
page == <<range, intervals, in_flight, chart>>
clientVars == <<up, published, effect, sockets, timers, snapshot, range, intervals, in_flight, chart>>

Effects == 1..MaxEffects
NewSocket(e) == [effect |-> e, state |-> "connecting", inbox |-> <<>>]

ClientInit ==
  /\ up \in BOOLEAN /\ published = 0
  /\ effect = 1 /\ sockets = <<NewSocket(1)>> /\ timers = [e \in Effects |-> 0]
  /\ snapshot = 0
  /\ range \in Ranges /\ intervals = {} /\ in_flight = [r \in Ranges |-> 0] /\ chart = "none"

-----------------------------------------------------------------------------
(* The exporter (see Exporter: every client gets each snapshot, in order). *)

ServerChanges == up' = ~up /\ UNCHANGED <<published, live, page>>

Publish ==
  /\ up /\ published < MaxPublished
  /\ published' = published + 1
  /\ sockets' = [i \in DOMAIN sockets |->
                   IF sockets[i].state # "open" THEN sockets[i]
                   ELSE [sockets[i] EXCEPT !.inbox = Append(@, published')]]
  /\ UNCHANGED <<up, effect, timers, snapshot, page>>

-----------------------------------------------------------------------------
(* useLiveSnapshot. *)

\* The exporter greets with its latest snapshot.
OnOpen(i) ==
  /\ up /\ sockets[i].state = "connecting"
  /\ sockets' = [sockets EXCEPT ![i] =
                   [effect |-> @.effect, state |-> "open",
                    inbox |-> IF published = 0 THEN <<>> ELSE <<published>>]]
  /\ UNCHANGED <<server, effect, timers, snapshot, page>>

OnMessage(i) ==
  /\ sockets[i].state = "open" /\ sockets[i].inbox # <<>>
  /\ snapshot' = Head(sockets[i].inbox)
  /\ sockets' = [sockets EXCEPT ![i].inbox = Tail(@)]
  /\ UNCHANGED <<server, effect, timers, page>>

Closes(i) == ~up \/ sockets[i].state = "closing"

\* Mutant: only a connection that was open is tried again.
OnClose_OnlyIfOpened(i) ==
  /\ Closes(i)
  /\ LET e == sockets[i].effect
     IN  timers' = IF e < effect \/ sockets[i].state = "connecting" THEN timers
                   ELSE [timers EXCEPT ![e] = @ + 1]
  /\ sockets' = SeqExt!RemoveAt(sockets, i)
  /\ UNCHANGED <<server, effect, snapshot, page>>

\* Unless its run was stopped, a socket that closes, open or not, sets a timer.
OnClose(i) ==
  /\ Closes(i)
  /\ LET e == sockets[i].effect
     IN  timers' = IF e < effect THEN timers ELSE [timers EXCEPT ![e] = @ + 1]
  /\ sockets' = SeqExt!RemoveAt(sockets, i)
  /\ UNCHANGED <<server, effect, snapshot, page>>

\* Mutant: connect does not look at stopped.
Timeout_Stopped(e) ==
  /\ timers[e] > 0
  /\ timers' = [timers EXCEPT ![e] = @ - 1]
  /\ sockets' = Append(sockets, NewSocket(e))
  /\ UNCHANGED <<server, effect, snapshot, page>>

\* connect, called by a timer
Timeout(e) ==
  /\ timers[e] > 0
  /\ timers' = [timers EXCEPT ![e] = @ - 1]
  /\ sockets' = IF e < effect THEN sockets ELSE Append(sockets, NewSocket(e))
  /\ UNCHANGED <<server, effect, snapshot, page>>

\* The clean-up of the effect and its next run; a timer is not cleared.
Remount ==
  /\ effect < MaxEffects
  /\ effect' = effect + 1
  /\ sockets' = Append([i \in DOMAIN sockets |->
                          IF i = Len(sockets) THEN [sockets[i] EXCEPT !.state = "closing"]
                          ELSE sockets[i]],
                       NewSocket(effect'))
  /\ UNCHANGED <<server, timers, snapshot, page>>

-----------------------------------------------------------------------------
(* GpuDetail. *)

Requested(r) == in_flight[r] < MaxInFlight /\ in_flight' = [in_flight EXCEPT ![r] = @ + 1]

\* The page is there from the first snapshot on.
OpenPage ==
  /\ snapshot > 0 /\ intervals = {}
  /\ intervals' = {range} /\ Requested(range)
  /\ UNCHANGED <<server, live, range, chart>>

\* Mutant: the interval of the range before is not cleared.
SelectRange_KeepsInterval(r) ==
  /\ intervals # {} /\ r # range
  /\ range' = r /\ intervals' = intervals \cup {r} /\ Requested(r)
  /\ UNCHANGED <<server, live, chart>>

SelectRange(r) ==
  /\ intervals # {} /\ r # range
  /\ range' = r /\ intervals' = {r} /\ Requested(r)
  /\ UNCHANGED <<server, live, chart>>

Interval(r) ==
  /\ r \in intervals /\ Requested(r)
  /\ UNCHANGED <<server, live, range, intervals, chart>>

Answered(r) == in_flight[r] > 0 /\ in_flight' = [in_flight EXCEPT ![r] = @ - 1]

\* Whatever comes is shown; nothing tells which request it answers.
Response(r) ==
  /\ up /\ Answered(r) /\ chart' = r
  /\ UNCHANGED <<server, live, range, intervals>>

\* .catch(() => {})
RequestFails(r) ==
  /\ Answered(r)
  /\ UNCHANGED <<server, live, range, intervals, chart>>

ClientNext ==
  \/ ServerChanges \/ Publish
  \/ \E i \in DOMAIN sockets : OnOpen(i) \/ OnMessage(i) \/ OnClose(i)
  \/ \E e \in Effects : Timeout(e)
  \/ Remount \/ OpenPage
  \/ \E r \in Ranges : SelectRange(r) \/ Interval(r) \/ Response(r) \/ RequestFails(r)

\* The browser runs timers and answers connection attempts, and every request has
\* an answer; as long as the exporter is there not all requests fail.
ClientFairness ==
  /\ WF_clientVars(\E i \in DOMAIN sockets : OnOpen(i))
  /\ WF_clientVars(\E i \in DOMAIN sockets : OnMessage(i))
  /\ WF_clientVars(\E i \in DOMAIN sockets : OnClose(i))
  /\ \A e \in Effects : WF_clientVars(Timeout(e))
  /\ WF_clientVars(OpenPage)
  /\ \A r \in Ranges :
       /\ WF_clientVars(Interval(r))
       /\ WF_clientVars(Response(r) \/ RequestFails(r))
       /\ SF_clientVars(Response(r))

ClientSpec == ClientInit /\ [][ClientNext]_clientVars /\ ClientFairness

-----------------------------------------------------------------------------
(* Properties. *)

\* What is shown never goes back to an older snapshot, across reconnections and
\* runs of the effect: no two sockets ever feed one page.
SnapshotsAdvance == [][snapshot' >= snapshot]_clientVars

\* If the exporter stays up the page gets to show its latest snapshot, however the
\* connection was lost before: every closed socket has exactly one successor.
Recovers == <>[]up => <>[](snapshot = published)

\* The chart gets to show the range selected, and keeps to it, once no other is
\* selected and the exporter stays up: an older response that came late, or a
\* request that failed, is made up for by the next interval.
RangeIsShown ==
  \A r \in Ranges :
    (<>[]up /\ <>[](range = r /\ intervals # {})) => <>[](chart = r)

=============================================================================
