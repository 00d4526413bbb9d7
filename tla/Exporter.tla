-------------------------------- MODULE Exporter --------------------------------
(***************************************************************************)
(* The exporter of tonic-dgxtop-web (exporter/app/main.py and storage.py): *)
(* one asyncio thread that runs the poll loop, one task per WebSocket and  *)
(* the HTTP handlers.  A task runs alone from one await to the next, so    *)
(* every action below is such a stretch of code; the database and the      *)
(* clients act between them.                                               *)
(*                                                                         *)
(* Snapshots are numbered in the order they are taken.  A client name c    *)
(* stands for one WebSocket object and is reused only when the server has  *)
(* forgotten the one before.                                               *)
(***************************************************************************)
EXTENDS Integers, Sequences, FiniteSets

CONSTANTS
  Clients,      \* WebSocket clients
  MaxAttempts,  \* connection attempts of lifespan, 30
  MaxSnapshots, \* bound: snapshots of the run
  MaxFailures   \* bound: polls that fail in a collector

ASSUME AttemptAssumption == MaxAttempts \in Nat \ {0}
ASSUME BoundAssumption == MaxSnapshots \in Nat /\ MaxFailures \in Nat

VARIABLES
  dbUp,      \* whether the database answers
  conn,      \* conn[c]: none, open, lost (its task does not know yet)
  slow,      \* clients whose connection takes no more data for now
  life,      \* the lifespan: starting, serving, stopping, stopped
  attempt,   \* failed connection attempts
  pool,      \* whether MetricsStore has its connection pool
  pollPc,    \* what the poll loop waits for: to run (ready), the database (write),
             \* a send (fanout), the interval (sleep); none, cancelled
  latest,    \* state.latest, 0 for None
  failures,  \* polls that failed so far
  stored,    \* snapshots written to the database
  ws_clients,\* state.ws_clients
  todo,      \* clients _fanout has still to send to
  waitingFor,\* the client whose send_text _fanout awaits, NoClient if none
  dead,      \* clients _fanout found gone
  gpuOpen,   \* NVML is initialised
  sent,      \* history: sent[c], the snapshots sent on c's connection
  asserted   \* history: what the assertion of MetricsStore.history found last

db == <<dbUp, pool, stored, attempt>>
fan == <<todo, waitingFor, dead>>
socket == <<conn, slow, sent>>
vars == <<dbUp, conn, slow, life, attempt, pool, pollPc, latest, failures, stored,
          ws_clients, todo, waitingFor, dead, gpuOpen, sent, asserted>>

NoClient == "nobody"
ASSUME ClientAssumption == NoClient \notin Clients /\ IsFiniteSet(Clients)

Init ==
  /\ dbUp \in BOOLEAN
  /\ conn = [c \in Clients |-> "none"] /\ slow = {}
  /\ life = "starting" /\ attempt = 0 /\ pool = FALSE
  /\ pollPc = "none" /\ latest = 0 /\ failures = 0 /\ stored = {}
  /\ ws_clients = {}
  /\ todo = {} /\ waitingFor = NoClient /\ dead = {}
  /\ gpuOpen = TRUE /\ sent = [c \in Clients |-> <<>>] /\ asserted = TRUE

-----------------------------------------------------------------------------
(* The world: the database comes and goes, clients stall and leave. *)

DbChanges ==
  /\ life # "stopped"
  /\ dbUp' = ~dbUp
  /\ UNCHANGED <<pool, stored, attempt, fan, socket, life, pollPc, latest, failures,
                 ws_clients, gpuOpen, asserted>>

ClientStalls(c) ==
  /\ conn[c] = "open" /\ c \notin slow
  /\ slow' = slow \cup {c}
  /\ UNCHANGED <<db, fan, conn, sent, life, pollPc, latest, failures,
                 ws_clients, gpuOpen, asserted>>

\* The connection takes data again: an await of send_text on it ends.
ClientReads(c) ==
  /\ c \in slow
  /\ slow' = slow \ {c}
  /\ waitingFor' = IF waitingFor = c THEN NoClient ELSE waitingFor
  /\ UNCHANGED <<db, todo, dead, conn, sent, life, pollPc, latest, failures, ws_clients,
                 gpuOpen, asserted>>

\* The client closes, or the server's keep-alive ping gives it up; an await of
\* send_text on the connection raises.
ClientLeaves(c) ==
  /\ conn[c] = "open"
  /\ conn' = [conn EXCEPT ![c] = "lost"]
  /\ slow' = slow \ {c}
  /\ waitingFor' = IF waitingFor = c THEN NoClient ELSE waitingFor
  /\ dead' = IF waitingFor = c THEN dead \cup {c} ELSE dead
  /\ UNCHANGED <<db, todo, sent, life, pollPc, latest, failures, ws_clients, gpuOpen,
                 asserted>>

-----------------------------------------------------------------------------
(* lifespan: connect, serve, stop. *)

\* create_task(_poll_loop()), whether the database answered or not
StartPolling == life' = "serving" /\ pollPc' = "ready"

\* Mutant: the attempts are not limited.
Connect_NoLimit ==
  /\ life = "starting"
  /\ IF dbUp
       THEN pool' = TRUE /\ StartPolling /\ UNCHANGED attempt
       ELSE attempt' = attempt + 1 /\ UNCHANGED <<pool, life, pollPc>>
  /\ UNCHANGED <<dbUp, stored, fan, socket, latest, failures, ws_clients, gpuOpen, asserted>>

Connect ==
  /\ life = "starting"
  /\ IF dbUp
       THEN pool' = TRUE /\ StartPolling /\ UNCHANGED attempt
       ELSE /\ attempt' = attempt + 1 /\ UNCHANGED pool
            /\ IF attempt + 1 = MaxAttempts THEN StartPolling ELSE UNCHANGED <<life, pollPc>>
  /\ UNCHANGED <<dbUp, stored, fan, socket, latest, failures, ws_clients, gpuOpen, asserted>>

\* _fanout copies the set of clients when it begins; without clients it returns.
BeginFanout ==
  /\ todo' = ws_clients
  /\ pollPc' = IF ws_clients = {} THEN "sleep" ELSE "fanout"

\* Mutant: the handler around the database write catches the cancellation too.
Stop_Swallowed ==
  /\ life = "serving"
  /\ life' = "stopping"
  /\ dead' = {} /\ waitingFor' = NoClient
  /\ IF pollPc = "write" THEN BeginFanout ELSE pollPc' = "cancelled" /\ todo' = {}
  /\ UNCHANGED <<db, socket, latest, failures, ws_clients, gpuOpen, asserted>>

\* task.cancel(): the CancelledError is raised where the loop waits, and neither
\* `except Exception` catches it.
Stop ==
  /\ life = "serving"
  /\ life' = "stopping"
  /\ pollPc' = "cancelled" /\ todo' = {} /\ dead' = {} /\ waitingFor' = NoClient
  /\ UNCHANGED <<db, socket, latest, failures, ws_clients, gpuOpen, asserted>>

\* Mutant: NVML and the pool are closed before the loop is cancelled.
Close_TooEarly ==
  /\ life \in {"serving", "stopping"}
  /\ life' = "stopped" /\ gpuOpen' = FALSE
  /\ UNCHANGED <<db, fan, socket, pollPc, latest, failures, ws_clients, asserted>>

\* await task returns; the store and NVML are closed.  If closing the pool raises,
\* the lifespan ends without shutdown() and leaves NVML to the end of the process.
Close ==
  /\ life = "stopping" /\ pollPc = "cancelled"
  /\ life' = "stopped" /\ gpuOpen' \in {FALSE} \cup (IF pool THEN {TRUE} ELSE {})
  /\ UNCHANGED <<db, fan, socket, pollPc, latest, failures, ws_clients, asserted>>

-----------------------------------------------------------------------------
(* The poll loop. *)

MayPoll == pollPc \in {"ready", "sleep"} /\ latest < MaxSnapshots

\* The collectors run without an await and the snapshot is published before it is
\* written.  write_snapshot returns at once when there is no pool.
Collect ==
  /\ MayPoll
  /\ latest' = latest + 1
  /\ IF pool THEN pollPc' = "write" /\ UNCHANGED todo ELSE BeginFanout
  /\ UNCHANGED <<db, waitingFor, dead, socket, life, failures, ws_clients, gpuOpen, asserted>>

\* A collector raises: logged, and the loop sleeps.
CollectFails ==
  /\ MayPoll /\ failures < MaxFailures
  /\ failures' = failures + 1
  /\ pollPc' = "sleep"
  /\ UNCHANGED <<db, fan, socket, life, latest, ws_clients, gpuOpen, asserted>>

\* The rows are in the database, or the error is logged (a statement that hangs
\* times out), and the clients are served all the same.
Write ==
  /\ pollPc = "write"
  /\ stored' \in {stored} \cup (IF dbUp THEN {stored \cup {latest}} ELSE {})
  /\ BeginFanout
  /\ UNCHANGED <<dbUp, pool, attempt, socket, life, latest, failures, ws_clients,
                 waitingFor, dead, gpuOpen, asserted>>

\* Mutant: clients that take no data are skipped.
FanoutSend_SkipsSlow(c) ==
  /\ pollPc = "fanout" /\ waitingFor = NoClient /\ c \in todo
  /\ todo' = todo \ {c}
  /\ IF conn[c] = "open"
       THEN /\ sent' = IF c \in slow THEN sent ELSE [sent EXCEPT ![c] = Append(@, latest)]
            /\ UNCHANGED <<waitingFor, dead>>
       ELSE dead' = dead \cup {c} /\ UNCHANGED <<sent, waitingFor>>
  /\ UNCHANGED <<db, conn, slow, life, pollPc, latest, failures, ws_clients,
                 gpuOpen, asserted>>

\* Mutant: a send that fails is tried again.
FanoutSend_Retries(c) ==
  /\ pollPc = "fanout" /\ waitingFor = NoClient /\ c \in todo
  /\ IF conn[c] = "open"
       THEN /\ todo' = todo \ {c}
            /\ sent' = [sent EXCEPT ![c] = Append(@, latest)]
            /\ waitingFor' = IF c \in slow THEN c ELSE NoClient
            /\ UNCHANGED dead
       ELSE UNCHANGED <<todo, dead, sent, waitingFor>>
  /\ UNCHANGED <<db, conn, slow, life, pollPc, latest, failures, ws_clients,
                 gpuOpen, asserted>>

\* send_text to the next client: the data goes out before the first suspension,
\* the await lasts as long as the connection is congested.
FanoutSend(c) ==
  /\ pollPc = "fanout" /\ waitingFor = NoClient /\ c \in todo
  /\ todo' = todo \ {c}
  /\ IF conn[c] = "open"
       THEN /\ sent' = [sent EXCEPT ![c] = Append(@, latest)]
            /\ waitingFor' = IF c \in slow THEN c ELSE NoClient
            /\ UNCHANGED dead
       ELSE dead' = dead \cup {c} /\ UNCHANGED <<sent, waitingFor>>
  /\ UNCHANGED <<db, conn, slow, life, pollPc, latest, failures, ws_clients,
                 gpuOpen, asserted>>

FanoutEnds ==
  /\ pollPc = "fanout" /\ waitingFor = NoClient /\ todo = {}
  /\ ws_clients' = ws_clients \ dead
  /\ dead' = {}
  /\ pollPc' = "sleep"
  /\ UNCHANGED <<db, todo, waitingFor, socket, life, latest, failures, gpuOpen, asserted>>

Poll ==
  \/ Collect \/ CollectFails \/ Write \/ FanoutEnds
  \/ \E c \in Clients : FanoutSend(c)

-----------------------------------------------------------------------------
(* ws_endpoint and the history handler. *)

\* Mutant: a new client waits for the next fan-out.
Accept_NoGreeting(c) ==
  /\ life = "serving" /\ conn[c] = "none" /\ c \notin todo \cup dead /\ waitingFor # c
  /\ conn' = [conn EXCEPT ![c] = "open"]
  /\ ws_clients' = ws_clients \cup {c}
  /\ sent' = [sent EXCEPT ![c] = <<>>]
  /\ UNCHANGED <<db, fan, slow, life, pollPc, latest, failures, gpuOpen, asserted>>

\* accept() has returned: the client is registered and, with no await in between,
\* the latest snapshot is put on its connection.  That send_text hands its data over
\* before its first suspension is what uvicorn does; nothing here enforces it.
Accept(c) ==
  /\ life = "serving" /\ conn[c] = "none" /\ c \notin todo \cup dead /\ waitingFor # c
  /\ conn' = [conn EXCEPT ![c] = "open"]
  /\ ws_clients' = ws_clients \cup {c}
  /\ sent' = [sent EXCEPT ![c] = IF latest > 0 THEN <<latest>> ELSE <<>>]
  /\ UNCHANGED <<db, fan, slow, life, pollPc, latest, failures, gpuOpen, asserted>>

\* Mutant: without the finally clause.
Disconnect_NoDiscard(c) ==
  /\ conn[c] = "lost"
  /\ conn' = [conn EXCEPT ![c] = "none"]
  /\ sent' = [sent EXCEPT ![c] = <<>>]
  /\ UNCHANGED <<db, fan, slow, life, pollPc, latest, failures, ws_clients, gpuOpen, asserted>>

\* WebSocketDisconnect, from the send or the receive; finally: discard.
Disconnect(c) ==
  /\ conn[c] = "lost"
  /\ conn' = [conn EXCEPT ![c] = "none"]
  /\ ws_clients' = ws_clients \ {c}
  /\ sent' = [sent EXCEPT ![c] = <<>>]
  /\ UNCHANGED <<db, fan, slow, life, pollPc, latest, failures, gpuOpen, asserted>>

\* GET /api/history reaches `assert self._pool is not None`.
ApiHistory ==
  /\ life = "serving"
  /\ asserted' = pool
  /\ UNCHANGED <<db, fan, socket, life, pollPc, latest, failures, ws_clients, gpuOpen>>

Ended ==
  /\ life = "stopped" \/ (pollPc = "sleep" /\ latest = MaxSnapshots)
  /\ UNCHANGED vars

Next ==
  \/ DbChanges \/ Connect \/ Stop \/ Close \/ Poll \/ ApiHistory \/ Ended
  \/ \E c \in Clients : \/ ClientStalls(c) \/ ClientReads(c) \/ ClientLeaves(c)
                        \/ Accept(c) \/ Disconnect(c)

Spec == Init /\ [][Next]_vars

\* The event loop runs every task that is ready, and closing the pool comes to an
\* end; somebody may or may not stop the server.  A client that takes no data does
\* so again or is given up: by the time-out of a keep-alive ping sent before it
\* stalled (a ping issued while a send is blocked waits behind it), or, in the
\* shipped deployment, by nginx, whose send_timeout ends such a connection.
Unstall(c) == c \in slow /\ (ClientReads(c) \/ ClientLeaves(c))
Fairness ==
  /\ WF_vars(Connect) /\ WF_vars(Close) /\ WF_vars(Poll)
  /\ \A c \in Clients : WF_vars(Unstall(c)) /\ WF_vars(Disconnect(c))

FairSpec == Spec /\ Fairness

-----------------------------------------------------------------------------
(* Properties. *)

Snapshots == 1..MaxSnapshots

\* Every variable keeps its type.
TypeOK ==
  /\ dbUp \in BOOLEAN /\ conn \in [Clients -> {"none", "open", "lost"}]
  /\ slow \subseteq Clients /\ life \in {"starting", "serving", "stopping", "stopped"}
  /\ attempt \in 0..MaxAttempts /\ pool \in BOOLEAN
  /\ pollPc \in {"none", "ready", "write", "fanout", "sleep", "cancelled"}
  /\ latest \in 0..MaxSnapshots /\ failures \in 0..MaxFailures
  /\ stored \subseteq Snapshots /\ ws_clients \subseteq Clients
  /\ todo \subseteq Clients /\ waitingFor \in Clients \cup {NoClient}
  /\ dead \subseteq Clients /\ gpuOpen \in BOOLEAN
  /\ sent \in [Clients -> Seq(Snapshots)] /\ asserted \in BOOLEAN

\* On every connection the snapshots come in order and without gaps, from the
\* one it was greeted with; only that one may come twice (when the client joins
\* between its publication and its fan-out).
NoGaps ==
  \A c \in Clients : \A i \in 1..(Len(sent[c]) - 1) :
    \/ sent[c][i + 1] = sent[c][i] + 1
    \/ i = 1 /\ sent[c][2] = sent[c][1]

\* Between two polls every client that is still there has been sent the latest
\* snapshot, whenever it joined and however its neighbours behaved.
CaughtUp ==
  pollPc = "sleep" /\ latest > 0 =>
    \A c \in ws_clients :
      conn[c] = "open" => sent[c] # <<>> /\ sent[c][Len(sent[c])] = latest

\* Every connection that is open is registered, and none that is over stays
\* registered once its task has ended.
RegisteredIffConnected ==
  \A c \in Clients :
    /\ conn[c] = "open" => c \in ws_clients
    /\ c \in ws_clients => conn[c] # "none"

\* NVML is closed only when the poll loop is over for good.
GpuOutlivesPolling == ~gpuOpen => pollPc = "cancelled"

\* A fan-out comes to an end although clients stall or vanish in the middle of
\* it, so that polling goes on.
FanoutCompletes == (pollPc = "fanout") ~> (pollPc # "fanout")

\* Without a database the exporter serves all the same: the start comes to an end.
StartEnds == (life = "starting") ~> (life # "starting")

\* A stopped server ends: the cancelled loop does not swallow the cancellation.
StopEnds == (life = "stopping") ~> (life = "stopped")

\* The server comes up and goes down, whatever the database and the clients do.
LifeMovesOn == StartEnds /\ StopEnds

\* `assert self._pool is not None` (MetricsStore.history): it holds whenever a
\* history is asked for.  After MaxAttempts failures it does not.
HistoryAssertion == asserted

=============================================================================
