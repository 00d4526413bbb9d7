---------------------------- MODULE WebService_proofs --------------------------
(***************************************************************************)
(* Proofs about the two ends of the web service.                           *)
(*                                                                         *)
(* Exporter, for any number of clients, attempts, snapshots and failures:  *)
(* types, the order of the shutdown, the registration of the connections,  *)
(* and the delivery of the snapshots to each of them.                      *)
(*                                                                         *)
(* LiveClient, for any number of snapshots, losses of the connection and   *)
(* runs of the effect: at most one socket feeds the page, and what it      *)
(* shows never goes back to an older snapshot.                             *)
(***************************************************************************)
EXTENDS Exporter, LiveClient, SequenceTheorems, TLAPS

USE DEF db, fan, socket

-----------------------------------------------------------------------------
(* Types and the life of the process. *)

\* The start ends with the last attempt, and nothing polls before; NVML is closed last, when nothing
\* polls any more; whatever is written or sent is a snapshot.
Lifecycle ==
  /\ life = "starting" => attempt < MaxAttempts /\ pollPc = "none"
  /\ ~gpuOpen => life = "stopped" /\ pollPc = "cancelled"
  /\ pollPc \in {"write", "fanout"} => latest > 0

LEMMA InitLife == Init => TypeOK /\ Lifecycle
<1> SUFFICES ASSUME Init PROVE TypeOK /\ Lifecycle
  OBVIOUS
<1>1. sent \in [Clients -> Seq(Snapshots)]
  BY DEF Init
<1>2. conn \in [Clients -> {"none", "open", "lost"}]
  BY DEF Init
<1>3. attempt \in 0..MaxAttempts /\ latest \in 0..MaxSnapshots /\ failures \in 0..MaxFailures
  BY AttemptAssumption, BoundAssumption DEF Init
<1>4. TypeOK
  BY <1>1, <1>2, <1>3 DEF Init, TypeOK
<1> QED
  BY <1>4, AttemptAssumption DEF Init, Lifecycle

\* Starting and stopping.
LEMMA StartStopLife ==
  ASSUME TypeOK, Lifecycle, Connect \/ Stop \/ Close
  PROVE  TypeOK' /\ Lifecycle'
<1> USE DEF TypeOK, Lifecycle
<1>1. CASE Connect
  <2>1. CASE dbUp
    BY <1>1, <2>1 DEF Connect, StartPolling
  <2>2. CASE ~dbUp
    <3>1. attempt' = attempt + 1 /\ attempt + 1 \in 0..MaxAttempts
      BY <1>1, <2>2, AttemptAssumption DEF Connect
    <3>2. CASE attempt + 1 = MaxAttempts
      BY <1>1, <2>2, <3>1, <3>2 DEF Connect, StartPolling
    <3>3. CASE attempt + 1 # MaxAttempts
      <4>1. attempt' < MaxAttempts
        BY <3>1, <3>3, AttemptAssumption
      <4> QED
        BY <1>1, <2>2, <3>1, <3>3, <4>1 DEF Connect
    <3> QED
      BY <3>2, <3>3
  <2> QED
    BY <2>1, <2>2
<1>2. CASE Stop
  BY <1>2 DEF Stop
<1>3. CASE Close
  BY <1>3 DEF Close
<1> QED
  BY <1>1, <1>2, <1>3

\* The poll loop.
LEMMA PollLife ==
  ASSUME TypeOK, Lifecycle, Poll
  PROVE  TypeOK' /\ Lifecycle'
<1> USE DEF TypeOK, Lifecycle, BeginFanout
<1>1. CASE Collect
  BY <1>1, BoundAssumption DEF Collect, MayPoll
<1>2. CASE CollectFails
  BY <1>2, BoundAssumption DEF CollectFails, MayPoll
<1>3. CASE Write
  <2>1. latest \in Snapshots
    BY <1>3 DEF Write, Snapshots
  <2> QED
    BY <1>3, <2>1 DEF Write
<1>4. CASE FanoutEnds
  BY <1>4 DEF FanoutEnds
<1>5. ASSUME NEW c \in Clients, FanoutSend(c)
      PROVE  TypeOK' /\ Lifecycle'
  <2>1. latest \in Snapshots
    BY <1>5 DEF FanoutSend, Snapshots
  <2>2. sent' \in [Clients -> Seq(Snapshots)]
    <3>1. Append(sent[c], latest) \in Seq(Snapshots)
      BY <2>1
    <3> QED
      BY <1>5, <3>1 DEF FanoutSend
  <2>3. todo' \subseteq Clients /\ dead' \subseteq Clients /\ waitingFor' \in Clients \cup {NoClient}
    BY <1>5 DEF FanoutSend
  <2> QED
    BY <1>5, <2>2, <2>3 DEF FanoutSend
<1> QED
  BY <1>1, <1>2, <1>3, <1>4, <1>5 DEF Poll

\* The clients and their tasks.
LEMMA ClientLife ==
  ASSUME TypeOK, Lifecycle, NEW c \in Clients,
         ClientStalls(c) \/ ClientReads(c) \/ ClientLeaves(c) \/ Accept(c) \/ Disconnect(c)
  PROVE  TypeOK' /\ Lifecycle'
<1> USE DEF TypeOK, Lifecycle
<1>1. CASE ClientStalls(c)
  BY <1>1 DEF ClientStalls
<1>2. CASE ClientReads(c)
  BY <1>2 DEF ClientReads
<1>3. CASE ClientLeaves(c)
  BY <1>3 DEF ClientLeaves
<1>4. CASE Accept(c)
  <2>1. sent' \in [Clients -> Seq(Snapshots)]
    <3>1. <<>> \in Seq(Snapshots)
      OBVIOUS
    <3>2. ASSUME latest > 0 PROVE <<latest>> \in Seq(Snapshots)
      <4>1. latest \in Snapshots
        BY <3>2 DEF Snapshots
      <4> QED
        BY <4>1
    <3> QED
      BY <1>4, <3>1, <3>2 DEF Accept
  <2> QED
    BY <1>4, <2>1 DEF Accept
<1>5. CASE Disconnect(c)
  <2>1. sent' \in [Clients -> Seq(Snapshots)]
    BY <1>5 DEF Disconnect
  <2> QED
    BY <1>5, <2>1 DEF Disconnect
<1> QED
  BY <1>1, <1>2, <1>3, <1>4, <1>5

LEMMA NextLife == TypeOK /\ Lifecycle /\ [Next]_vars => TypeOK' /\ Lifecycle'
<1> SUFFICES ASSUME TypeOK, Lifecycle, [Next]_vars PROVE TypeOK' /\ Lifecycle'
  OBVIOUS
<1>1. CASE DbChanges
  BY <1>1 DEF DbChanges, TypeOK, Lifecycle
<1>2. CASE ApiHistory
  BY <1>2 DEF ApiHistory, TypeOK, Lifecycle
<1>3. CASE UNCHANGED vars
  BY <1>3 DEF vars, TypeOK, Lifecycle
<1> QED
  BY <1>1, <1>2, <1>3, StartStopLife, PollLife, ClientLife DEF Next, Ended

LEMMA LifeInvariance == Spec => [](TypeOK /\ Lifecycle)
BY InitLife, NextLife, PTL DEF Spec

\* The variables keep their types.
THEOREM TypeCorrect == Spec => []TypeOK
BY LifeInvariance, PTL

\* NVML outlives the poll loop: it is closed only after the cancelled task is over.
THEOREM GpuOutlivesThePolling == Spec => []GpuOutlivesPolling
<1>1. Lifecycle => GpuOutlivesPolling
  BY DEF Lifecycle, GpuOutlivesPolling
<1> QED
  BY <1>1, LifeInvariance, PTL

-----------------------------------------------------------------------------
(* The registration of the connections. *)

\* The fan-out takes only connections for dead that are.
DeadAreGone == \A c \in dead : conn[c] # "open"

Registration == RegisteredIffConnected /\ DeadAreGone

LEMMA NextRegistration ==
  TypeOK /\ Registration /\ [Next]_vars => Registration'
<1> SUFFICES ASSUME TypeOK, Registration, [Next]_vars PROVE Registration'
  OBVIOUS
<1> USE DEF Registration, RegisteredIffConnected, DeadAreGone, TypeOK
<1>1. CASE DbChanges \/ ApiHistory \/ Connect \/ Stop \/ Close
  BY <1>1 DEF DbChanges, ApiHistory, Connect, Stop, Close
<1>2. CASE Collect \/ CollectFails \/ Write
  BY <1>2 DEF Collect, CollectFails, Write
<1>3. CASE FanoutEnds
  BY <1>3 DEF FanoutEnds
<1>4. ASSUME NEW c \in Clients, FanoutSend(c) PROVE Registration'
  BY <1>4 DEF FanoutSend
<1>5. ASSUME NEW c \in Clients, ClientStalls(c) \/ ClientReads(c) PROVE Registration'
  BY <1>5 DEF ClientStalls, ClientReads
<1>6. ASSUME NEW c \in Clients, ClientLeaves(c) PROVE Registration'
  BY <1>6 DEF ClientLeaves
<1>7. ASSUME NEW c \in Clients, Accept(c) PROVE Registration'
  BY <1>7 DEF Accept
<1>8. ASSUME NEW c \in Clients, Disconnect(c) PROVE Registration'
  BY <1>8 DEF Disconnect
<1>9. CASE UNCHANGED vars
  BY <1>9 DEF vars
<1> QED
  BY <1>1, <1>2, <1>3, <1>4, <1>5, <1>6, <1>7, <1>8, <1>9 DEF Next, Poll, Ended

LEMMA RegistrationInvariance == Spec => []Registration
<1>1. Init => Registration
  BY DEF Init, Registration, RegisteredIffConnected, DeadAreGone
<1> QED
  BY <1>1, NextRegistration, TypeCorrect, PTL DEF Spec

\* An open connection is registered, and one that is over does not stay so.
THEOREM ConnectionsAreRegistered == Spec => []RegisteredIffConnected
<1>1. Registration => RegisteredIffConnected
  BY DEF Registration
<1> QED
  BY <1>1, RegistrationInvariance, PTL

-----------------------------------------------------------------------------
(* The delivery of the snapshots. *)

\* The last snapshot put on a connection, 0 if there was none.
Last(s) == IF s = <<>> THEN 0 ELSE s[Len(s)]

\* The connection can take n next: it had the one before, or it was greeted with n.
Expects(s, n) == Last(s) = n - 1 \/ (Last(s) = n /\ Len(s) = 1)

InOrder(s) ==
  \A i \in 1..(Len(s) - 1) : s[i + 1] = s[i] + 1 \/ (i = 1 /\ s[2] = s[1])

\* While a snapshot is written or sent, the connections it has still to reach
\* expect it, and all others have it.
Delivery ==
  \A c \in Clients : conn[c] = "open" =>
    /\ pollPc = "write" => Expects(sent[c], latest)
    /\ pollPc = "fanout" => IF c \in todo THEN Expects(sent[c], latest)
                                          ELSE Last(sent[c]) = latest
    /\ pollPc \in {"none", "ready", "sleep"} => Last(sent[c]) = latest

\* A snapshot put on a connection that expects it keeps the order.
LEMMA AppendInOrder ==
  ASSUME NEW s \in Seq(Nat), NEW n \in Nat, InOrder(s), Expects(s, n)
  PROVE  InOrder(Append(s, n)) /\ Last(Append(s, n)) = n
<1> DEFINE t == Append(s, n)
<1>1. /\ Len(t) = Len(s) + 1 /\ t # <<>> /\ t[Len(s) + 1] = n
      /\ \A i \in 1..Len(s) : t[i] = s[i]
      /\ Len(s) \in Nat
  OBVIOUS
<1>2. Last(t) = n
  BY <1>1 DEF Last
<1>3. ASSUME NEW i \in 1..Len(s)
      PROVE  t[i + 1] = t[i] + 1 \/ (i = 1 /\ t[2] = t[1])
  <2>1. CASE i = Len(s)
    <3>1. s # <<>> /\ Last(s) = s[Len(s)] /\ s[Len(s)] \in Nat
      BY <2>1 DEF Last
    <3>2. t[i + 1] = n /\ t[i] = s[Len(s)]
      BY <1>1, <2>1
    <3> QED
      BY <2>1, <3>1, <3>2 DEF Expects
  <2>2. CASE i \in 1..(Len(s) - 1)
    <3>1. t[i] = s[i] /\ t[i + 1] = s[i + 1] /\ (i = 1 => t[1] = s[1] /\ t[2] = s[2])
      BY <1>1, <2>2
    <3> QED
      BY <2>2, <3>1 DEF InOrder
  <2> QED
    BY <1>1, <2>1, <2>2
<1>4. Len(t) - 1 = Len(s)
  BY <1>1
<1>5. InOrder(t)
  BY <1>3, <1>4 DEF InOrder
<1> QED
  BY <1>2, <1>5

\* The sequences of the connections are sequences of numbers.
LEMMA SentIsSeq ==
  ASSUME TypeOK, NEW c \in Clients
  PROVE  sent[c] \in Seq(Nat) /\ latest \in Nat
<1>1. sent[c] \in Seq(Snapshots) /\ latest \in Nat
  BY DEF TypeOK
<1>2. Snapshots \subseteq Nat
  BY BoundAssumption DEF Snapshots
<1> QED
  BY <1>1, <1>2, SeqMonotonic

AllInOrder == \A c \in Clients : InOrder(sent[c])

\* The fan-out reaches one more connection.
LEMMA SendDelivery ==
  ASSUME TypeOK, Delivery, AllInOrder, NEW c \in Clients, FanoutSend(c)
  PROVE  Delivery' /\ AllInOrder'
<1>1. /\ pollPc = "fanout" /\ pollPc' = pollPc /\ latest' = latest /\ conn' = conn
      /\ c \in todo /\ todo' = todo \ {c}
  BY DEF FanoutSend
<1>2. CASE conn[c] = "open"
  <2>1. sent' = [sent EXCEPT ![c] = Append(@, latest)]
    BY <1>2 DEF FanoutSend
  <2>2. /\ sent'[c] = Append(sent[c], latest)
        /\ \A d \in Clients \ {c} : sent'[d] = sent[d]
    BY <2>1 DEF TypeOK
  <2>3. Expects(sent[c], latest)
    BY <1>1, <1>2 DEF Delivery
  <2>4. InOrder(sent'[c]) /\ Last(sent'[c]) = latest
    BY <2>2, <2>3, SentIsSeq, AppendInOrder DEF AllInOrder
  <2> QED
    BY <1>1, <2>2, <2>4 DEF Delivery, AllInOrder
<1>3. CASE conn[c] # "open"
  <2>1. sent' = sent
    BY <1>3 DEF FanoutSend
  <2> QED
    BY <1>1, <1>3, <2>1 DEF Delivery, AllInOrder
<1> QED
  BY <1>2, <1>3

\* A new connection starts over, with the latest snapshot if there is one.
LEMMA AcceptDelivery ==
  ASSUME TypeOK, Lifecycle, Delivery, AllInOrder, NEW c \in Clients, Accept(c)
  PROVE  Delivery' /\ AllInOrder'
<1>1. /\ pollPc' = pollPc /\ latest' = latest /\ todo' = todo /\ c \notin todo
      /\ \A d \in Clients \ {c} : conn'[d] = conn[d] /\ sent'[d] = sent[d]
      /\ sent'[c] = IF latest > 0 THEN <<latest>> ELSE <<>>
  BY DEF Accept, TypeOK
<1>2. /\ Last(sent'[c]) = latest
      /\ latest > 0 => Expects(sent'[c], latest)
      /\ InOrder(sent'[c])
  <2>1. latest \in Nat
    BY DEF TypeOK
  <2>2. CASE latest > 0
    <3>1. sent'[c] = <<latest>> /\ Len(<<latest>>) = 1 /\ <<latest>> # <<>>
      BY <1>1, <2>2
    <3> QED
      BY <3>1 DEF Last, Expects, InOrder
  <2>3. CASE ~(latest > 0)
    <3>1. sent'[c] = <<>> /\ latest = 0
      BY <1>1, <2>1, <2>3
    <3> QED
      BY <2>3, <3>1 DEF Last, InOrder
  <2> QED
    BY <2>2, <2>3
<1> QED
  BY <1>1, <1>2 DEF Delivery, AllInOrder, Lifecycle

\* A snapshot is published: every open connection, being registered, expects it.
LEMMA CollectDelivery ==
  ASSUME TypeOK, Registration, Delivery, AllInOrder, Collect
  PROVE  Delivery' /\ AllInOrder'
<1>1. /\ conn' = conn /\ sent' = sent /\ ws_clients' = ws_clients /\ latest' = latest + 1
      /\ pollPc \in {"ready", "sleep"} /\ latest \in Nat
      /\ \/ pollPc' = "write"
         \/ pollPc' = "fanout" /\ todo' = ws_clients
         \/ pollPc' = "sleep" /\ ws_clients = {}
  BY DEF Collect, MayPoll, BeginFanout, TypeOK
<1>2. \A c \in Clients : conn[c] = "open" => c \in ws_clients /\ Expects(sent[c], latest')
  <2> SUFFICES ASSUME NEW c \in Clients, conn[c] = "open"
               PROVE  c \in ws_clients /\ Expects(sent[c], latest')
    OBVIOUS
  <2>1. Last(sent[c]) = latest
    BY <1>1 DEF Delivery
  <2>2. Last(sent[c]) = latest' - 1
    BY <1>1, <2>1
  <2> QED
    BY <2>2 DEF Expects, Registration, RegisteredIffConnected
<1> QED
  BY <1>1, <1>2 DEF Delivery, AllInOrder

\* The write is over and the fan-out begins, or nobody is there.
LEMMA WriteDelivery ==
  ASSUME TypeOK, Registration, Delivery, AllInOrder, Write
  PROVE  Delivery' /\ AllInOrder'
<1>1. /\ conn' = conn /\ sent' = sent /\ latest' = latest /\ pollPc = "write"
      /\ \/ pollPc' = "fanout" /\ todo' = ws_clients
         \/ pollPc' = "sleep" /\ ws_clients = {}
  BY DEF Write, BeginFanout
<1>2. \A c \in Clients : conn[c] = "open" => c \in ws_clients
  BY DEF Registration, RegisteredIffConnected
<1> QED
  BY <1>1, <1>2 DEF Delivery, AllInOrder

LEMMA NextDelivery ==
  TypeOK /\ Lifecycle /\ Registration /\ Delivery /\ AllInOrder /\ [Next]_vars
    => Delivery' /\ AllInOrder'
<1> SUFFICES ASSUME TypeOK, Lifecycle, Registration, Delivery, AllInOrder, [Next]_vars
             PROVE  Delivery' /\ AllInOrder'
  OBVIOUS
<1>1. CASE UNCHANGED <<conn, sent, latest, todo, pollPc>>
  BY <1>1 DEF Delivery, AllInOrder
<1>2. CASE Connect
  BY <1>2 DEF Connect, StartPolling, Delivery, AllInOrder, Lifecycle, TypeOK
<1>3. CASE Stop
  BY <1>3 DEF Stop, Delivery, AllInOrder
<1>4. CASE CollectFails
  BY <1>4 DEF CollectFails, MayPoll, Delivery, AllInOrder
<1>5. CASE FanoutEnds
  BY <1>5 DEF FanoutEnds, Delivery, AllInOrder
<1>6. ASSUME NEW c \in Clients, ClientLeaves(c) PROVE Delivery' /\ AllInOrder'
  <2>1. /\ \A d \in Clients : conn'[d] = "open" => conn[d] = "open"
        /\ UNCHANGED <<sent, latest, todo, pollPc>>
    BY <1>6 DEF ClientLeaves, TypeOK
  <2> QED
    BY <2>1 DEF Delivery, AllInOrder
<1>7. ASSUME NEW c \in Clients, Disconnect(c) PROVE Delivery' /\ AllInOrder'
  <2>1. /\ \A d \in Clients : conn'[d] = "open" => conn[d] = "open" /\ d # c
        /\ \A d \in Clients \ {c} : sent'[d] = sent[d]
        /\ sent'[c] = <<>> /\ UNCHANGED <<latest, todo, pollPc>>
    BY <1>7 DEF Disconnect, TypeOK
  <2>2. InOrder(sent'[c])
    BY <2>1 DEF InOrder
  <2> QED
    BY <2>1, <2>2 DEF Delivery, AllInOrder
<1>8. CASE DbChanges \/ ApiHistory \/ Close
           \/ \E c \in Clients : ClientStalls(c) \/ ClientReads(c)
  BY <1>1, <1>8 DEF DbChanges, ApiHistory, Close, ClientStalls, ClientReads
<1>9. CASE UNCHANGED vars
  BY <1>1, <1>9 DEF vars
<1> QED
  BY <1>2, <1>3, <1>4, <1>5, <1>6, <1>7, <1>8, <1>9, SendDelivery, AcceptDelivery,
     CollectDelivery, WriteDelivery
     DEF Next, Poll, Ended

LEMMA DeliveryInvariance == Spec => [](Delivery /\ AllInOrder)
<1>1. Init => Delivery /\ AllInOrder
  BY DEF Init, Delivery, AllInOrder, InOrder, Last
<1> QED
  BY <1>1, NextDelivery, LifeInvariance, RegistrationInvariance, PTL DEF Spec

\* On every connection the snapshots come in order and without gaps, whatever the
\* database, the other clients and the shutdown do between two awaits.
THEOREM SnapshotsComeInOrder == Spec => []NoGaps
<1>1. AllInOrder => NoGaps
  BY DEF AllInOrder, InOrder, NoGaps
<1> QED
  BY <1>1, DeliveryInvariance, PTL

\* Between two polls every client that is there has the latest snapshot.
THEOREM ClientsCatchUp == Spec => []CaughtUp
<1>1. TypeOK /\ Delivery => CaughtUp
  BY DEF TypeOK, Delivery, CaughtUp, Last
<1> QED
  BY <1>1, DeliveryInvariance, TypeCorrect, PTL

-----------------------------------------------------------------------------
(* LiveClient.  That the page never goes back rests on two facts: the run   *)
(* of the effect that is not stopped has one socket or one timer, and what  *)
(* is under way to an open socket is in order and not older than what is    *)
(* shown - also what the exporter greets a new socket with.                 *)

\* A socket that has not closed.
SocketType == [effect : Effects, state : {"connecting", "open", "closing"}, inbox : Seq(Nat)]

\* What useLiveSnapshot works on.  A snapshot is a number from 1 on.
LiveTypes ==
  /\ published \in Nat /\ snapshot \in Nat /\ snapshot <= published
  /\ effect \in Effects /\ timers \in [Effects -> Nat]
  /\ sockets \in Seq(SocketType)

\* A run of the effect that is not stopped has one socket, the last of all, or one
\* timer; what the runs before it left behind is closing, or is a timer that opens
\* nothing.
OneConnection ==
  /\ \A i \in DOMAIN sockets :
       /\ sockets[i].effect <= effect
       /\ sockets[i].effect = effect => i = Len(sockets) /\ timers[effect] = 0
       /\ sockets[i].state # "closing" => sockets[i].effect = effect
  /\ timers[effect] <= 1
  /\ \A e \in Effects : e > effect => timers[e] = 0

\* The snapshots under way to an open socket: in order, none of them older than the
\* one shown or newer than the latest.
Ascending(inbox, first, last) ==
  /\ \A j \in 1..Len(inbox) : first <= inbox[j] /\ inbox[j] <= last
  /\ \A j, k \in 1..Len(inbox) : j <= k => inbox[j] <= inbox[k]

InboxesAscend ==
  \A i \in DOMAIN sockets :
    sockets[i].state = "open" => Ascending(sockets[i].inbox, snapshot, published)

LiveInv == LiveTypes /\ OneConnection /\ InboxesAscend

\* A sequence without one of its elements.
LEMMA WithoutOne ==
  ASSUME NEW S, NEW s \in Seq(S), NEW i \in 1..Len(s)
  PROVE  /\ SeqExt!RemoveAt(s, i) \in Seq(S)
         /\ Len(SeqExt!RemoveAt(s, i)) = Len(s) - 1
         /\ \A j \in 1..(Len(s) - 1) :
              SeqExt!RemoveAt(s, i)[j] = IF j < i THEN s[j] ELSE s[j + 1]
<1> DEFINE front == SubSeq(s, 1, i - 1)
           back == SubSeq(s, i + 1, Len(s))
<1>1. Len(s) \in Nat /\ i \in Nat /\ 1 <= i /\ i <= Len(s)
  OBVIOUS
<1>2. /\ front \in Seq(S) /\ Len(front) = i - 1
      /\ \A j \in 1..(i - 1) : front[j] = s[j]
  BY <1>1
<1>3. /\ back \in Seq(S) /\ Len(back) = Len(s) - i
      /\ \A j \in 1..(Len(s) - i) : back[j] = s[i + j]
  BY <1>1
<1>4. SeqExt!RemoveAt(s, i) = front \o back
  BY DEF SeqExt!RemoveAt
<1> HIDE DEF front, back
<1>5. /\ front \o back \in Seq(S) /\ Len(front \o back) = Len(s) - 1
      /\ \A j \in 1..(Len(s) - 1) :
           (front \o back)[j] = IF j < i THEN front[j] ELSE back[j - (i - 1)]
  <2>1. /\ front \o back \in Seq(S) /\ Len(front \o back) = Len(front) + Len(back)
        /\ \A j \in 1..(Len(front) + Len(back)) :
             (front \o back)[j] = IF j <= Len(front) THEN front[j] ELSE back[j - Len(front)]
    BY <1>2, <1>3, ConcatProperties
  <2>2. Len(front) + Len(back) = Len(s) - 1 /\ \A j \in Nat : j <= Len(front) <=> j < i
    BY <1>1, <1>2, <1>3
  <2> QED
    BY <1>2, <2>1, <2>2
<1>6. ASSUME NEW j \in 1..(Len(s) - 1)
      PROVE  (front \o back)[j] = IF j < i THEN s[j] ELSE s[j + 1]
  <2>1. CASE j < i
    BY <1>1, <1>2, <1>5, <2>1
  <2>2. CASE ~(j < i)
    <3>1. j - (i - 1) \in 1..(Len(s) - i) /\ i + (j - (i - 1)) = j + 1
      BY <1>1, <2>2
    <3> QED
      BY <1>3, <1>5, <2>2, <3>1
  <2> QED
    BY <2>1, <2>2
<1> QED
  BY <1>4, <1>5, <1>6

\* What the types say of a single socket.
LEMMA SocketFacts ==
  ASSUME LiveTypes
  PROVE  /\ Len(sockets) \in Nat /\ DOMAIN sockets = 1..Len(sockets)
         /\ \A i \in DOMAIN sockets :
              /\ sockets[i] \in SocketType
              /\ sockets[i].effect \in Effects /\ sockets[i].inbox \in Seq(Nat)
         /\ effect \in Effects /\ \A e \in Effects : e \in Nat /\ timers[e] \in Nat
         /\ published \in Nat /\ snapshot \in Nat /\ snapshot <= published
<1>1. /\ sockets \in Seq(SocketType) /\ effect \in Effects /\ timers \in [Effects -> Nat]
      /\ published \in Nat /\ snapshot \in Nat /\ snapshot <= published
  BY DEF LiveTypes
<1>2. Len(sockets) \in Nat /\ DOMAIN sockets = 1..Len(sockets)
  BY <1>1
<1>3. \A i \in DOMAIN sockets : sockets[i] \in SocketType
  BY <1>1, <1>2, ElementOfSeq
<1>4. \A e \in Effects : e \in Nat /\ timers[e] \in Nat
  BY <1>1 DEF Effects
<1> QED
  BY <1>1, <1>2, <1>3, <1>4 DEF SocketType

\* What changes in a socket is its inbox or its state.
LEMMA SocketChanges ==
  ASSUME NEW r \in SocketType, NEW inbox \in Seq(Nat),
         NEW state \in {"connecting", "open", "closing"}
  PROVE  /\ r.effect \in Effects /\ r.inbox \in Seq(Nat)
         /\ [r EXCEPT !.inbox = inbox] =
              [effect |-> r.effect, state |-> r.state, inbox |-> inbox]
         /\ [r EXCEPT !.state = state] =
              [effect |-> r.effect, state |-> state, inbox |-> r.inbox]
         /\ [effect |-> r.effect, state |-> r.state, inbox |-> inbox] \in SocketType
         /\ [effect |-> r.effect, state |-> state, inbox |-> r.inbox] \in SocketType
<1>1. PICK e \in Effects, st \in {"connecting", "open", "closing"}, q \in Seq(Nat) :
        r = [effect |-> e, state |-> st, inbox |-> q]
  BY DEF SocketType
<1>2. r.effect = e /\ r.state = st /\ r.inbox = q
  BY <1>1
<1>3. [r EXCEPT !.inbox = inbox] = [effect |-> e, state |-> st, inbox |-> inbox]
  BY <1>1
<1>5. [r EXCEPT !.state = state] = [effect |-> e, state |-> state, inbox |-> q]
  BY <1>1
<1>4. /\ [effect |-> e, state |-> st, inbox |-> inbox] \in SocketType
      /\ [effect |-> e, state |-> state, inbox |-> q] \in SocketType
  BY DEF SocketType
<1> QED
  BY <1>2, <1>3, <1>4, <1>5

\* One socket, which connects, and no timer.
LEMMA InitLive == ClientInit => LiveInv
<1> SUFFICES ASSUME ClientInit PROVE LiveInv
  OBVIOUS
<1>1. 1 \in Effects /\ \A e \in Effects : e \in Nat
  BY ClientBounds DEF Effects
<1>2. /\ sockets = <<[effect |-> 1, state |-> "connecting", inbox |-> <<>>]>>
      /\ effect = 1 /\ timers = [e \in Effects |-> 0] /\ published = 0 /\ snapshot = 0
  BY DEF ClientInit, NewSocket
<1>3. LiveTypes
  <2>1. [effect |-> 1, state |-> "connecting", inbox |-> <<>>] \in SocketType
    <3>1. <<>> \in Seq(Nat)
      OBVIOUS
    <3> QED
      BY <1>1, <3>1 DEF SocketType
  <2>2. sockets \in Seq(SocketType)
    BY <1>2, <2>1
  <2> QED
    BY <1>1, <1>2, <2>2 DEF LiveTypes
<1>4. OneConnection /\ InboxesAscend
  BY <1>1, <1>2 DEF OneConnection, InboxesAscend
<1> QED
  BY <1>3, <1>4 DEF LiveInv

\* The page of a GPU does not touch the socket.
LEMMA PageLive ==
  ASSUME LiveInv, UNCHANGED <<published, live>>
  PROVE  LiveInv' /\ snapshot' = snapshot
BY DEF live, LiveInv, LiveTypes, OneConnection, InboxesAscend

\* Every open socket gets the new snapshot, after those that are under way.
LEMMA PublishLive == ASSUME LiveInv, Publish PROVE LiveInv' /\ snapshot' = snapshot
<1> USE DEF LiveInv
<1>1. /\ published' = published + 1 /\ UNCHANGED <<effect, timers, snapshot>>
      /\ published \in Nat /\ snapshot \in Nat /\ snapshot <= published
      /\ sockets \in Seq(SocketType) /\ Len(sockets) \in Nat
  BY DEF Publish, LiveTypes
<1>2. sockets' = [i \in 1..Len(sockets) |->
                    IF sockets[i].state # "open" THEN sockets[i]
                    ELSE [sockets[i] EXCEPT !.inbox = Append(@, published')]]
  BY <1>1 DEF Publish
<1>3. ASSUME NEW i \in 1..Len(sockets)
      PROVE  /\ sockets'[i] \in SocketType
             /\ sockets'[i].effect = sockets[i].effect /\ sockets'[i].state = sockets[i].state
             /\ sockets[i].state = "open" =>
                  sockets'[i].inbox = Append(sockets[i].inbox, published')
  <2>1. sockets[i] \in SocketType /\ sockets[i].inbox \in Seq(Nat)
    BY <1>1, SocketFacts
  <2>2. Append(sockets[i].inbox, published') \in Seq(Nat)
    BY <1>1, <2>1
  <2>3. CASE sockets[i].state # "open"
    BY <1>2, <2>1, <2>3
  <2>4. CASE sockets[i].state = "open"
    <3>1. sockets'[i] = [sockets[i] EXCEPT !.inbox = Append(sockets[i].inbox, published')]
      BY <1>2, <2>4
    <3>2. sockets'[i] = [effect |-> sockets[i].effect, state |-> sockets[i].state,
                         inbox |-> Append(sockets[i].inbox, published')]
      BY <2>1, <2>2, <3>1, SocketChanges
    <3>3. sockets'[i] \in SocketType
      <4>1. PICK r \in SocketType, inbox \in Seq(Nat) :
              r = sockets[i] /\ inbox = Append(sockets[i].inbox, published')
        BY <2>1, <2>2
      <4>2. [effect |-> r.effect, state |-> r.state, inbox |-> inbox] \in SocketType
        BY SocketChanges
      <4> QED
        BY <3>2, <4>1, <4>2
    <3> QED
      BY <3>2, <3>3
  <2> QED
    BY <2>3, <2>4
<1>4. sockets' \in Seq(SocketType) /\ Len(sockets') = Len(sockets) /\ DOMAIN sockets' = DOMAIN sockets
  <2>1. PICK q : q = sockets'
    OBVIOUS
  <2>2. DOMAIN q = 1..Len(sockets) /\ \A i \in 1..Len(sockets) : q[i] \in SocketType
    BY <1>2, <1>3, <2>1
  <2>3. q = [i \in 1..Len(sockets) |-> q[i]]
    BY <1>2, <2>1
  <2>4. q \in Seq(SocketType) /\ Len(q) = Len(sockets)
    BY <1>1, <2>2, <2>3
  <2> QED
    BY <1>1, <2>1, <2>2, <2>4
<1>5. LiveTypes' /\ OneConnection'
  <2>1. LiveTypes'
    BY <1>1, <1>4 DEF LiveTypes
  <2>2. \A i \in DOMAIN sockets' : /\ i \in DOMAIN sockets /\ sockets'[i].effect = sockets[i].effect
                                   /\ sockets'[i].state = sockets[i].state
    BY <1>1, <1>3, <1>4
  <2> QED
    BY <1>1, <1>4, <2>1, <2>2 DEF OneConnection
<1>6. ASSUME NEW i \in DOMAIN sockets', sockets'[i].state = "open"
      PROVE  Ascending(sockets'[i].inbox, snapshot', published')
  <2>1. i \in 1..Len(sockets)
    BY <1>1, <1>4
  <2>2. PICK s : s = sockets[i].inbox
    OBVIOUS
  <2>3. s \in Seq(Nat)
    BY <1>1, <2>1, <2>2, SocketFacts
  <2>4. sockets'[i].inbox = Append(s, published + 1) /\ Ascending(s, snapshot, published)
    BY <1>1, <1>3, <1>6, <2>1, <2>2 DEF InboxesAscend
  <2>5. Ascending(Append(s, published + 1), snapshot, published + 1)
    <3>1. /\ Len(Append(s, published + 1)) = Len(s) + 1 /\ Len(s) \in Nat
          /\ \A j \in 1..Len(s) : Append(s, published + 1)[j] = s[j] /\ s[j] \in Nat
          /\ Append(s, published + 1)[Len(s) + 1] = published + 1
      BY <1>1, <2>3, AppendProperties, ElementOfSeq
    <3>2. \A j \in 1..(Len(s) + 1) : j \in 1..Len(s) \/ j = Len(s) + 1
      BY <3>1
    <3> QED
      BY <1>1, <2>4, <3>1, <3>2 DEF Ascending
  <2> QED
    BY <1>1, <2>4, <2>5
<1> QED
  BY <1>1, <1>5, <1>6 DEF InboxesAscend

\* One socket changes, and not by closing or by another run of the effect.
LEMMA SocketLive ==
  ASSUME LiveInv, NEW i \in DOMAIN sockets,
         UNCHANGED <<published, effect, timers>>,
         NEW s \in [effect : Effects, state : {"connecting", "open"}, inbox : Seq(Nat)],
         sockets' = [sockets EXCEPT ![i] = s],
         sockets[i].state # "closing", s.effect = sockets[i].effect,
         snapshot' \in Nat, snapshot' <= published,
         snapshot' # snapshot => sockets[i].state = "open",
         s.state = "open" => Ascending(s.inbox, snapshot', published)
  PROVE  LiveInv'
<1> USE DEF LiveInv
<1>1. sockets \in Seq(SocketType) /\ DOMAIN sockets = 1..Len(sockets) /\ s \in SocketType
  BY SocketFacts DEF LiveTypes, SocketType
<1>2. /\ sockets' \in Seq(SocketType) /\ Len(sockets') = Len(sockets) /\ DOMAIN sockets' = DOMAIN sockets
      /\ sockets'[i] = s /\ \A j \in DOMAIN sockets : j # i => sockets'[j] = sockets[j]
  BY <1>1
<1>3. LiveTypes'
  BY <1>2 DEF LiveTypes
<1>4. OneConnection'
  BY <1>2 DEF OneConnection
<1>5. ASSUME NEW j \in DOMAIN sockets, sockets'[j].state = "open"
      PROVE  Ascending(sockets'[j].inbox, snapshot', published')
  <2>1. CASE j = i
    BY <1>2, <1>5, <2>1
  <2>2. CASE j # i
    <3>1. sockets'[j] = sockets[j] /\ sockets[j].state = "open"
      BY <1>2, <1>5, <2>2
    \* i and j would both be the last.
    <3>2. FALSE
      BY <2>2, <3>1 DEF OneConnection
    <3> QED
      BY <3>2
  <2> QED
    BY <2>1, <2>2
<1> QED
  BY <1>2, <1>3, <1>4, <1>5 DEF InboxesAscend

\* What the exporter greets with is not older than what is shown.
LEMMA OpenLive ==
  ASSUME LiveInv, NEW i \in DOMAIN sockets, OnOpen(i)
  PROVE  LiveInv' /\ snapshot' = snapshot
<1> USE DEF LiveInv
<1>1. /\ sockets[i] \in SocketType /\ sockets[i].effect \in Effects
      /\ published \in Nat /\ snapshot \in Nat /\ snapshot <= published
  BY SocketFacts
<1>2. PICK inbox \in Seq(Nat) : inbox = IF published = 0 THEN <<>> ELSE <<published>>
  <2>1. <<>> \in Seq(Nat) /\ <<published>> \in Seq(Nat)
    BY <1>1
  <2> QED
    BY <2>1
<1>3. PICK s : s = [effect |-> sockets[i].effect, state |-> "open", inbox |-> inbox]
  OBVIOUS
<1>4. /\ s \in [effect : Effects, state : {"connecting", "open"}, inbox : Seq(Nat)]
      /\ sockets' = [sockets EXCEPT ![i] = s]
  <2>1. sockets' = [sockets EXCEPT ![i] = s]
    BY <1>2, <1>3 DEF OnOpen
  <2> QED
    BY <1>1, <1>3, <2>1
<1>5. Ascending(s.inbox, snapshot, published)
  BY <1>1, <1>2, <1>3 DEF Ascending
<1>6. UNCHANGED <<published, effect, timers, snapshot>> /\ sockets[i].state = "connecting"
  BY DEF OnOpen, server
<1> QED
  BY <1>1, <1>2, <1>3, <1>4, <1>5, <1>6, SocketLive

\* The snapshot shown is the oldest under way, and not older than the one before.
LEMMA MessageLive ==
  ASSUME LiveInv, NEW i \in DOMAIN sockets, OnMessage(i)
  PROVE  LiveInv' /\ snapshot' >= snapshot
<1> USE DEF LiveInv
<1>1. PICK inbox : inbox = sockets[i].inbox
  OBVIOUS
<1>2. /\ sockets[i] \in SocketType
      /\ published \in Nat /\ snapshot \in Nat
  BY SocketFacts
<1>3. inbox \in Seq(Nat) /\ inbox # <<>> /\ Ascending(inbox, snapshot, published)
  BY <1>1, SocketFacts DEF OnMessage, InboxesAscend
<1>4. PICK s : s = [effect |-> sockets[i].effect, state |-> "open", inbox |-> Tail(inbox)]
  OBVIOUS
<1>5. /\ Len(inbox) \in Nat \ {0} /\ Tail(inbox) \in Seq(Nat) /\ Len(Tail(inbox)) = Len(inbox) - 1
      /\ Head(inbox) = inbox[1]
      /\ \A j \in 1..(Len(inbox) - 1) : Tail(inbox)[j] = inbox[j + 1]
      /\ \A j \in 1..Len(inbox) : inbox[j] \in Nat
  BY <1>3
<1>6. s \in [effect : Effects, state : {"connecting", "open"}, inbox : Seq(Nat)]
  BY <1>2, <1>4, <1>5, SocketFacts
<1>7. sockets' = [sockets EXCEPT ![i] = s]
  <2>1. sockets' = [sockets EXCEPT ![i] = [sockets[i] EXCEPT !.inbox = Tail(inbox)]]
    BY <1>1 DEF OnMessage
  <2>2. [sockets[i] EXCEPT !.inbox = Tail(inbox)] = s
    <3>1. sockets[i].state = "open"
      BY DEF OnMessage
    <3> QED
      BY <1>2, <1>4, <1>5, <3>1, SocketChanges
  <2> QED
    BY <2>1, <2>2
<1>8. snapshot' = inbox[1] /\ snapshot <= inbox[1] /\ inbox[1] <= published /\ inbox[1] \in Nat
  BY <1>1, <1>3, <1>5 DEF OnMessage, Ascending
<1>9. Ascending(Tail(inbox), inbox[1], published)
  BY <1>2, <1>3, <1>5, <1>8 DEF Ascending
<1>10. UNCHANGED <<published, effect, timers>> /\ sockets[i].state = "open"
  BY DEF OnMessage, server
<1>11. LiveInv'
  BY <1>4, <1>6, <1>7, <1>8, <1>9, <1>10, SocketLive
<1> QED
  BY <1>2, <1>8, <1>11

\* The socket of the run that is not stopped leaves a timer behind.
LEMMA CloseLive ==
  ASSUME LiveInv, NEW i \in DOMAIN sockets, OnClose(i)
  PROVE  LiveInv' /\ snapshot' = snapshot
<1> USE DEF LiveInv
<1> DEFINE n == Len(sockets)
<1>1. /\ sockets \in Seq(SocketType) /\ n \in Nat /\ DOMAIN sockets = 1..n /\ i \in 1..n
      /\ sockets[i] \in SocketType /\ \A j \in 1..n : sockets[j] \in SocketType
      /\ effect \in Effects /\ timers \in [Effects -> Nat]
      /\ \A e \in Effects : e \in Nat
  BY SocketFacts DEF LiveTypes
<1>2. UNCHANGED <<published, effect, snapshot>>
  BY DEF OnClose, server
<1>3. PICK s : s = sockets'
  OBVIOUS
<1>4. /\ s \in Seq(SocketType) /\ Len(s) = n - 1 /\ DOMAIN s = 1..(n - 1)
      /\ \A j \in 1..(n - 1) : s[j] = IF j < i THEN sockets[j] ELSE sockets[j + 1]
  <2>1. s = SeqExt!RemoveAt(sockets, i)
    BY <1>3 DEF OnClose
  <2>2. /\ s \in Seq(SocketType) /\ Len(s) = n - 1
        /\ \A j \in 1..(n - 1) : s[j] = IF j < i THEN sockets[j] ELSE sockets[j + 1]
    BY <1>1, <2>1, WithoutOne
  <2> QED
    BY <1>1, <2>2
<1> HIDE DEF n
<1>5. \A j \in 1..(n - 1) : \E k \in 1..n : s[j] = sockets[k] /\ (k = n => j = n - 1) /\ k # i
  <2> TAKE j \in 1..(n - 1)
  <2>1. CASE j < i
    BY <1>1, <1>4, <2>1
  <2>2. CASE ~(j < i)
    <3>1. j + 1 \in 1..n /\ j + 1 # i /\ (j + 1 = n => j = n - 1)
      BY <1>1, <2>2
    <3> QED
      BY <1>4, <2>2, <3>1
  <2> QED
    BY <2>1, <2>2
<1>10. \A j \in 1..(n - 1) :
         s[j].state = "open" => Ascending(s[j].inbox, snapshot, published)
  BY <1>1, <1>5 DEF InboxesAscend
<1>6. PICK e : e = sockets[i].effect
  OBVIOUS
<1>7. e \in Effects /\ e <= effect
  BY <1>1, <1>6 DEF SocketType, OneConnection
<1>8. CASE e < effect
  <2>1. timers' = timers
    BY <1>6, <1>8 DEF OnClose
  <2>2. LiveTypes'
    BY <1>2, <1>3, <1>4, <2>1 DEF LiveTypes, SocketType
  <2>3. OneConnection'
    <3>1. ASSUME NEW j \in 1..(n - 1)
          PROVE  /\ s[j].effect <= effect
                 /\ s[j].effect = effect => j = n - 1 /\ timers[effect] = 0
                 /\ s[j].state # "closing" => s[j].effect = effect
      BY <1>1, <1>5, <3>1 DEF OneConnection, n
    <3> QED
      BY <1>2, <1>3, <1>4, <2>1, <3>1 DEF OneConnection
  <2>4. InboxesAscend'
    BY <1>2, <1>3, <1>4, <1>10 DEF InboxesAscend
  <2> QED
    BY <1>2, <2>2, <2>3, <2>4
<1>9. CASE e = effect
  <2>1. timers' = [timers EXCEPT ![effect] = timers[effect] + 1] /\ timers[effect] = 0 /\ i = n
    <3>1. i = n /\ timers[effect] = 0
      BY <1>1, <1>6, <1>9 DEF OneConnection, n
    <3>2. ~(e < effect)
      BY <1>1, <1>7, <1>9
    <3> QED
      BY <1>6, <1>9, <3>1, <3>2 DEF OnClose
  <2>2. /\ timers' \in [Effects -> Nat] /\ timers'[effect] = 1
        /\ \A d \in Effects : d # effect => timers'[d] = timers[d]
    BY <1>1, <2>1
  <2>3. LiveTypes'
    BY <1>2, <1>3, <1>4, <2>2 DEF LiveTypes, SocketType
  \* The socket of the run was the last, and there is no other.
  <2>4. OneConnection'
    <3>1. ASSUME NEW j \in 1..(n - 1)
          PROVE  s[j].effect <= effect /\ s[j].effect # effect /\ s[j].state = "closing"
      <4>1. PICK k \in 1..n : s[j] = sockets[k] /\ k # n
        BY <1>5, <2>1
      <4> QED
        BY <1>1, <4>1 DEF OneConnection, n
    <3>2. \A d \in Effects : d > effect => timers'[d] = 0
      BY <1>1, <2>2 DEF OneConnection
    <3> QED
      BY <1>2, <1>3, <1>4, <2>2, <3>1, <3>2 DEF OneConnection
  <2>5. InboxesAscend'
    BY <1>2, <1>3, <1>4, <1>10 DEF InboxesAscend
  <2> QED
    BY <1>2, <2>3, <2>4, <2>5
<1> QED
  BY <1>1, <1>7, <1>8, <1>9

\* A new socket comes last, when the run that opens it has no other.
LEMMA ConnectLive ==
  ASSUME LiveInv, UNCHANGED <<published, snapshot>>,
         effect' \in Effects, effect <= effect', timers' \in [Effects -> Nat],
         timers'[effect'] = 0, \A e \in Effects : e > effect' => timers'[e] = 0,
         NEW s \in Seq(SocketType),
         \A i \in DOMAIN s : s[i].effect < effect' /\ s[i].state = "closing",
         sockets' = Append(s, NewSocket(effect'))
  PROVE  LiveInv'
<1> DEFINE new == NewSocket(effect')
<1>0. new \in SocketType
  <2>1. <<>> \in Seq(Nat)
    OBVIOUS
  <2> QED
    BY <2>1 DEF NewSocket, SocketType
<1>1. /\ new \in SocketType /\ new.effect = effect' /\ new.state = "connecting"
      /\ \A e \in Effects : e \in Nat
      /\ s \in Seq(SocketType) /\ \A i \in DOMAIN s : s[i] \in SocketType
  BY <1>0, ElementOfSeq DEF NewSocket, Effects
<1> HIDE DEF new
<1>2. /\ sockets' \in Seq(SocketType) /\ Len(sockets') = Len(s) + 1 /\ Len(s) \in Nat
      /\ sockets'[Len(s) + 1] = new /\ \A i \in 1..Len(s) : sockets'[i] = s[i]
      /\ DOMAIN sockets' = 1..(Len(s) + 1) /\ DOMAIN s = 1..Len(s)
  BY <1>1 DEF new
<1>3. \A i \in 1..(Len(s) + 1) : i \in 1..Len(s) \/ i = Len(s) + 1
  BY <1>2
<1>4. LiveTypes'
  BY <1>2 DEF LiveInv, LiveTypes, SocketType
<1>5. OneConnection'
  <2>1. ASSUME NEW i \in 1..(Len(s) + 1)
        PROVE  /\ sockets'[i].effect <= effect'
               /\ sockets'[i].effect = effect' => i = Len(s) + 1
               /\ sockets'[i].state # "closing" => sockets'[i].effect = effect'
    <3>1. CASE i = Len(s) + 1
      BY <1>1, <1>2, <3>1
    <3>2. CASE i \in 1..Len(s)
      <4>1. sockets'[i] = s[i] /\ s[i].effect < effect' /\ s[i].state = "closing"
        BY <1>2, <3>2
      <4>2. s[i].effect \in Nat /\ effect' \in Nat
        BY <1>1, <1>2, <3>2 DEF SocketType
      <4> QED
        BY <4>1, <4>2
    <3> QED
      BY <1>3, <3>1, <3>2
  <2> QED
    BY <1>2, <2>1 DEF OneConnection
<1>6. InboxesAscend'
  BY <1>1, <1>2, <1>3 DEF InboxesAscend
<1> QED
  BY <1>4, <1>5, <1>6 DEF LiveInv

\* A timer of a stopped run does nothing.  The one of the run that is not stopped is
\* its only one, and the run has no socket.
LEMMA TimeoutLive ==
  ASSUME LiveInv, NEW e \in Effects, Timeout(e)
  PROVE  LiveInv' /\ snapshot' = snapshot
<1> USE DEF LiveInv
<1>1. /\ effect \in Effects /\ timers \in [Effects -> Nat] /\ timers[e] > 0
      /\ timers' = [timers EXCEPT ![e] = timers[e] - 1]
      /\ UNCHANGED <<published, effect, snapshot>>
      /\ \A d \in Effects : d \in Nat /\ timers[d] \in Nat
  <2>1. /\ timers[e] > 0 /\ timers' = [timers EXCEPT ![e] = timers[e] - 1]
        /\ UNCHANGED <<published, effect, snapshot>>
    BY DEF Timeout, server
  <2>2. effect \in Effects /\ timers \in [Effects -> Nat] /\ \A d \in Effects : d \in Nat
    BY DEF LiveTypes, Effects
  <2> QED
    BY <2>1, <2>2
<1>2. /\ timers' \in [Effects -> Nat] /\ timers'[e] = timers[e] - 1
      /\ \A d \in Effects : d # e => timers'[d] = timers[d]
  BY <1>1
<1>3. e <= effect
  BY <1>1 DEF OneConnection
<1>4. CASE e < effect
  <2>1. sockets' = sockets /\ timers'[effect] = timers[effect]
    BY <1>1, <1>2, <1>4 DEF Timeout
  <2>2. LiveTypes'
    BY <1>1, <1>2, <2>1 DEF LiveTypes
  <2>3. \A d \in Effects : d > effect => timers'[d] = 0
    BY <1>1, <1>2, <1>4 DEF OneConnection
  <2> QED
    BY <1>1, <2>1, <2>2, <2>3 DEF OneConnection, InboxesAscend
<1>5. CASE e = effect
  <2>1. sockets' = Append(sockets, NewSocket(effect'))
    BY <1>1, <1>5 DEF Timeout
  <2>2. timers'[effect'] = 0 /\ timers[effect] = 1
    BY <1>1, <1>2, <1>5 DEF OneConnection
  <2>3. \A d \in Effects : d > effect' => timers'[d] = 0
    BY <1>1, <1>2, <1>5 DEF OneConnection
  <2>4. ASSUME NEW i \in DOMAIN sockets
        PROVE  sockets[i].effect < effect' /\ sockets[i].state = "closing"
    <3>1. sockets[i].effect \in Nat
      BY <1>1, SocketFacts
    <3> QED
      BY <1>1, <2>2, <3>1 DEF OneConnection
  <2>5. LiveInv'
    <3>1. UNCHANGED <<published, snapshot>> /\ effect' \in Effects /\ effect <= effect'
      BY <1>1
    <3>2. sockets \in Seq(SocketType)
      BY DEF LiveTypes
    <3> QED
      BY <1>2, <2>1, <2>2, <2>3, <2>4, <3>1, <3>2, ConnectLive
  <2> QED
    BY <1>1, <2>5
<1> QED
  BY <1>1, <1>3, <1>4, <1>5

\* The effect runs again: its last socket, if any, closes.
LEMMA RemountLive == ASSUME LiveInv, Remount PROVE LiveInv' /\ snapshot' = snapshot
<1> USE DEF LiveInv
<1>1. /\ effect' = effect + 1 /\ effect < MaxEffects /\ effect \in Effects
      /\ UNCHANGED <<published, timers, snapshot>> /\ timers \in [Effects -> Nat]
      /\ sockets \in Seq(SocketType) /\ Len(sockets) \in Nat /\ DOMAIN sockets = 1..Len(sockets)
      /\ \A i \in 1..Len(sockets) : sockets[i] \in SocketType
      /\ \A d \in Effects : d \in Nat
  <2>1. effect' = effect + 1 /\ effect < MaxEffects /\ UNCHANGED <<published, timers, snapshot>>
    BY DEF Remount, server
  <2>2. effect \in Effects /\ timers \in [Effects -> Nat] /\ sockets \in Seq(SocketType)
    BY DEF LiveTypes
  <2>3. \A d \in Effects : d \in Nat
    BY DEF Effects
  <2> QED
    BY <2>1, <2>2, <2>3, ElementOfSeq
<1>2. effect' \in Effects /\ effect' > effect
  BY <1>1, ClientBounds DEF Effects
<1>3. PICK s : s = [i \in DOMAIN sockets |->
                      IF i = Len(sockets) THEN [sockets[i] EXCEPT !.state = "closing"]
                      ELSE sockets[i]]
  OBVIOUS
<1>4. sockets' = Append(s, NewSocket(effect'))
  BY <1>3 DEF Remount
<1>5. ASSUME NEW i \in DOMAIN sockets
      PROVE  s[i] \in SocketType /\ s[i].effect < effect' /\ s[i].state = "closing"
  <2>1. /\ sockets[i] \in SocketType /\ sockets[i].effect \in Effects /\ sockets[i].effect <= effect
        /\ i # Len(sockets) => sockets[i].effect # effect /\ sockets[i].state = "closing"
    <3>1. /\ sockets[i] \in SocketType /\ sockets[i].effect \in Effects
      BY <1>1, SocketFacts
    <3> QED
      BY <1>1, <3>1 DEF OneConnection
  <2>2. sockets[i].effect < effect'
    <3>1. PICK e : e = sockets[i].effect
      OBVIOUS
    <3>2. e \in Nat /\ effect \in Nat /\ e <= effect
      BY <1>1, <2>1, <3>1
    <3>3. e < effect + 1
      BY ONLY <3>2
    <3> QED
      BY <1>1, <3>1, <3>3
  <2>3. CASE i = Len(sockets)
    <3>1. PICK r \in SocketType, inbox \in Seq(Nat) : r = sockets[i] /\ inbox = r.inbox
      BY <1>1, <2>1, SocketFacts
    <3>2. s[i] = [effect |-> r.effect, state |-> "closing", inbox |-> r.inbox]
      BY <1>1, <1>3, <2>3, <3>1, SocketChanges
    <3>3. s[i] \in SocketType
      BY <3>2, SocketChanges
    <3> QED
      BY <2>2, <3>1, <3>2, <3>3
  <2>4. CASE i # Len(sockets)
    BY <1>1, <1>3, <2>1, <2>2, <2>4
  <2> QED
    BY <2>3, <2>4
<1>6. s \in Seq(SocketType) /\ DOMAIN s = 1..Len(sockets)
  BY <1>1, <1>3, <1>5
<1>7. timers'[effect'] = 0 /\ \A d \in Effects : d > effect' => timers'[d] = 0
  BY <1>1, <1>2 DEF OneConnection
<1>8. timers' \in [Effects -> Nat] /\ effect <= effect'
  BY <1>1
<1>9. LiveInv'
  BY <1>1, <1>2, <1>4, <1>5, <1>6, <1>7, <1>8, ConnectLive
<1> QED
  BY <1>1, <1>9

\* Every step keeps the invariant and goes forward.
LEMMA NextLive == LiveInv /\ [ClientNext]_clientVars => LiveInv' /\ snapshot' >= snapshot
<1> SUFFICES ASSUME LiveInv, [ClientNext]_clientVars PROVE LiveInv' /\ snapshot' >= snapshot
  OBVIOUS
<1>1. snapshot \in Nat
  BY DEF LiveInv, LiveTypes
<1>2. CASE UNCHANGED <<published, live>>
  BY <1>1, <1>2, PageLive
<1>3. CASE ServerChanges \/ OpenPage \/ UNCHANGED clientVars
  <2>1. UNCHANGED <<published, live>>
    BY <1>3 DEF ServerChanges, OpenPage, clientVars, server, live
  <2> QED
    BY <1>2, <2>1
<1>4. CASE \E r \in Ranges : SelectRange(r) \/ Interval(r) \/ Response(r) \/ RequestFails(r)
  <2>1. UNCHANGED <<published, live>>
    BY <1>4 DEF SelectRange, Interval, Response, RequestFails, server
  <2> QED
    BY <1>2, <2>1
<1>5. CASE \E i \in DOMAIN sockets : OnOpen(i) \/ OnMessage(i) \/ OnClose(i)
  BY <1>1, <1>5, OpenLive, MessageLive, CloseLive
<1>6. CASE Publish \/ Remount \/ \E e \in Effects : Timeout(e)
  BY <1>1, <1>6, PublishLive, RemountLive, TimeoutLive
<1> QED
  BY <1>3, <1>4, <1>5, <1>6 DEF ClientNext

\* However sockets, timers and runs of the effect follow each other, the page never
\* goes back to an older snapshot: a run that was stopped feeds it no more, and one
\* that was not has one socket (useLiveSnapshot).
THEOREM SnapshotNeverGoesBack == ClientSpec => SnapshotsAdvance
<1>1. LiveInv /\ [ClientNext]_clientVars => [snapshot' >= snapshot]_clientVars
  BY NextLive
<1> QED
  BY InitLive, NextLive, <1>1, PTL DEF ClientSpec, SnapshotsAdvance

\* At no time do two sockets of the page send it snapshots.
OneFeed ==
  \A i, j \in DOMAIN sockets :
    sockets[i].state # "closing" /\ sockets[j].state # "closing" => i = j

\* Not more than one socket is connecting or open, however often the connection is
\* lost and the effect runs again while timers are pending: no snapshot is shown
\* twice and no server connection is left behind (connect and its clean-up).
THEOREM OneSocketFeedsThePage == ClientSpec => []OneFeed
<1>1. LiveInv => OneFeed
  BY DEF LiveInv, OneConnection, OneFeed
<1> QED
  BY InitLive, NextLive, <1>1, PTL DEF ClientSpec

=============================================================================
