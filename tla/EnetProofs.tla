----------------------------- MODULE EnetProofs -----------------------------
(***************************************************************************)
(* The Ethernet's backend and its receiver, for every size of the queue    *)
(* and any number of packets and faults: neither thread uses what the      *)
(* other one has freed (but for SLiRP's poll after NETDOWN), no packet     *)
(* replaces another one, and the network's packets reach the guest in      *)
(* their order.                                                            *)
(*                                                                         *)
(* Two inductive invariants that do not need each other: "Guarded" follows *)
(* flag, thread, mutex and link; "Ordered" numbers the packets from the    *)
(* one the guest has got last to the one that arrived last.                *)
(***************************************************************************)
EXTENDS Enet, TLAPS

Packets == [id : Int, left : Nat]
Queues == [contents : [Slot -> Packets], front : Slot, count : 0 .. MAX_QUEUE_SIZE]

(* The slot j places after slot a; the packet at place j, from the oldest. *)
Place(a, j) == (a + j) % MAX_QUEUE_SIZE
At(q, j) == q.contents[Place(q.front, j)]

(* The array is used as a ring. *)
LEMMA PlaceWraps ==
  \A a \in Slot, j \in 0 .. MAX_QUEUE_SIZE :
    Place(a, j) = IF a + j < MAX_QUEUE_SIZE THEN a + j ELSE a + j - MAX_QUEUE_SIZE
<1> SUFFICES ASSUME NEW a \in Slot, NEW j \in 0 .. MAX_QUEUE_SIZE
             PROVE  Place(a, j)
                      = IF a + j < MAX_QUEUE_SIZE THEN a + j ELSE a + j - MAX_QUEUE_SIZE
  OBVIOUS
<1>1. MAX_QUEUE_SIZE \in Nat \ {0}
  BY EnetAssumption
<1> QED
  BY <1>1, SMTT(30) DEF Slot, Place

LEMMA CreateOK == QueueCreate \in Queues /\ QueueCreate.count = 0
  BY EnetAssumption DEF QueueCreate, Queues, Packets, Slot, NoPacket

(* A packet is entered behind the others. *)
LEMMA EnterOK ==
  ASSUME NEW q \in Queues, NEW p \in Packets, q.count < MAX_QUEUE_SIZE
  PROVE  /\ QueueEnter(q, p) \in Queues
         /\ QueueEnter(q, p).count = q.count + 1
         /\ At(QueueEnter(q, p), q.count) = p
         /\ \A j \in 0 .. q.count - 1 : At(QueueEnter(q, p), j) = At(q, j)
<1> DEFINE w == Place(q.front, q.count)
           e == QueueEnter(q, p)
<1>1. /\ MAX_QUEUE_SIZE \in Nat \ {0} /\ q.front \in Slot
      /\ q.count \in 0 .. MAX_QUEUE_SIZE - 1 /\ q.contents \in [Slot -> Packets]
  BY EnetAssumption DEF Queues
<1>2. e = [q EXCEPT !.contents[w] = p, !.count = @ + 1]
  BY <1>1 DEF QueueEnter, Place
<1>3. /\ e = [contents |-> [q.contents EXCEPT ![w] = p], front |-> q.front,
              count |-> q.count + 1]
  BY <1>2 DEF Queues
<1> HIDE DEF e
<1>4. w = IF q.front + q.count < MAX_QUEUE_SIZE THEN q.front + q.count
          ELSE q.front + q.count - MAX_QUEUE_SIZE
  BY <1>1, PlaceWraps
<1>5. w \in Slot
  BY <1>1, <1>4 DEF Slot
<1> HIDE DEF w
<1>6. e \in Queues
  BY <1>1, <1>3, <1>5 DEF Queues
<1>7. At(e, q.count) = p
  BY <1>1, <1>3, <1>5 DEF At, w
<1>8. ASSUME NEW j \in 0 .. q.count - 1 PROVE At(e, j) = At(q, j)
  <2>1. Place(q.front, j) = IF q.front + j < MAX_QUEUE_SIZE THEN q.front + j
                            ELSE q.front + j - MAX_QUEUE_SIZE
    BY <1>1, PlaceWraps
  <2>2. Place(q.front, j) \in Slot \ {w}
    <3> DEFINE a == q.front
               n == q.count
               N == MAX_QUEUE_SIZE
               z == Place(q.front, j)
    <3>1. /\ N \in Nat /\ a \in 0 .. N - 1 /\ n \in 0 .. N - 1 /\ j \in 0 .. n - 1
          /\ z = IF a + j < N THEN a + j ELSE a + j - N
          /\ w = IF a + n < N THEN a + n ELSE a + n - N
      BY <1>1, <1>4, <2>1 DEF Slot
    <3> HIDE DEF a, n, N, z
    <3>2. z \in 0 .. N - 1 /\ z # w
      BY <3>1
    <3> QED
      BY <3>2 DEF Slot, N, z
  <2> QED
    BY <1>1, <1>3, <2>2 DEF At
<1> QED
  BY <1>3, <1>6, <1>7, <1>8 DEF e

(* The oldest packet is taken away. *)
LEMMA DeleteOK ==
  ASSUME NEW q \in Queues, q.count > 0
  PROVE  /\ QueueDelete(q) \in Queues
         /\ QueueDelete(q).count = q.count - 1
         /\ \A j \in 0 .. q.count - 2 : At(QueueDelete(q), j) = At(q, j + 1)
<1> DEFINE d == QueueDelete(q)
<1>1. /\ MAX_QUEUE_SIZE \in Nat \ {0} /\ q.front \in Slot
      /\ q.count \in 1 .. MAX_QUEUE_SIZE /\ q.contents \in [Slot -> Packets]
  BY EnetAssumption DEF Queues
<1>2. d = [q EXCEPT !.front = Place(@, 1), !.count = @ - 1]
  BY DEF QueueDelete, Place
<1>3. d = [contents |-> q.contents, front |-> Place(q.front, 1), count |-> q.count - 1]
  BY <1>2 DEF Queues
<1> HIDE DEF d
<1>4. Place(q.front, 1) = IF q.front + 1 < MAX_QUEUE_SIZE THEN q.front + 1 ELSE 0
  BY <1>1, PlaceWraps DEF Slot
<1>5. d \in Queues
  BY <1>1, <1>3, <1>4 DEF Queues, Slot
<1>6. ASSUME NEW j \in 0 .. q.count - 2 PROVE At(d, j) = At(q, j + 1)
  <2>1. Place(d.front, j) = IF d.front + j < MAX_QUEUE_SIZE THEN d.front + j
                            ELSE d.front + j - MAX_QUEUE_SIZE
    BY <1>1, <1>5, PlaceWraps DEF Queues
  <2>2. Place(q.front, j + 1) = IF q.front + (j + 1) < MAX_QUEUE_SIZE THEN q.front + (j + 1)
                                ELSE q.front + (j + 1) - MAX_QUEUE_SIZE
    BY <1>1, PlaceWraps
  <2>3. Place(d.front, j) = Place(q.front, j + 1)
    <3> DEFINE a == q.front
               b == d.front
               N == MAX_QUEUE_SIZE
    <3>1. /\ N \in Nat /\ a \in 0 .. N - 1 /\ j \in 0 .. N - 2
          /\ b = IF a + 1 < N THEN a + 1 ELSE 0
      BY <1>1, <1>3, <1>4 DEF Slot
    <3>2. /\ Place(b, j) = IF b + j < N THEN b + j ELSE b + j - N
          /\ Place(a, j + 1) = IF a + (j + 1) < N THEN a + (j + 1) ELSE a + (j + 1) - N
      BY <2>1, <2>2
    <3> HIDE DEF a, b, N
    <3>3. Place(b, j) = Place(a, j + 1)
      BY <3>1, <3>2
    <3> QED
      BY <3>3 DEF a, b
  <2> QED
    BY <1>3, <2>3 DEF At
<1> QED
  BY <1>3, <1>5, <1>6 DEF d
-----------------------------------------------------------------------------
(* The backend.                                                            *)

Stopping == {"stop", "restart"}

(* Mutex and queue exist while the tick thread does; a stop waits for its  *)
(* end, and no second one is started before; and a controller that is up   *)
(* with the cable connected has its backend, unless NETDOWN took it.       *)
Guarded ==
  /\ tick # "dead" => alive
  /\ started => tick # "dead"
  /\ emu \in Stopping => ~started
  /\ emu \notin Stopping /\ ~started => tick = "dead"
  /\ emu \notin {"restart", "reset"} /\ ~reset /\ connected /\ ~started => detached
  /\ NoUseAfterStop

(* The tick thread looks at the flag before it goes on. *)
LEMMA TickGuarded == Guarded /\ ~undefined /\ Tick => Guarded'
<1> SUFFICES ASSUME Guarded, ~undefined, Tick PROVE Guarded'
  OBVIOUS
<1> USE DEF Guarded, NoUseAfterStop, Stopping, config, chip, tickUnchanged
<1>1. CASE TickLoop
  BY <1>1 DEF TickLoop
<1>2. CASE TickGuard
  BY <1>2 DEF TickGuard
<1>3. CASE TickFill
  BY <1>3 DEF TickFill, TouchQueue
<1>4. CASE TickPoll
  BY <1>4 DEF TickPoll, TouchQueue
<1>5. CASE TickRip
  BY <1>5 DEF TickRip
<1>6. CASE TickBroadcast
  BY <1>6 DEF TickBroadcast, TouchQueue
<1> QED
  BY <1>1, <1>2, <1>3, <1>4, <1>5, <1>6 DEF Tick

(* So does the emulation thread, where it stops and where it polls. *)
LEMMA IoGuarded == Guarded /\ ~undefined /\ Io => Guarded'
<1> SUFFICES ASSUME Guarded, ~undefined, Io PROVE Guarded'
  OBVIOUS
<1> USE DEF Guarded, NoUseAfterStop, Stopping, config, chip, backend
<1>1. CASE IoStop
  BY <1>1 DEF IoStop, enet_stop
<1>2. CASE RxIdle \/ RxWrite \/ RxOverflow
  BY <1>2 DEF RxIdle, RxWrite, RxOverflow, IoBegin
<1>3. CASE RxPoll
  <2>1. connected
    BY <1>3 DEF RxPoll, Link
  <2> QED
    BY <1>3, <2>1 DEF RxPoll, IoBegin, TouchQueue
<1>4. CASE TxWait
  BY <1>4 DEF TxWait, IoEnd
<1>5. CASE TxRead
  <2>1. (\E n : enet_send(n)) \/ UNCHANGED <<backend, rx, busy, undefined>>
    <3> DEFINE size == IF txdma # <<>> THEN tx + 1 ELSE tx
    <3>1. enet_send(size) \/ UNCHANGED <<backend, rx, busy, undefined>>
      BY <1>5, Zenon DEF TxRead
    <3> QED
      BY <3>1, Zenon
  <2>2. /\ UNCHANGED undefined \/ (started /\ undefined' = ~alive)
        /\ UNCHANGED <<started, tick, alive>>
    <3>1. ASSUME NEW n, enet_send(n)
          PROVE  /\ UNCHANGED undefined \/ (started /\ undefined' = ~alive)
                 /\ UNCHANGED <<started, tick, alive>>
      BY <3>1 DEF enet_send, enet_input, TouchQueue
    <3>2. CASE UNCHANGED <<backend, rx, busy, undefined>>
      BY <3>2
    <3> QED
      BY <2>1, <3>1, <3>2, Zenon
  <2>3. emu = "transmit" /\ emu' = "run" /\ UNCHANGED <<machine, connected, detached, reset>>
    BY <1>5 DEF TxRead, IoEnd
  <2>4. ~undefined'
    BY <2>2
  <2> QED
    BY <2>2, <2>3, <2>4
<1>6. CASE Stopped
  BY <1>6 DEF Stopped
<1>7. CASE ResetEnds
  BY <1>7 DEF ResetEnds, enet_reset, enet_start
<1> QED
  BY <1>1, <1>2, <1>3, <1>4, <1>5, <1>6, <1>7 DEF Io, IoReceive, IoTransmit

(* The guest, the user and the control socket start and stop the backend. *)
LEMMA OutsideGuarded == Guarded /\ ~undefined /\ (Guest \/ Host) => Guarded'
<1> SUFFICES ASSUME Guarded, ~undefined, Guest \/ Host PROVE Guarded'
  OBVIOUS
<1> USE DEF Guarded, NoUseAfterStop, Stopping, config, chip, backend, enet_start, enet_stop
<1>1. ASSUME NEW r \in BOOLEAN, EN_Reset_Write(r) PROVE Guarded'
  BY <1>1 DEF EN_Reset_Write, enet_reset
<1>2. ASSUME NEW l \in BOOLEAN, NEW on \in BOOLEAN, EN_TX_Mode_Write(l, on) PROVE Guarded'
  BY <1>2 DEF EN_TX_Mode_Write
<1>3. CASE EN_RX_Mode_Write \/ EN_NodeID5_Write
  BY <1>3 DEF EN_RX_Mode_Write, EN_NodeID5_Write
<1>7. CASE ProgramRx \/ ProgramTx
  <2>1. UNCHANGED <<config, backend, chip, emu, undefined>>
    BY <1>7, Zenon DEF ProgramRx, ProgramTx
  <2> QED
    BY <2>1
<1>4. CASE Ethernet_Reset \/ ChangeCable
  BY <1>4 DEF Ethernet_Reset, ChangeCable
<1>5. CASE Ethernet_HostDetach
  BY <1>5 DEF Ethernet_HostDetach
<1>6. CASE Ethernet_HostAttach
  BY <1>6 DEF Ethernet_HostAttach
<1> QED
  BY <1>1, <1>2, <1>3, <1>4, <1>5, <1>6, <1>7 DEF Guest, Host

(* Neither thread uses a mutex or a queue that was freed, whatever stops   *)
(* the backend, but for SLiRP's poll after NETDOWN.                        *)
THEOREM BackendIsSafe == Spec => []NoUseAfterStop
<1>1. Init => Guarded
  BY DEF Init, Guarded, NoUseAfterStop, Stopping
<1>2. Guarded /\ [Next]_vars => Guarded'
  <2>1. Guarded /\ UNCHANGED vars => Guarded'
    BY DEF Guarded, NoUseAfterStop, vars, config, backend, chip
  <2> QED
    BY <2>1, TickGuarded, IoGuarded, OutsideGuarded DEF Next
<1>3. Guarded => NoUseAfterStop
  BY DEF Guarded
<1> QED
  BY <1>1, <1>2, <1>3, PTL DEF Spec

-----------------------------------------------------------------------------
(* The queue and the receiver.                                             *)

(* The packets in q are numbered upwards, above low and up to high.        *)
Numbered(q, low, high) ==
  /\ \A j \in 0 .. q.count - 1 :
       low < At(q, j).id /\ At(q, j).id <= high /\ At(q, j).left > 0
  /\ \A j, k \in 0 .. q.count - 1 : j < k => At(q, j).id < At(q, k).id

(* Every place holds a packet. *)
LEMMA AtOK == \A q \in Queues, j \in 0 .. MAX_QUEUE_SIZE : At(q, j).id \in Int
<1> SUFFICES ASSUME NEW q \in Queues, NEW j \in 0 .. MAX_QUEUE_SIZE PROVE At(q, j).id \in Int
  OBVIOUS
<1>1. q.front \in Slot /\ q.contents \in [Slot -> Packets] /\ MAX_QUEUE_SIZE \in Nat \ {0}
  BY EnetAssumption DEF Queues
<1>2. Place(q.front, j) = IF q.front + j < MAX_QUEUE_SIZE THEN q.front + j
                          ELSE q.front + j - MAX_QUEUE_SIZE
  BY <1>1, PlaceWraps
<1>3. Place(q.front, j) \in Slot
  BY <1>1, <1>2 DEF Slot
<1> QED
  BY <1>1, <1>3 DEF At, Packets

(* The bounds may be widened, and an empty queue has any. *)
LEMMA NumberedWiden ==
  ASSUME NEW q \in Queues, NEW low \in Int, NEW high \in Int, Numbered(q, low, high),
         NEW low2 \in Int, NEW high2 \in Int, low2 <= low, high <= high2
  PROVE  Numbered(q, low2, high2)
<1>1. ASSUME NEW j \in 0 .. q.count - 1
      PROVE  low2 < At(q, j).id /\ At(q, j).id <= high2 /\ At(q, j).left > 0
  <2>1. low < At(q, j).id /\ At(q, j).id <= high /\ At(q, j).left > 0
    BY DEF Numbered
  <2>2. At(q, j).id \in Int
    BY AtOK, EnetAssumption DEF Queues
  <2> QED
    BY <2>1, <2>2
<1> QED
  BY <1>1 DEF Numbered

LEMMA NumberedCreate == \A low, high : Numbered(QueueCreate, low, high)
<1>1. 0 .. QueueCreate.count - 1 = {}
  BY CreateOK
<1> QED
  BY <1>1, Zenon DEF Numbered

(* What arrives gets the next number; a full queue drops it. *)
LEMMA NumberedEnter ==
  ASSUME NEW q \in Queues, NEW low \in Int, NEW high \in Int, low <= high,
         Numbered(q, low, high), NEW p \in Packets, p.id = high + 1, p.left > 0
  PROVE  QueueEnter(q, p) \in Queues /\ Numbered(QueueEnter(q, p), low, high + 1)
<1>0. MAX_QUEUE_SIZE \in Nat \ {0} /\ q.count \in 0 .. MAX_QUEUE_SIZE
  BY EnetAssumption DEF Queues
<1>1. CASE q.count < MAX_QUEUE_SIZE
  <2> DEFINE e == QueueEnter(q, p)
  <2>1. /\ e \in Queues /\ e.count = q.count + 1 /\ At(e, q.count) = p
        /\ \A j \in 0 .. q.count - 1 : At(e, j) = At(q, j)
    BY <1>1, EnterOK
  <2> HIDE DEF e
  <2>2. ASSUME NEW j \in 0 .. q.count - 1
        PROVE  At(q, j).id \in Int /\ low < At(q, j).id /\ At(q, j).id <= high /\ At(q, j).left > 0
    BY <1>0, AtOK DEF Numbered
  <2>3. ASSUME NEW j \in 0 .. e.count - 1
        PROVE  low < At(e, j).id /\ At(e, j).id <= high + 1 /\ At(e, j).left > 0
    <3>1. CASE j = q.count
      BY <2>1, <3>1
    <3>2. CASE j \in 0 .. q.count - 1
      BY <2>1, <2>2, <3>2
    <3> QED
      BY <1>0, <2>1, <3>1, <3>2
  <2>4. ASSUME NEW j \in 0 .. e.count - 1, NEW k \in 0 .. e.count - 1, j < k
        PROVE  At(e, j).id < At(e, k).id
    <3>1. j \in 0 .. q.count - 1
      BY <1>0, <2>1, <2>4
    <3>2. CASE k = q.count
      BY <2>1, <2>2, <3>1, <3>2
    <3>3. CASE k \in 0 .. q.count - 1
      BY <2>1, <2>4, <3>1, <3>3 DEF Numbered
    <3> QED
      BY <1>0, <2>1, <3>2, <3>3
  <2> QED
    BY <2>1, <2>3, <2>4 DEF e, Numbered
<1>2. CASE q.count >= MAX_QUEUE_SIZE
  BY <1>2, NumberedWiden DEF QueueEnter
<1> QED
  BY <1>0, <1>1, <1>2

(* The packet taken has the lowest number. *)
LEMMA NumberedDelete ==
  ASSUME NEW q \in Queues, NEW low \in Int, NEW high \in Int, Numbered(q, low, high),
         q.count > 0
  PROVE  LET p == q.contents[q.front]
         IN  /\ p \in Packets /\ low < p.id /\ p.id <= high /\ p.left > 0
             /\ QueueDelete(q) \in Queues /\ Numbered(QueueDelete(q), p.id, high)
<1> DEFINE p == At(q, 0)
           d == QueueDelete(q)
<1>1. /\ q.count \in 1 .. MAX_QUEUE_SIZE /\ q.front \in Slot /\ q.contents \in [Slot -> Packets]
      /\ MAX_QUEUE_SIZE \in Nat \ {0}
  BY EnetAssumption DEF Queues
<1>2. p = q.contents[q.front]
  <2>1. Place(q.front, 0) = IF q.front + 0 < MAX_QUEUE_SIZE THEN q.front + 0
                            ELSE q.front + 0 - MAX_QUEUE_SIZE
    BY <1>1, PlaceWraps
  <2> QED
    BY <1>1, <2>1 DEF At, Slot
<1>3. p \in Packets
  BY <1>1, <1>2
<1>4. /\ d \in Queues /\ d.count = q.count - 1
      /\ \A j \in 0 .. q.count - 2 : At(d, j) = At(q, j + 1)
  BY <1>1, DeleteOK
<1> HIDE DEF d
<1>5. 0 \in 0 .. q.count - 1
  BY <1>1
<1>6. low < p.id /\ p.id <= high /\ p.left > 0
  BY <1>5 DEF Numbered
<1>7. \A j \in 0 .. d.count - 1 : j + 1 \in 0 .. q.count - 1 /\ At(d, j) = At(q, j + 1)
  BY <1>1, <1>4
<1> HIDE DEF p
<1>8. Numbered(d, p.id, high)
  <2>1. ASSUME NEW j \in 0 .. d.count - 1
        PROVE  p.id < At(d, j).id /\ At(d, j).id <= high /\ At(d, j).left > 0
    BY <1>1, <1>5, <1>7 DEF Numbered, p
  <2>2. ASSUME NEW j \in 0 .. d.count - 1, NEW k \in 0 .. d.count - 1, j < k
        PROVE  At(d, j).id < At(d, k).id
    BY <1>1, <1>4, <1>7, <2>2 DEF Numbered
  <2> QED
    BY <2>1, <2>2 DEF Numbered
<1> QED
  BY <1>2, <1>3, <1>4, <1>6, <1>8 DEF d, p

(* The latest network packet that left the queue for the receiver.         *)
Latest == IF rx.id > last THEN rx.id ELSE last

(* What the receiver holds is newer than what the guest has got, and older *)
(* than what the queue holds; packets looped back have no number.          *)
Ordered ==
  /\ queue \in Queues /\ rx \in Packets
  /\ arrived \in Nat /\ last \in Nat /\ tx \in Nat /\ sent \in Nat
  /\ Latest <= arrived
  /\ rx.left = 0 => rx.id = 0
  /\ rx.id > last \/ rx.id <= 0
  /\ Numbered(queue, Latest, arrived)

(* What a step does with the queue, if it takes nothing from it.           *)
Feeds ==
  \/ UNCHANGED <<queue, arrived>>
  \/ Arrive
  \/ queue' = QueueCreate /\ UNCHANGED arrived

(* What a step does with the packet in the receiver, if it has not polled. *)
Keeps == UNCHANGED <<rx, last>>
Loses == rx' = NoPacket /\ UNCHANGED last
Loops ==
  /\ UNCHANGED last
  /\ \E n \in Nat \ {0} : rx' = [id |-> -sent, left |-> n]
Moves ==
  /\ rx.left > 0
  /\ rx' = IF rx.left = 1 THEN NoPacket ELSE [rx EXCEPT !.left = @ - 1]
  /\ last' = IF rx.left = 1 /\ rx.id > 0 THEN rx.id ELSE last

(* The queue stays numbered, whatever is fed to it. *)
LEMMA FeedsOK ==
  ASSUME Ordered, Feeds
  PROVE  /\ queue' \in Queues /\ arrived' \in Nat /\ arrived' >= arrived
         /\ Numbered(queue', Latest, arrived')
<1>1. Latest \in Int /\ arrived \in Nat
  BY DEF Latest, Ordered, Packets
<1>2. CASE UNCHANGED <<queue, arrived>>
  BY <1>1, <1>2 DEF Ordered
<1>3. CASE Arrive
  <2>1. PICK n \in 1 .. 2 : queue' = QueueEnter(queue, [id |-> arrived + 1, left |-> n])
    BY <1>3 DEF Arrive
  <2>2. [id |-> arrived + 1, left |-> n] \in Packets
    BY <1>1 DEF Packets
  <2>3. arrived' = arrived + 1
    BY <1>3 DEF Arrive
  <2> QED
    BY <1>1, <2>1, <2>2, <2>3, NumberedEnter DEF Ordered
<1>4. CASE queue' = QueueCreate /\ UNCHANGED arrived
  BY <1>1, <1>4, NumberedCreate, CreateOK
<1> QED
  BY <1>2, <1>3, <1>4 DEF Feeds

(* A step of the tick thread may feed the queue. *)
LEMMA TickFeeds == Tick => Feeds /\ Keeps /\ UNCHANGED <<tx, sent, busy, torn>>
<1> USE DEF tickUnchanged, receiver, Feeds, Keeps
<1>1. TickLoop \/ TickGuard \/ TickFill => Feeds /\ Keeps /\ UNCHANGED <<tx, sent, busy, torn>>
  BY DEF TickLoop, TickGuard, TickFill
<1>2. TickPoll \/ TickRip \/ TickBroadcast => Feeds /\ Keeps /\ UNCHANGED <<tx, sent, busy, torn>>
  BY DEF TickPoll, TickRip, TickBroadcast
<1> QED
  BY <1>1, <1>2 DEF Tick

(* A transmission may feed it, with SLiRP's answer, or loop the packet     *)
(* back: but not while the network is busy.                                *)
LEMMA TxReadFeeds ==
  ASSUME Ordered, TxRead
  PROVE  /\ Feeds
         /\ Keeps \/ (Loops /\ ~busy /\ busy')
         /\ tx' \in Nat /\ UNCHANGED <<sent, torn>> /\ (Keeps => UNCHANGED busy \/ busy')
<1> DEFINE moved == txdma # <<>>
           size  == IF moved THEN tx + 1 ELSE tx
           whole == machine.bTurbo \/ (moved /\ Head(txdma))
<1>1. /\ tx' = IF size = 0 \/ ~moved \/ Link = "disconnected" \/ whole THEN 0 ELSE size
      /\ IF moved /\ whole /\ Link # "disconnected"
         THEN enet_send(size)
         ELSE UNCHANGED <<backend, rx, busy, undefined>>
      /\ UNCHANGED <<torn, last, sent>> /\ ~busy
  BY Zenon DEF TxRead, TxReady
<1>2. size \in Nat /\ (moved => size > 0)
  BY DEF Ordered
<1> HIDE DEF moved, size, whole
<1>3. tx' \in Nat
  BY <1>1, <1>2
<1>4. CASE UNCHANGED <<backend, rx, busy, undefined>>
  BY <1>1, <1>3, <1>4 DEF Feeds, Keeps, backend
<1>5. CASE moved /\ enet_send(size)
  <2>1. Feeds
    BY <1>5 DEF enet_send, enet_input, Feeds
  <2>2. (rx' = [id |-> -sent, left |-> size] /\ busy') \/ UNCHANGED <<rx, busy>>
    BY <1>5 DEF enet_send, enet_receive
  <2> QED
    BY <1>1, <1>2, <1>3, <1>5, <2>1, <2>2 DEF Keeps, Loops
<1> QED
  BY <1>1, <1>4, <1>5

(* The rest of the I/O event, but for the poll of the queue. *)
LEMMA IoFeeds ==
  ASSUME Ordered, RxIdle \/ RxWrite \/ RxOverflow \/ IoStop \/ TxWait \/ Stopped \/ ResetEnds
  PROVE  /\ Feeds /\ UNCHANGED <<tx, sent>>
         /\ \/ Keeps /\ UNCHANGED <<busy, torn>>
            \/ Keeps /\ torn' = (torn \/ rx.left > 0)
            \/ Loses
            \/ Moves /\ busy' = (busy /\ rx.left > 1) /\ UNCHANGED torn
<1> USE DEF receiver, backend, Feeds, Keeps
<1>1. CASE RxIdle \/ TxWait
  BY <1>1 DEF RxIdle, TxWait
<1>2. CASE IoStop
  BY <1>2 DEF IoStop, enet_stop
<1>3. CASE RxWrite
  BY <1>3, Zenon DEF RxWrite, Moves
<1>4. CASE RxOverflow
  BY <1>4 DEF RxOverflow, Loses
<1>5. CASE Stopped
  BY <1>5 DEF Stopped
<1>6. CASE ResetEnds
  <2>1. enet_reset(reset) /\ UNCHANGED <<tx, sent>>
    BY <1>6 DEF ResetEnds
  <2> QED
    BY <2>1 DEF enet_reset, enet_start
<1> QED
  BY <1>1, <1>2, <1>3, <1>4, <1>5, <1>6

(* The guest and the host only take packets away. *)
LEMMA OutsideFeeds ==
  ASSUME Ordered, Guest \/ Host
  PROVE  /\ Feeds /\ tx' \in Nat /\ sent' \in Nat
         /\ \/ Keeps /\ UNCHANGED <<busy, torn>>
            \/ Keeps /\ torn' = (torn \/ rx.left > 0)
            \/ Loses
<1> USE DEF receiver, backend, Feeds, Keeps
<1>0. tx \in Nat /\ sent \in Nat
  BY DEF Ordered
<1>1. ASSUME NEW r \in BOOLEAN, EN_Reset_Write(r)
      PROVE  /\ Feeds /\ Keeps /\ UNCHANGED <<tx, sent>>
             /\ UNCHANGED <<busy, torn>> \/ torn' = (torn \/ rx.left > 0)
  <2>1. enet_reset(r) /\ UNCHANGED <<tx, sent>>
    BY <1>1 DEF EN_Reset_Write
  <2> QED
    BY <2>1 DEF enet_reset, enet_start
<1>2. ASSUME NEW l \in BOOLEAN, NEW on \in BOOLEAN, EN_TX_Mode_Write(l, on)
      PROVE  UNCHANGED <<backend, receiver, tx, sent>>
  BY <1>2, Zenon DEF EN_TX_Mode_Write
<1>3. CASE EN_RX_Mode_Write \/ EN_NodeID5_Write
  BY <1>0, <1>3 DEF EN_RX_Mode_Write, EN_NodeID5_Write, enet_stop
<1>4. CASE ProgramRx
  <2>1. UNCHANGED <<backend, receiver, tx, sent>>
    BY <1>4, Zenon DEF ProgramRx
  <2> QED
    BY <1>0, <2>1
<1>5. CASE ProgramTx
  <2>1. UNCHANGED <<backend, receiver, tx>> /\ sent' = sent + 1
    BY <1>5, Zenon DEF ProgramTx
  <2> QED
    BY <1>0, <2>1
<1>6. CASE Ethernet_Reset
  BY <1>0, <1>6 DEF Ethernet_Reset, enet_stop, Loses
<1>7. CASE ChangeCable \/ Ethernet_HostDetach
  BY <1>0, <1>7 DEF ChangeCable, Ethernet_HostDetach, enet_stop
<1>8. CASE Ethernet_HostAttach
  BY <1>0, <1>8 DEF Ethernet_HostAttach, enet_start
<1> QED
  BY <1>0, <1>1, <1>2, <1>3, <1>4, <1>5, <1>6, <1>7, <1>8 DEF Guest, Host
-----------------------------------------------------------------------------
(* What InOrder and NoOverwrite say of one step. *)
InOrderStep == last' >= last /\ (rx.left = 0 /\ rx'.id > 0 => rx'.id > last)
NoOverwriteStep == rx.left > 0 /\ rx'.left > 0 /\ rx'.id # rx.id => torn

(* Whatever a step does with the receiver but poll, the order is kept. *)
LEMMA ChangeOrdered ==
  ASSUME Ordered, Feeds, tx' \in Nat, sent' \in Nat, Keeps \/ Loses \/ Loops \/ Moves
  PROVE  Ordered' /\ InOrderStep
<1>1. /\ queue' \in Queues /\ arrived' \in Nat /\ arrived' >= arrived
      /\ Numbered(queue', Latest, arrived')
  BY FeedsOK
<1>2. /\ rx = [id |-> rx.id, left |-> rx.left] /\ rx.id \in Int /\ rx.left \in Nat
      /\ last \in Nat /\ arrived \in Nat /\ sent \in Nat /\ Latest <= arrived
      /\ (rx.left = 0 => rx.id = 0) /\ (rx.id > last \/ rx.id <= 0)
  BY DEF Ordered, Packets
<1>3. /\ rx' \in Packets /\ last' \in Nat
      /\ (IF rx'.id > last' THEN rx'.id ELSE last') <= Latest
      /\ rx'.left = 0 => rx'.id = 0
      /\ rx'.id > last' \/ rx'.id <= 0
      /\ InOrderStep
  <2>1. CASE Keeps
    BY <1>2, <2>1 DEF Keeps, Latest, Packets, InOrderStep
  <2>2. CASE Loses
    BY <1>2, <2>2 DEF Loses, Latest, Packets, InOrderStep, NoPacket
  <2>3. CASE Loops
    <3>1. PICK n \in Nat \ {0} : rx' = [id |-> -sent, left |-> n]
      BY <2>3 DEF Loops
    <3> QED
      BY <1>2, <2>3, <3>1 DEF Loops, Latest, Packets, InOrderStep
  <2>4. CASE Moves
    <3>1. CASE rx.left = 1
      BY <1>2, <2>4, <3>1 DEF Moves, Latest, Packets, InOrderStep, NoPacket
    <3>2. CASE rx.left # 1
      <4>1. rx' = [id |-> rx.id, left |-> rx.left - 1] /\ last' = last
        BY <1>2, <2>4, <3>2 DEF Moves
      <4> QED
        BY <1>2, <2>4, <3>2, <4>1 DEF Moves, Latest, Packets, InOrderStep
    <3> QED
      BY <3>1, <3>2
  <2> QED
    BY <2>1, <2>2, <2>3, <2>4
<1>4. Latest \in Int /\ Latest' \in Int /\ Latest' <= Latest /\ Latest' <= arrived'
  BY <1>1, <1>2, <1>3 DEF Latest, Packets
<1>5. Numbered(queue', Latest', arrived')
  BY <1>1, <1>4, NumberedWiden
<1> QED
  BY <1>1, <1>3, <1>4, <1>5 DEF Ordered

(* The poll takes the oldest packet, when the receiver is empty. *)
LEMMA PollOrdered ==
  ASSUME Ordered, RxPoll
  PROVE  Ordered' /\ InOrderStep /\ ((Keeps /\ UNCHANGED <<busy, torn>>) \/ busy') /\ rx.left = 0
<1> DEFINE p == queue.contents[queue.front]
<1>1. UNCHANGED <<arrived, tx, sent, last, torn>> /\ rx.left = 0
  BY DEF RxPoll
<1>2. \/ UNCHANGED <<queue, rx, busy>>
      \/ queue.count > 0 /\ queue' = QueueDelete(queue) /\ enet_receive(p.id, p.left)
  BY Zenon DEF RxPoll
<1>3. CASE UNCHANGED <<queue, rx, busy>>
  BY <1>1, <1>3, ChangeOrdered DEF Feeds, Keeps, Ordered
<1>4. CASE queue.count > 0 /\ queue' = QueueDelete(queue) /\ enet_receive(p.id, p.left)
  <2>1. /\ last \in Nat /\ arrived \in Nat /\ rx.id = 0 /\ rx \in Packets /\ queue \in Queues
        /\ tx \in Nat /\ sent \in Nat
    BY <1>1 DEF Ordered
  <2>2. Latest = last /\ last <= arrived
    BY <2>1 DEF Latest, Ordered
  <2>3. /\ p \in Packets /\ last < p.id /\ p.id <= arrived /\ p.left > 0
        /\ QueueDelete(queue) \in Queues /\ Numbered(QueueDelete(queue), p.id, arrived)
    BY <1>4, <2>1, <2>2, NumberedDelete DEF Ordered
  <2> HIDE DEF p
  <2>4. p.id \in Int /\ p.left \in Nat
    BY <2>3 DEF Packets
  <2>5. CASE rx' = [id |-> p.id, left |-> p.left] /\ busy'
    <3>1. rx' \in Packets /\ rx'.id = p.id /\ rx'.left = p.left
      BY <2>4, <2>5 DEF Packets
    <3>2. Latest' = p.id
      BY <1>1, <2>1, <2>3, <2>4, <3>1 DEF Latest
    <3> QED
      BY <1>1, <1>4, <2>1, <2>3, <2>4, <2>5, <3>1, <3>2 DEF Ordered, InOrderStep
  <2>6. CASE UNCHANGED <<rx, busy>>
    <3>1. Latest' = last
      BY <1>1, <2>1, <2>6 DEF Latest
    <3>2. Numbered(queue', last, arrived)
      BY <1>4, <2>1, <2>3, <2>4, NumberedWiden
    <3> QED
      BY <1>1, <1>4, <2>1, <2>2, <2>3, <2>6, <3>1, <3>2 DEF Ordered, InOrderStep, Keeps
  <2> QED
    BY <1>4, <2>5, <2>6 DEF enet_receive
<1> QED
  BY <1>2, <1>3, <1>4

(* Every step keeps the order. *)
LEMMA NextOrdered == Ordered /\ [Next]_vars => Ordered' /\ InOrderStep
<1> SUFFICES ASSUME Ordered, [Next]_vars PROVE Ordered' /\ InOrderStep
  OBVIOUS
<1>0. tx \in Nat /\ sent \in Nat
  BY DEF Ordered
<1>1. CASE Tick
  BY <1>0, <1>1, TickFeeds, ChangeOrdered
<1>2. CASE RxPoll
  BY <1>2, PollOrdered
<1>3. CASE TxRead
  BY <1>0, <1>3, TxReadFeeds, ChangeOrdered
<1>4. CASE RxIdle \/ RxWrite \/ RxOverflow \/ IoStop \/ TxWait \/ Stopped \/ ResetEnds
  BY <1>0, <1>4, IoFeeds, ChangeOrdered
<1>5. CASE Guest \/ Host
  BY <1>5, OutsideFeeds, ChangeOrdered
<1>6. CASE UNCHANGED vars
  BY <1>0, <1>6, ChangeOrdered DEF vars, backend, receiver, Feeds, Keeps
<1> QED
  BY <1>1, <1>2, <1>3, <1>4, <1>5, <1>6 DEF Next, Io, IoReceive, IoTransmit

LEMMA InitOrdered == Init => Ordered
<1>1. Init => Numbered(queue, Latest, arrived)
  BY NumberedCreate DEF Init
<1> QED
  BY <1>1, CreateOK DEF Init, Ordered, Latest, Packets, NoPacket

(* The guest receives the network's packets in the order of their arrival, *)
(* and none of them twice, whatever is reset, disconnected or overflows.   *)
THEOREM PacketsInOrder == Spec => InOrder
<1>1. Ordered /\ [Next]_vars => Ordered' /\ [InOrderStep]_vars
  BY NextOrdered
<1> QED
  BY <1>1, InitOrdered, PTL DEF Spec, InOrder, InOrderStep

(* A packet that waits for the guest keeps the network busy, but for the   *)
(* guest's own reset.                                                      *)
Fresh == rx.left > 0 /\ ~torn => busy

LEMMA NextFresh == Ordered /\ Fresh /\ [Next]_vars => Fresh' /\ NoOverwriteStep
<1> SUFFICES ASSUME Ordered, Fresh, [Next]_vars PROVE Fresh' /\ NoOverwriteStep
  OBVIOUS
<1>0. rx = [id |-> rx.id, left |-> rx.left] /\ rx.left \in Nat
  BY DEF Ordered, Packets
<1> USE DEF Fresh, NoOverwriteStep
<1>1. ASSUME Keeps, UNCHANGED torn, UNCHANGED busy \/ busy' PROVE Fresh' /\ NoOverwriteStep
  BY <1>1 DEF Keeps
<1>2. ASSUME Keeps, torn' = (torn \/ rx.left > 0) PROVE Fresh' /\ NoOverwriteStep
  BY <1>2 DEF Keeps
<1>3. ASSUME Loses PROVE Fresh' /\ NoOverwriteStep
  BY <1>3 DEF Loses, NoPacket
<1>4. ASSUME Moves, busy' = (busy /\ rx.left > 1), UNCHANGED torn
      PROVE  Fresh' /\ NoOverwriteStep
  <2>1. CASE rx.left = 1
    BY <1>4, <2>1 DEF Moves, NoPacket
  <2>2. CASE rx.left # 1
    <3>1. rx' = [id |-> rx.id, left |-> rx.left - 1] /\ rx.left > 1
      BY <1>0, <1>4, <2>2 DEF Moves
    <3>2. busy => busy'
      BY <1>4, <3>1
    <3>3. rx'.id = rx.id /\ rx.left > 0
      BY <1>0, <3>1
    <3>4. ~torn' => ~torn
      BY <1>4, Zenon
    <3> QED
      BY <3>2, <3>3, <3>4
  <2> QED
    BY <2>1, <2>2
<1>5. ASSUME Loops, ~busy, busy', UNCHANGED torn PROVE Fresh' /\ NoOverwriteStep
  BY <1>5
<1> HIDE DEF Fresh, NoOverwriteStep
<1>6. CASE Tick
  BY <1>1, <1>6, TickFeeds
<1>7. CASE RxPoll
  <2>1. rx.left = 0 /\ ((Keeps /\ UNCHANGED <<busy, torn>>) \/ busy')
    BY <1>7, PollOrdered
  <2> QED
    BY <1>1, <2>1 DEF Fresh, NoOverwriteStep
<1>8. CASE TxRead
  BY <1>1, <1>5, <1>8, TxReadFeeds
<1>9. CASE RxIdle \/ RxWrite \/ RxOverflow \/ IoStop \/ TxWait \/ Stopped \/ ResetEnds
  BY <1>1, <1>2, <1>3, <1>4, <1>9, IoFeeds
<1>10. CASE Guest \/ Host
  BY <1>1, <1>2, <1>3, <1>10, OutsideFeeds
<1>11. CASE UNCHANGED vars
  BY <1>1, <1>11 DEF vars, receiver, Keeps
<1> QED
  BY <1>6, <1>7, <1>8, <1>9, <1>10, <1>11 DEF Next, Io, IoReceive, IoTransmit

(* A packet that waits for the guest's memory, or is half way there, is    *)
(* never replaced by another one, unless the guest reset the controller.   *)
THEOREM NoneOverwritten == Spec => NoOverwrite
<1>1. Ordered /\ Fresh /\ [Next]_vars => Ordered' /\ Fresh' /\ [NoOverwriteStep]_vars
  BY NextOrdered, NextFresh
<1>2. Init => Fresh
  BY DEF Init, Fresh, NoPacket
<1> QED
  BY <1>1, <1>2, InitOrdered, PTL DEF Spec, NoOverwrite, NoOverwriteStep
=============================================================================
