-------------------------------- MODULE Enet --------------------------------
(***************************************************************************)
(* The Ethernet controllers of src/src/ethernet.c, their DMA channels and  *)
(* the host backends: SLiRP (enet_slirp.c) or PCAP (enet_pcap.c).  A tick  *)
(* thread fills a queue (queue.c) under a mutex; the I/O event of the      *)
(* emulation thread polls it.  Stopping the backend ends the thread and    *)
(* frees mutex and queue; it happens on a guest's reset, on a change of    *)
(* the configuration, and on the control socket's NETDOWN.                 *)
(*                                                                         *)
(* Abstractions: a critical section is one step (the host's mutex works);  *)
(* a packet is one or two DMA buffers long and padded to the minimum, so   *)
(* the branch for short packets is left out, and so are status and mask    *)
(* bits nothing here reads back; whether a filter takes a packet is a      *)
(* choice while the receiver is on.                                        *)
(***************************************************************************)
EXTENDS Integers, Sequences

CONSTANTS
  Machines,         \* [bTurbo : BOOLEAN, backend : {"slirp", "pcap"}, thin : BOOLEAN]
  MAX_QUEUE_SIZE,
  MaxArrivals,      \* bound: packets entered into the queue
  MaxSends,         \* bound: packets the guest transmits
  MaxFaults         \* bound: resets, disconnections, NETDOWN verbs, mode changes

ASSUME EnetAssumption ==
  /\ Machines \subseteq [bTurbo : BOOLEAN, backend : {"slirp", "pcap"}, thin : BOOLEAN]
  /\ MAX_QUEUE_SIZE \in Nat \ {0}
  /\ {MaxArrivals, MaxSends, MaxFaults} \subseteq Nat

VARIABLES
  machine,
  started, tick,             \* the flag; the place of the tick thread
  alive, queue,              \* do mutex and queue exist?  The queue
  connected, detached,       \* bEthernetConnected; was NETDOWN the last NET verb?
  emu,                       \* the emulation thread: in the handler, in a stop
  event,                     \* is EVENT_ETHERNET_IO pending?
  reset, loop, rxon, txon,   \* EN_RESET, loop-back selected, receiver and transmitter on
  busy,                      \* TXSTAT_NET_BUSY
  receiver_state, rx, tx,    \* enet_rx_buffer (packet, units left), enet_tx_buffer.size
  rxdma, txdma,              \* the channels: enabled and chained; EOP flags of the buffers
  undefined,                 \* was a freed mutex or queue used?
  torn,                      \* did a guest's reset hit a packet in the receive buffer?
  cut,                       \* did a reset of the machine hit the middle of a packet?
  last,                      \* the latest network packet the guest has received
  arrived, sent, faults

config   == <<machine, connected, detached>>
backend  == <<started, tick, alive, queue, arrived>>
chip     == <<reset, loop, rxon, txon>>
receiver == <<busy, receiver_state, rx, torn, cut, last>>
channels == <<rxdma, txdma>>
vars == <<config, backend, chip, receiver, channels, emu, event, tx, undefined, sent, faults>>

Slot == 0 .. MAX_QUEUE_SIZE - 1
NoPacket == [id |-> 0, left |-> 0]
Off == [on |-> FALSE, chain |-> FALSE]

(* queue.c: an array, the place of the oldest element, and their number.   *)
QueueCreate == [contents |-> [i \in Slot |-> NoPacket], front |-> 0, count |-> 0]

QueueEnter(q, p) ==
  IF q.count >= MAX_QUEUE_SIZE THEN q
  ELSE [q EXCEPT !.contents[(q.front + q.count) % MAX_QUEUE_SIZE] = p, !.count = @ + 1]

(* Mutant: the place wraps around one slot late. *)
QueueDeleteWrap(q) ==
  [q EXCEPT !.front = IF @ + 1 > MAX_QUEUE_SIZE - 1 THEN MAX_QUEUE_SIZE - 1 ELSE @ + 1,
            !.count = @ - 1]

QueueDelete(q) == [q EXCEPT !.front = (@ + 1) % MAX_QUEUE_SIZE, !.count = @ - 1]

(* Just after Ethernet_Reset(TRUE): in reset, nothing programmed.          *)
Init ==
  /\ machine \in Machines
  /\ started = FALSE /\ tick = "dead"
  /\ alive = FALSE /\ queue = QueueCreate
  /\ connected = TRUE /\ detached = FALSE
  /\ emu = "run" /\ event = FALSE
  /\ reset = TRUE /\ loop = TRUE /\ rxon = FALSE /\ txon = FALSE
  /\ busy = FALSE /\ receiver_state = "waiting" /\ rx = NoPacket /\ tx = 0
  /\ rxdma = Off /\ txdma = <<>>
  /\ undefined = FALSE /\ torn = FALSE /\ cut = FALSE /\ last = 0
  /\ arrived = 0 /\ sent = 0 /\ faults = 0

-----------------------------------------------------------------------------
(* Starting and stopping the backend.                                      *)

enet_start ==
  IF started THEN UNCHANGED backend
  ELSE /\ started' = TRUE /\ tick' = "check"
       /\ alive' = TRUE /\ queue' = QueueCreate
       /\ UNCHANGED arrived

(* enet_stop clears the flag; where a call goes on when the thread has     *)
(* ended is kept in emu.                                                   *)
enet_stop(then) ==
  /\ started' = FALSE /\ emu' = then
  /\ UNCHANGED <<tick, alive, queue, arrived>>

(* enet_reset, called with EN_RESET equal to r.                            *)
enet_reset(r) ==
  IF r
  THEN /\ busy' = FALSE /\ torn' = (torn \/ rx.left > 0)
       /\ UNCHANGED <<backend, event, receiver_state, rx, cut, last>>
  ELSE /\ IF connected THEN enet_start ELSE UNCHANGED backend
       /\ event' = TRUE
       /\ UNCHANGED receiver

(* Mutant: nobody waits for the thread's end. *)
StoppedEarly ==
  /\ emu \in {"stop", "restart"}
  /\ emu' = IF emu = "restart" THEN "reset" ELSE "run"
  /\ alive' = FALSE /\ queue' = QueueCreate
  /\ UNCHANGED <<config, started, tick, arrived, chip, receiver, channels, event,
                 tx, undefined, sent, faults>>

(* The tick thread has ended: mutex and queue are freed.                   *)
Stopped ==
  /\ emu \in {"stop", "restart"} /\ tick = "dead"
  /\ emu' = IF emu = "restart" THEN "reset" ELSE "run"
  /\ alive' = FALSE /\ queue' = QueueCreate
  /\ UNCHANGED <<config, started, tick, arrived, chip, receiver, channels, event,
                 tx, undefined, sent, faults>>

(* Ethernet_Reset ends with enet_reset. *)
ResetEnds ==
  /\ emu = "reset" /\ emu' = "run"
  /\ enet_reset(reset)
  /\ UNCHANGED <<config, chip, channels, tx, undefined, sent, faults>>

-----------------------------------------------------------------------------
(* The tick thread.  Using a mutex or a queue that was freed is undefined. *)

TouchQueue == undefined' = ~alive

tickUnchanged == <<config, started, alive, chip, receiver, channels, emu, event, tx, sent, faults>>

(* Mutant: the loop does not look at the flag. *)
TickLoopForever ==
  /\ tick = "check"
  /\ tick' = "tick"
  /\ UNCHANGED <<tickUnchanged, queue, arrived, undefined>>

TickLoop ==
  /\ tick = "check"
  /\ tick' = IF started THEN "tick" ELSE "dead"
  /\ UNCHANGED <<tickUnchanged, queue, arrived, undefined>>

TickGuard ==
  /\ tick = "tick"
  /\ tick' = IF started THEN "fill" ELSE "check"
  /\ UNCHANGED <<tickUnchanged, queue, arrived, undefined>>

(* SLiRP: slirp_select_fill and select; PCAP: pcap_next. *)
TickFill ==
  /\ tick = "fill" /\ TouchQueue
  /\ tick' = "poll"
  /\ UNCHANGED <<tickUnchanged, queue, arrived>>

Arrive ==
  /\ arrived < MaxArrivals /\ arrived' = arrived + 1
  /\ \E n \in 1 .. 2 : queue' = QueueEnter(queue, [id |-> arrived + 1, left |-> n])

(* SLiRP: slirp_select_poll, which may call slirp_output; PCAP: QueueEnter *)
(* of the packet taken.                                                    *)
TickPoll ==
  /\ tick = "poll" /\ TouchQueue
  /\ Arrive \/ UNCHANGED <<queue, arrived>>
  /\ tick' = IF machine.backend = "slirp" THEN "rip" ELSE "check"
  /\ UNCHANGED tickUnchanged

(* slirp_rip_tick, when 30 seconds are over: test the flag, then broadcast. *)
TickRip ==
  /\ tick = "rip"
  /\ tick' \in {"check"} \cup (IF started THEN {"broadcast"} ELSE {})
  /\ UNCHANGED <<tickUnchanged, queue, arrived, undefined>>

TickBroadcast ==
  /\ tick = "broadcast" /\ TouchQueue
  /\ Arrive \/ UNCHANGED <<queue, arrived>>
  /\ tick' = "check"
  /\ UNCHANGED tickUnchanged

Tick == TickLoop \/ TickGuard \/ TickFill \/ TickPoll \/ TickRip \/ TickBroadcast

-----------------------------------------------------------------------------
(* Ethernet_IO_Handler on the emulation thread.                            *)

Link ==
  IF loop THEN "loopback"
  ELSE IF ~connected THEN "disconnected"
  ELSE IF machine.thin THEN "thinwire" ELSE "twistedpair"

IoStop ==
  /\ emu = "run" /\ event /\ reset
  /\ event' = FALSE
  /\ IF connected THEN enet_stop("stop") ELSE UNCHANGED <<backend, emu>>
  /\ UNCHANGED <<config, chip, receiver, channels, tx, undefined, sent, faults>>

IoBegin == emu = "run" /\ event /\ ~reset /\ emu' = "transmit"

(* enet_receive: a packet that is for this machine fills the buffer.       *)
enet_receive(id, n) ==
  \/ rxon /\ rx' = [id |-> id, left |-> n] /\ busy' = TRUE
  \/ UNCHANGED <<rx, busy>>

(* What enet_io and new_enet_io do when there is nothing to receive. *)
RxIdle ==
  /\ IoBegin /\ rx.left = 0
  /\ receiver_state = "receiving" \/ Link \in {"loopback", "disconnected"}
  /\ UNCHANGED <<config, backend, chip, receiver, channels, event, tx, undefined, sent, faults>>

(* The poll of the queue: PCAP looks at its flag first, SLiRP does not.    *)
RxPoll ==
  /\ IoBegin /\ rx.left = 0 /\ receiver_state = "waiting"
  /\ Link \in {"thinwire", "twistedpair"}
  /\ IF machine.backend = "slirp" \/ started
     THEN /\ TouchQueue
          /\ IF alive /\ queue.count > 0
             THEN LET p == queue.contents[queue.front]
                  IN  queue' = QueueDelete(queue) /\ enet_receive(p.id, p.left)
             ELSE UNCHANGED <<queue, rx, busy>>
     ELSE UNCHANGED <<undefined, queue, rx, busy>>
  /\ UNCHANGED <<config, started, tick, alive, arrived, chip, receiver_state, torn, cut, last,
                 channels, event, tx, sent, faults>>

(* dma_enet_interrupt on the receive channel. *)
Chained == [on |-> rxdma.chain, chain |-> FALSE]

(* dma_enet_write_memory fills a buffer of the guest's. *)
RxWrite ==
  /\ IoBegin /\ rx.left > 0 /\ rxdma.on
  /\ rxdma' = Chained
  /\ rx' = IF rx.left = 1 THEN NoPacket ELSE [rx EXCEPT !.left = @ - 1]
  /\ receiver_state' = IF rx.left = 1 THEN "waiting" ELSE "receiving"
  /\ busy' = (busy /\ rx.left > 1)
  /\ last' = IF rx.left = 1 /\ rx.id > 0 THEN rx.id ELSE last
  /\ UNCHANGED <<config, backend, chip, torn, cut, txdma, event, tx, undefined, sent, faults>>

(* Mutant: after an overflow the receiver goes on receiving. *)
RxOverflowStays ==
  /\ IoBegin /\ rx.left > 0 /\ ~rxdma.on
  /\ rx' = NoPacket /\ receiver_state' = "receiving" /\ busy' = FALSE
  /\ rxon' = (rxon /\ ~machine.bTurbo)
  /\ UNCHANGED <<config, backend, reset, loop, txon, torn, cut, last, channels, event, tx,
                 undefined, sent, faults>>

(* The channel is disabled: the packet is lost. *)
RxOverflow ==
  /\ IoBegin /\ rx.left > 0 /\ ~rxdma.on
  /\ rx' = NoPacket /\ receiver_state' = "waiting" /\ busy' = FALSE
  /\ rxon' = (rxon /\ ~machine.bTurbo)
  /\ UNCHANGED <<config, backend, reset, loop, txon, torn, cut, last, channels, event, tx,
                 undefined, sent, faults>>

IoReceive == RxIdle \/ RxPoll \/ RxWrite \/ RxOverflow

IoEnd == emu = "transmit" /\ emu' = "run"

(* TXSTAT_READY is always set without turbo; with turbo, TXMODE_ENABLE.    *)
TxReady == (machine.bTurbo => txon) /\ ~busy

TxWait ==
  /\ IoEnd /\ ~TxReady
  /\ UNCHANGED <<config, backend, chip, receiver, channels, event, tx, undefined, sent, faults>>

(* enet_input: SLiRP may answer at once. *)
enet_input ==
  IF started
  THEN /\ TouchQueue
       /\ \/ UNCHANGED <<queue, arrived>>
          \/ machine.backend = "slirp" /\ Arrive
  ELSE UNCHANGED <<undefined, queue, arrived>>

enet_send(n) ==
  /\ IF Link = "loopback" THEN UNCHANGED <<undefined, queue, arrived>> ELSE enet_input
  /\ IF Link \in {"loopback", "thinwire"} THEN enet_receive(-sent, n)
                                          ELSE UNCHANGED <<rx, busy>>
  /\ UNCHANGED <<started, tick, alive>>

(* dma_enet_read_memory moves a buffer of the guest's, if the channel is   *)
(* enabled; then the packet is dropped, sent, or waits for its end.        *)
TxRead ==
  /\ IoEnd /\ TxReady
  /\ LET moved == txdma # <<>>
         size  == IF moved THEN tx + 1 ELSE tx
         whole == machine.bTurbo \/ (moved /\ Head(txdma))
     IN  /\ txdma' = IF moved THEN Tail(txdma) ELSE txdma
         /\ tx' = IF size = 0 \/ ~moved \/ Link = "disconnected" \/ whole THEN 0 ELSE size
         /\ IF moved /\ whole /\ Link # "disconnected"
            THEN enet_send(size)
            ELSE UNCHANGED <<backend, rx, busy, undefined>>
  /\ UNCHANGED <<config, chip, receiver_state, torn, cut, last, rxdma, event, sent, faults>>

IoTransmit == TxWait \/ TxRead

-----------------------------------------------------------------------------
(* The guest.  Programming the controller up is not bounded.               *)

EN_Reset_Write(r) ==
  /\ emu = "run"
  /\ r => faults < MaxFaults
  /\ faults' = IF r THEN faults + 1 ELSE faults
  /\ reset' = r /\ enet_reset(r)
  /\ UNCHANGED <<config, loop, rxon, txon, channels, emu, tx, undefined, sent>>

EN_TX_Mode_Write(l, on) ==
  /\ emu = "run"
  /\ (l \/ ~on) => faults < MaxFaults
  /\ faults' = IF l \/ ~on THEN faults + 1 ELSE faults
  /\ loop' = l /\ txon' = on
  /\ UNCHANGED <<config, backend, reset, rxon, receiver, channels, emu, event, tx, undefined, sent>>

EN_RX_Mode_Write ==
  /\ emu = "run" /\ rxon' = TRUE
  /\ UNCHANGED <<config, backend, reset, loop, txon, receiver, channels, emu, event, tx,
                 undefined, sent, faults>>

(* A write to the last byte of the address ends in Ethernet_Reset(FALSE). *)
EN_NodeID5_Write ==
  /\ emu = "run" /\ faults < MaxFaults /\ faults' = faults + 1
  /\ enet_stop("restart")
  /\ UNCHANGED <<config, chip, receiver, channels, event, tx, undefined, sent>>

(* DMA_CSR_Write on the two channels. *)
ProgramRx ==
  /\ emu = "run"
  /\ rxdma' \in {[on |-> TRUE, chain |-> c] : c \in BOOLEAN}
  /\ UNCHANGED <<config, backend, chip, receiver, txdma, emu, event, tx, undefined, sent, faults>>

ProgramTx ==
  /\ emu = "run" /\ sent < MaxSends /\ txdma = <<>>
  /\ txdma' \in {<<TRUE>>, <<FALSE, TRUE>>, <<FALSE>>}
  /\ sent' = sent + 1
  /\ UNCHANGED <<config, backend, chip, receiver, rxdma, emu, event, tx, undefined, faults>>

-----------------------------------------------------------------------------
(* The machine and the host.                                               *)

(* DMA_Reset and Ethernet_Reset(TRUE); receiver_state keeps its value.     *)
Ethernet_Reset ==
  /\ emu = "run" /\ faults < MaxFaults /\ faults' = faults + 1
  /\ reset' = TRUE /\ rx' = NoPacket /\ tx' = 0 /\ busy' = FALSE /\ torn' = FALSE
  /\ cut' = (cut \/ receiver_state = "receiving")
  /\ event' = FALSE
  /\ rxdma' = Off /\ txdma' = <<>>
  /\ enet_stop("restart")
  /\ UNCHANGED <<config, loop, rxon, txon, receiver_state, last, undefined, sent>>

(* The cable of the configuration, and Ethernet_Reset(FALSE). *)
ChangeCable ==
  /\ emu = "run"
  /\ connected => faults < MaxFaults
  /\ faults' = IF connected THEN faults + 1 ELSE faults
  /\ connected' = ~connected
  /\ enet_stop("restart")
  /\ UNCHANGED <<machine, detached, chip, receiver, channels, event, tx, undefined, sent>>

Ethernet_HostDetach ==
  /\ emu = "run" /\ faults < MaxFaults /\ faults' = faults + 1
  /\ detached' = TRUE
  /\ IF connected THEN enet_stop("stop") ELSE UNCHANGED <<backend, emu>>
  /\ UNCHANGED <<machine, connected, chip, receiver, channels, event, tx, undefined, sent>>

Ethernet_HostAttach ==
  /\ emu = "run" /\ detached /\ detached' = FALSE
  /\ IF connected THEN enet_start ELSE UNCHANGED backend
  /\ UNCHANGED <<machine, connected, chip, receiver, channels, emu, event, tx, undefined,
                 sent, faults>>

Io == IoStop \/ IoReceive \/ IoTransmit \/ Stopped \/ ResetEnds

Guest ==
  \/ \E r \in BOOLEAN : EN_Reset_Write(r)
  \/ \E l, on \in BOOLEAN : EN_TX_Mode_Write(l, on)
  \/ EN_RX_Mode_Write \/ EN_NodeID5_Write \/ ProgramRx \/ ProgramTx

Host == Ethernet_Reset \/ ChangeCable \/ Ethernet_HostDetach \/ Ethernet_HostAttach

Next == ~undefined /\ (Tick \/ Io \/ Guest \/ Host)

Spec == Init /\ [][Next]_vars

(* The tick thread runs, and due events are served.                        *)
FairSpec == Spec /\ WF_vars(~undefined /\ Tick) /\ WF_vars(~undefined /\ Io)

-----------------------------------------------------------------------------
(* Every variable has its type, and the queue its bound. *)
TypeOK ==
  /\ machine \in Machines /\ emu \in {"run", "transmit", "stop", "restart", "reset"}
  /\ tick \in {"dead", "check", "tick", "fill", "poll", "rip", "broadcast"}
  /\ {started, alive, connected, detached, event, reset, loop, rxon, txon, busy,
      undefined, torn, cut} \subseteq BOOLEAN
  /\ queue.front \in Slot /\ queue.count \in 0 .. MAX_QUEUE_SIZE
  /\ rx.left \in Nat /\ tx \in Nat /\ last \in 0 .. MaxArrivals

(* Neither thread uses a mutex or a queue that was freed, whatever stops   *)
(* the backend; but SLiRP's poll does, after NETDOWN.                      *)
NoUseAfterStop == undefined => machine.backend = "slirp" /\ detached

(* NETDOWN leaves the controller as it is: "The link is simply silent      *)
(* while the backend is down, the way an unplugged cable is."              *)
SilentWhenDown == ~undefined

(* A packet that waits for the guest's memory, or is half way there, is    *)
(* never replaced by another one, unless the guest reset the controller.   *)
NoOverwrite ==
  [][rx.left > 0 /\ rx'.left > 0 /\ rx'.id # rx.id => torn]_vars

(* The guest receives the network's packets in the order of their arrival, *)
(* none of them twice.                                                     *)
InOrder == [][last' >= last /\ (rx.left = 0 /\ rx'.id > 0 => rx'.id > last)]_vars

Up == started /\ event /\ ~reset /\ Link \in {"thinwire", "twistedpair"}

(* As long as the link is up, no packet stays in the queue or the buffer,  *)
(* whether the guest gives buffers for them or not.  Except that a reset   *)
(* of the machine in the middle of a packet leaves the receiver waiting    *)
(* for the rest of it, and the queue is not polled any more.               *)
QueueDrains == <>[](Up /\ ~cut) => <>[](queue.count = 0 /\ rx.left = 0)

(* Stopping the backend ends: the two threads do not wait on each other.   *)
StopEnds == emu \in {"stop", "restart"} ~> emu = "run"
=============================================================================
