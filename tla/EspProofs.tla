----------------------------- MODULE EspProofs ------------------------------
(***************************************************************************)
(* The SCSI controller's interrupt line is right, a reset of the chip      *)
(* leaves nothing of what it interrupted, and no word of a transfer is     *)
(* lost, doubled or moved: for every burst, block, disk, command block,    *)
(* count and buffer.                                                       *)
(*                                                                         *)
(* An operation of the code is a function from one state of the machine to *)
(* the next, so each invariant is one of such a state, and each operation  *)
(* has a lemma of its own.                                                 *)
(*                                                                         *)
(* First the interrupt (Good): most operations only Keep what concerns it. *)
(* The invariant takes in besides the line that only a real command waits, *)
(* and only while one is in progress.                                      *)
(*                                                                         *)
(* Then the data (Sound).  The words in memory, in the burst buffer and in *)
(* the disk's are consecutive, and the disk stands where they end; that is *)
(* so after a read (ReadOrder) or a write (WriteOrder).  It takes what the *)
(* chip knows (Ctl): a transfer goes on only for a connected controller    *)
(* whose command is not over, so that no second one meets its words.  The  *)
(* loops of a transfer are recursive functions, followed round by round by *)
(* induction.                                                              *)
(***************************************************************************)
EXTENDS Esp, TLAPS, WellFoundedInduction, SequenceTheorems

Parts == {"chip", "line", "event", "phase", "disk", "dma", "log"}
Registers == {"state", "next", "waiting", "inprogress", "irq", "tc", "intstatus", "counter", "io"}
IoStates == {"transfering", "flushing", "done"}
Shaped(m) == DOMAIN m = Parts /\ DOMAIN m.chip = Registers

(* n is what m becomes without a change of the interrupt: no command comes *)
(* to wait, the one that waits may go, and the events are the chip's two.  *)
Keeps(m, n) ==
  /\ Shaped(n) /\ n.line = m.line /\ n.chip.irq = m.chip.irq
  /\ n.event \subseteq m.event \cup {"interrupt", "io"}
  /\ n.chip.io \in {m.chip.io} \cup IoStates
  /\ n.chip.next \in {m.chip.next, None} /\ n.chip.waiting \in {m.chip.waiting, FALSE}
  /\ n.chip.waiting => n.chip.next = m.chip.next /\ n.chip.inprogress = m.chip.inprogress

(* One step after another.                                                 *)
LEMMA KeepsTrans ==
  ASSUME NEW m, NEW n, NEW p, Keeps(m, n), Keeps(n, p)
  PROVE  Keeps(m, p)
BY DEF Keeps

(* A step that changes nothing.                                            *)
LEMMA KeepsSame ==
  ASSUME NEW m, Shaped(m)
  PROVE  Keeps(m, m)
BY DEF Keeps

(* Data moved, whichever and however far.                                  *)
LEMMA MovedKeeps ==
  ASSUME NEW m, Shaped(m), NEW r
  PROVE  Keeps(m, Moved(m, r))
BY DEF Keeps, Shaped, Moved, Parts, Registers

(* An event of the chip.                                                   *)
LEMMA SoonKeeps ==
  ASSUME NEW m, Shaped(m), NEW e \in {"interrupt", "io"}
  PROVE  Keeps(m, Soon(m, e))
BY DEF Keeps, Shaped, Soon, Parts, Registers

(* A check condition.                                                      *)
LEMMA CheckKeeps ==
  ASSUME NEW m, Shaped(m)
  PROVE  Keeps(m, CheckCondition(m))
BY DEF Keeps, Shaped, CheckCondition, Parts, Registers

(* The waiting command goes (esp_command_clear).                           *)
LEMMA ClearKeeps ==
  ASSUME NEW m, Shaped(m)
  PROVE  Keeps(m, esp_command_clear(m))
BY DEF Keeps, Shaped, esp_command_clear, Parts, Registers

(* esp_reset_soft.                                                         *)
LEMMA SoftKeeps ==
  ASSUME NEW m, Shaped(m)
  PROVE  Keeps(m, esp_reset_soft(m))
<1> DEFINE n == [m EXCEPT !.chip.tc = FALSE, !.chip.counter = 0,
                              !.chip.state = "disconnected", !.chip.io = "done",
                              !.event = @ \ {"io"}]
<1>1. Keeps(m, n)
  BY DEF Keeps, Shaped, Parts, Registers, IoStates
<1>2. Keeps(n, esp_command_clear(n))
  BY <1>1, ClearKeeps DEF Keeps
<1> QED
  BY <1>1, <1>2, KeepsTrans, Zenon DEF esp_reset_soft

-----------------------------------------------------------------------------
(* The disk. *)

(* scsi_read_sector.                                                       *)
LEMMA ReadSectorKeeps ==
  ASSUME NEW m, Shaped(m)
  PROVE  Keeps(m, scsi_read_sector(m))
<1>1. Keeps(m, [m EXCEPT !.phase = "status"])
  BY DEF Keeps, Shaped, Parts, Registers, IoStates
<1>2. Keeps(m, CheckCondition(m))
  BY CheckKeeps
<1>3. ASSUME NEW d PROVE Keeps(m, [m EXCEPT !.disk = d])
  BY DEF Keeps, Shaped, Parts, Registers, IoStates
<1> QED
  BY <1>1, <1>2, <1>3, Zenon DEF scsi_read_sector

(* scsi_write_sector.                                                      *)
LEMMA WriteSectorKeeps ==
  ASSUME NEW m, Shaped(m)
  PROVE  Keeps(m, scsi_write_sector(m))
<1>1. Keeps(m, CheckCondition(m))
  BY CheckKeeps
<1>2. ASSUME NEW a, NEW b, NEW c
      PROVE  Keeps(m, [m EXCEPT !.log.platter = a, !.disk = c, !.phase = b])
  BY DEF Keeps, Shaped, Parts, Registers, IoStates
<1> QED
  BY <1>1, <1>2 DEF scsi_write_sector

(* SCSIdisk_Send_Data.                                                     *)
LEMMA SendKeeps ==
  ASSUME NEW m, Shaped(m)
  PROVE  Keeps(m, SCSIdisk_Send_Data(m))
<1> DEFINE sent == [m EXCEPT !.disk.size = @ - 1]
<1>1. Keeps(m, sent) /\ Keeps(sent, [sent EXCEPT !.phase = "status"])
  BY DEF Keeps, Shaped, Parts, Registers, IoStates
<1>2. Keeps(sent, scsi_read_sector(sent))
  BY <1>1, ReadSectorKeeps DEF Keeps
<1> QED
  BY <1>1, <1>2, KeepsTrans, Zenon DEF SCSIdisk_Send_Data

(* SCSIdisk_Receive_Data.                                                  *)
LEMMA ReceiveKeeps ==
  ASSUME NEW m, Shaped(m), NEW word
  PROVE  Keeps(m, SCSIdisk_Receive_Data(m, word))
<1> DEFINE got == [m EXCEPT !.disk.data = Append(@, word), !.disk.size = @ + 1]
<1>1. Keeps(m, got)
  BY DEF Keeps, Shaped, Parts, Registers, IoStates
<1>2. Keeps(got, scsi_write_sector(got))
  BY <1>1, WriteSectorKeeps DEF Keeps
<1> QED
  BY <1>1, <1>2, KeepsTrans, Zenon DEF SCSIdisk_Receive_Data

(* SCSIdisk_Receive_Command, of a command block the guest sends.           *)
LEMMA CommandKeeps ==
  ASSUME NEW m, Shaped(m), NEW cdb \in Cdbs
  PROVE  Keeps(m, SCSIdisk_Receive_Command(m, cdb))
<1> DEFINE good == [m EXCEPT !.disk = Commanded(@, cdb),
                        !.log = [memory |-> <<>>, loaded |-> 0, platter |-> <<>>,
                                 base |-> IF cdb.op = "inquiry" THEN 0 ELSE Offset(cdb.lba), skipped |-> FALSE]]
           Opened(p) == IF cdb.count = 0 THEN "status" ELSE p
           read == [good EXCEPT !.phase = Opened("data in")]
<1>1. cdb.op \in {"read", "write", "inquiry", "test"}
  BY EspAssumption
<1>2. Keeps(m, good)
  BY DEF Keeps, Shaped, Parts, Registers, IoStates
<1>3. Keeps(m, scsi_read_sector(read))
  <2>1. Keeps(good, read)
    <3> HIDE DEF good
    <3> QED
      BY <1>2 DEF Keeps, Shaped, Parts, Registers, IoStates
  <2>2. Shaped(read)
    BY <2>1 DEF Keeps
  <2> HIDE DEF read
  <2>3. Keeps(read, scsi_read_sector(read))
    BY <2>2, ReadSectorKeeps
  <2> QED
    BY <1>2, <2>1, <2>3, KeepsTrans, Zenon
<1>4. /\ Keeps(good, [good EXCEPT !.disk.limit = BLOCK, !.phase = Opened("data out")])
      /\ Keeps(good, [good EXCEPT !.disk.size = cdb.count, !.disk.limit = cdb.count,
                                  !.disk.disk = FALSE, !.phase = Opened("data in")])
      /\ Keeps(good, [good EXCEPT !.phase = "status"])
      /\ Keeps(good, CheckCondition(good))
  <2> HIDE DEF good
  <2> QED
    BY <1>2, CheckKeeps DEF Keeps, Shaped, Parts, Registers, IoStates
<1>5. /\ Keeps(m, [good EXCEPT !.disk.limit = BLOCK, !.phase = Opened("data out")])
      /\ Keeps(m, [good EXCEPT !.disk.size = cdb.count, !.disk.limit = cdb.count,
                               !.disk.disk = FALSE, !.phase = Opened("data in")])
      /\ Keeps(m, [good EXCEPT !.phase = "status"])
      /\ Keeps(m, CheckCondition(good))
  BY <1>2, <1>4, KeepsTrans, Zenon
<1>6. CASE cdb.op = "read"
  BY <1>3, <1>6, Zenon DEF SCSIdisk_Receive_Command
<1>7. CASE cdb.op = "write"
  BY <1>5, <1>7, Zenon DEF SCSIdisk_Receive_Command
<1>8. CASE cdb.op = "inquiry"
  BY <1>5, <1>8, Zenon DEF SCSIdisk_Receive_Command
<1>9. CASE cdb.op = "test"
  BY <1>5, <1>9, Zenon DEF SCSIdisk_Receive_Command
<1> QED
  BY <1>1, <1>6, <1>7, <1>8, <1>9

-----------------------------------------------------------------------------
(* The DMA channel. *)

(* dma_interrupt.                                                          *)
LEMMA DmaInterruptKeeps ==
  ASSUME NEW m, Shaped(m)
  PROVE  Keeps(m, dma_interrupt(m))
<1>1. ASSUME NEW a
      PROVE  /\ Keeps(m, [m EXCEPT !.dma.complete = TRUE, !.dma.left = a, !.dma.supdate = FALSE])
             /\ Keeps(m, [m EXCEPT !.dma.complete = TRUE, !.dma.enable = FALSE])
  BY DEF Keeps, Shaped, Parts, Registers, IoStates
<1> QED
  BY <1>1, KeepsSame, Zenon DEF dma_interrupt

(* dma_esp_write_memory.                                                   *)
LEMMA WriteMemoryKeeps ==
  ASSUME NEW m, Shaped(m)
  PROVE  Keeps(m, dma_esp_write_memory(m))
<1>1. ASSUME NEW r PROVE Keeps(m, dma_interrupt(Moved(m, r)))
  <2>1. Keeps(m, Moved(m, r))
    BY MovedKeeps
  <2>2. Keeps(Moved(m, r), dma_interrupt(Moved(m, r)))
    BY <2>1, DmaInterruptKeeps DEF Keeps
  <2> QED
    BY <2>1, <2>2, KeepsTrans, Zenon
<1>2. Keeps(m, m)
  BY KeepsSame
<1> QED
  BY <1>1, <1>2, Zenon DEF dma_esp_write_memory, Rounds

(* dma_esp_read_memory.                                                    *)
LEMMA ReadMemoryKeeps ==
  ASSUME NEW m, Shaped(m)
  PROVE  Keeps(m, dma_esp_read_memory(m))
<1>1. ASSUME NEW r PROVE Keeps(m, dma_interrupt(Moved(m, r)))
  <2>1. Keeps(m, Moved(m, r))
    BY MovedKeeps
  <2>2. Keeps(Moved(m, r), dma_interrupt(Moved(m, r)))
    BY <2>1, DmaInterruptKeeps DEF Keeps
  <2> QED
    BY <2>1, <2>2, KeepsTrans, Zenon
<1>2. Keeps(m, m)
  BY KeepsSame
<1> QED
  BY <1>1, <1>2, Zenon DEF dma_esp_read_memory, Rounds

(* dma_esp_flush_buffer.                                                   *)
LEMMA FlushKeeps ==
  ASSUME NEW m, Shaped(m)
  PROVE  Keeps(m, dma_esp_flush_buffer(m))
<1>1. ASSUME NEW a, NEW b, NEW c, NEW d
      PROVE  Keeps(m, dma_interrupt([m EXCEPT !.log.memory = a, !.dma.left = b, !.dma.buf = c,
                                              !.dma.filled = d]))
  <2> DEFINE n == [m EXCEPT !.log.memory = a, !.dma.left = b, !.dma.buf = c, !.dma.filled = d]
  <2>1. Keeps(m, n)
    BY DEF Keeps, Shaped, Parts, Registers, IoStates
  <2>2. Keeps(n, dma_interrupt(n))
    BY <2>1, DmaInterruptKeeps DEF Keeps
  <2> QED
    BY <2>1, <2>2, KeepsTrans, Zenon
<1>2. Keeps(m, m) /\ Keeps(m, dma_interrupt(m))
  BY KeepsSame, DmaInterruptKeeps
<1> QED
  BY <1>1, <1>2 DEF dma_esp_flush_buffer

-----------------------------------------------------------------------------
(* The commands of the chip that raise no interrupt at once. *)

(* esp_transfer_done.                                                      *)
LEMMA DoneKeeps ==
  ASSUME NEW m, Shaped(m), NEW p
  PROVE  Keeps(m, esp_transfer_done(m, p))
<1>1. ASSUME NEW n, Keeps(m, n) PROVE Keeps(m, Soon(n, "interrupt"))
  <2>1. Keeps(n, Soon(n, "interrupt"))
    BY <1>1, SoonKeeps DEF Keeps
  <2> QED
    BY <1>1, <2>1, KeepsTrans, Zenon
<1>2. Keeps(m, [m EXCEPT !.chip.intstatus = {"bs"}, !.chip.tc = TRUE])
  BY DEF Keeps, Shaped, Parts, Registers, IoStates
<1>3. Keeps(m, [esp_command_clear(m) EXCEPT !.chip.intstatus = {"bs"}])
  <2> DEFINE n == esp_command_clear(m)
  <2>1. Keeps(m, n)
    BY ClearKeeps
  <2> HIDE DEF n
  <2>2. Keeps(n, [n EXCEPT !.chip.intstatus = {"bs"}])
    BY <2>1 DEF Keeps, Shaped, Parts, Registers, IoStates
  <2>3. Keeps(m, [n EXCEPT !.chip.intstatus = {"bs"}])
    BY <2>1, <2>2, KeepsTrans, Zenon
  <2> QED
    BY <2>3 DEF n
<1>4. Keeps(m, m)
  BY KeepsSame
<1> QED
  BY <1>1, <1>2, <1>3, <1>4, Zenon DEF esp_transfer_done

(* esp_transfer_pad.                                                       *)
LEMMA PadKeeps ==
  ASSUME NEW m, Shaped(m)
  PROVE  Keeps(m, esp_transfer_pad(m))
<1> DEFINE noted == [m EXCEPT !.log.skipped = TRUE]
<1>1. Keeps(m, noted)
  BY DEF Keeps, Shaped, Parts, Registers, IoStates
<1> HIDE DEF noted
<1>2. ASSUME NEW r, NEW p PROVE Keeps(m, esp_transfer_done(Moved(noted, r), p))
  <2>1. Keeps(noted, Moved(noted, r))
    BY <1>1, MovedKeeps DEF Keeps
  <2>2. Keeps(Moved(noted, r), esp_transfer_done(Moved(noted, r), p))
    BY <2>1, DoneKeeps DEF Keeps
  <2> QED
    BY <1>1, <2>1, <2>2, KeepsTrans, Zenon
<1> QED
  BY <1>2, Zenon DEF esp_transfer_pad, Rounds, noted

(* esp_transfer_info.                                                      *)
LEMMA InfoKeeps ==
  ASSUME NEW m, Shaped(m)
  PROVE  Keeps(m, esp_transfer_info(m))
<1> DEFINE n == [m EXCEPT !.chip.io = "transfering"]
<1>1. Keeps(m, n)
  BY DEF Keeps, Shaped, Parts, Registers, IoStates
<1>2. Keeps(n, Soon(n, "io"))
  BY <1>1, SoonKeeps DEF Keeps
<1> QED
  BY <1>1, <1>2, KeepsTrans, Zenon DEF esp_transfer_info

(* esp_select.                                                             *)
LEMMA SelectKeeps ==
  ASSUME NEW m, Shaped(m), NEW cdb \in Cdbs
  PROVE  Keeps(m, esp_select(m, cdb))
<1> DEFINE a == SCSIdisk_Receive_Command(m, cdb)
           b == [a EXCEPT !.chip.intstatus = {"bs", "fc"}, !.chip.state = "initiator"]
           c == esp_command_clear(b)
<1>1. Keeps(m, a)
  BY CommandKeeps
<1> HIDE DEF a
<1>2. Keeps(a, b)
  BY <1>1 DEF Keeps, Shaped, Parts, Registers, IoStates
<1> HIDE DEF b
<1>3. Keeps(b, c)
  BY <1>2, ClearKeeps DEF Keeps
<1> HIDE DEF c
<1>4. Keeps(c, Soon(c, "interrupt"))
  BY <1>3, SoonKeeps DEF Keeps
<1>5. Keeps(m, Soon(c, "interrupt"))
  BY <1>1, <1>2, <1>3, <1>4, KeepsTrans, Zenon
<1> QED
  BY <1>5, Zenon DEF a, b, c, esp_select

(* Its time-out when no device answers.                                    *)
LEMMA AbsentKeeps ==
  ASSUME NEW m, Shaped(m)
  PROVE  Keeps(m, SelectTimeout(m))
<1> DEFINE b == [m EXCEPT !.chip.intstatus = {"dc"}, !.chip.state = "disconnected",
                          !.phase = "status"]
           c == esp_command_clear(b)
<1>1. Keeps(m, b)
  BY DEF Keeps, Shaped, Parts, Registers, IoStates
<1> HIDE DEF b
<1>2. Keeps(b, c)
  BY <1>1, ClearKeeps DEF Keeps
<1> HIDE DEF c
<1>3. Keeps(c, Soon(c, "interrupt"))
  BY <1>2, SoonKeeps DEF Keeps
<1>4. Keeps(m, Soon(c, "interrupt"))
  BY <1>1, <1>2, <1>3, KeepsTrans, Zenon
<1> QED
  BY <1>4, Zenon DEF b, c, SelectTimeout

(* esp_bus_reset, unless a waiting command would stay.                     *)
LEMMA BusResetKeeps ==
  ASSUME NEW m, Shaped(m), NEW quiet \in BOOLEAN,
         ~m.chip.waiting \/ m.chip.next.op # "reset", m.chip.waiting \in BOOLEAN
  PROVE  Keeps(m, esp_bus_reset(m, quiet))
<1> DEFINE soft == esp_reset_soft(m)
           n == [soft EXCEPT !.chip.intstatus = {"rst"}, !.phase = "data out"]
<1>1. Keeps(m, soft)
  BY SoftKeeps
<1> HIDE DEF soft
<1>2. ~soft.chip.waiting /\ soft.chip.waiting \in BOOLEAN
  BY <1>1 DEF soft, esp_reset_soft, esp_command_clear, Keeps, Shaped, Parts, Registers
<1>3. Keeps(soft, Idle(soft)) /\ Keeps(soft, n)
  BY <1>1, <1>2 DEF Keeps, Shaped, Parts, Registers, IoStates, Idle
<1>4. Keeps(n, Soon(n, "interrupt"))
  BY <1>3, SoonKeeps DEF Keeps
<1>5. Keeps(m, Idle(soft)) /\ Keeps(m, Soon(n, "interrupt"))
  BY <1>1, <1>4, <1>3, KeepsTrans, Zenon
<1> QED
  BY <1>5, Zenon DEF soft, esp_bus_reset

(* esp_initiator_command_complete and esp_message_accepted.                *)
LEMMA CompleteKeeps ==
  ASSUME NEW m, Shaped(m)
  PROVE  /\ Keeps(m, esp_initiator_command_complete(m))
         /\ Keeps(m, esp_message_accepted(m))
<1> DEFINE a == [m EXCEPT !.phase = "message in", !.chip.intstatus = {"fc"}]
           b == [m EXCEPT !.phase = "data out", !.chip.intstatus = {"dc"},
                          !.chip.state = "disconnected"]
<1>1. Keeps(m, a) /\ Keeps(m, b)
  BY DEF Keeps, Shaped, Parts, Registers, IoStates
<1>2. Keeps(a, Soon(a, "interrupt")) /\ Keeps(b, Soon(b, "interrupt"))
  BY <1>1, SoonKeeps DEF Keeps
<1> QED
  BY <1>1, <1>2, KeepsTrans, Zenon DEF esp_initiator_command_complete, esp_message_accepted

(* A turn of ESP_IO_Handler.                                               *)
LEMMA TransferKeeps ==
  ASSUME NEW m, Shaped(m)
  PROVE  Keeps(m, Transfer(m))
<1>1. ASSUME NEW n, Keeps(m, n), NEW p
      PROVE  /\ Keeps(m, esp_transfer_done(n, p))
             /\ Keeps(m, Soon(n, "io"))
             /\ \A v \in {n.chip.io} \cup IoStates : Keeps(m, [n EXCEPT !.chip.io = v])
  <2>1. Keeps(n, esp_transfer_done(n, p)) /\ Keeps(n, Soon(n, "io"))
    BY <1>1, DoneKeeps, SoonKeeps DEF Keeps
  <2>2. \A v \in {n.chip.io} \cup IoStates : Keeps(n, [n EXCEPT !.chip.io = v])
    BY <1>1 DEF Keeps, Shaped, Parts, Registers, IoStates
  <2> QED
    BY <1>1, <2>1, <2>2, KeepsTrans, Zenon
<1> DEFINE wrote == dma_esp_write_memory(m)
           read == dma_esp_read_memory(m)
<1>2. Keeps(m, wrote) /\ Keeps(m, read) /\ Keeps(m, m)
  BY WriteMemoryKeeps, ReadMemoryKeeps, KeepsSame
<1>3. CASE m.phase = "data in"
  <2> DEFINE done == esp_transfer_done(wrote, "data in")
             last == [done EXCEPT !.chip.io = IF Ended(wrote, "data in") THEN "flushing" ELSE @]
  <2>1. Keeps(m, done)
    BY <1>1, <1>2, Zenon
  <2>2. Keeps(m, last)
    <3> HIDE DEF done
    <3> QED
      BY <1>1, <2>1 DEF IoStates
  <2>3. Keeps(m, Soon(last, "io"))
    <3> HIDE DEF last
    <3> QED
      BY <1>1, <2>2
  <2>4. Transfer(m) = Soon(last, "io")
    BY <1>3, Zenon DEF Transfer
  <2> QED
    BY <2>3, <2>4, Zenon
<1>4. CASE m.phase = "data out"
  <2> DEFINE done == esp_transfer_done(read, "data out")
  <2>1. Keeps(m, done)
    BY <1>1, <1>2, Zenon
  <2>2. Keeps(m, Soon(done, "io"))
    BY <1>1, <2>1, Zenon
  <2>3. Transfer(m) = IF Ended(read, "data out") THEN done ELSE Soon(done, "io")
    BY <1>4, Zenon DEF Transfer
  <2> QED
    BY <2>1, <2>2, <2>3, Zenon
<1>5. CASE m.phase \notin {"data in", "data out"}
  <2>1. Transfer(m) = esp_transfer_done(m, "data in")
    BY <1>5, Zenon DEF Transfer
  <2> QED
    BY <1>1, <1>2, <2>1, Zenon
<1> QED
  BY <1>3, <1>4, <1>5

-----------------------------------------------------------------------------
(* The invariant. *)

Good(m) ==
  /\ Shaped(m) /\ m.line \in [enable : BOOLEAN, scsi : BOOLEAN] /\ m.chip.irq \in BOOLEAN
  /\ m.line.scsi = (m.chip.irq /\ m.line.enable)
  /\ m.event \subseteq {"interrupt", "io"}
  /\ m.chip.io \in IoStates
  /\ m.chip.waiting \in BOOLEAN /\ m.chip.next \in Command \cup {None}
  /\ m.chip.waiting => m.chip.inprogress /\ m.chip.next \in Command

(* What keeps the interrupt keeps the invariant.                           *)
LEMMA KeepsGood ==
  ASSUME NEW m, NEW n, Good(m), Keeps(m, n)
  PROVE  Good(n)
BY DEF Good, Keeps

(* Nothing of a command is left. *)
Clean(m) ==
  /\ m.event = {} /\ ~m.line.scsi
  /\ ~m.chip.irq /\ ~m.chip.inprogress /\ ~m.chip.waiting /\ m.chip.io = "done"

(* esp_reset_hard, whatever was going on.                                  *)
LEMMA HardOK ==
  ASSUME NEW m, Good(m)
  PROVE  Good(esp_reset_hard(m)) /\ Clean(esp_reset_hard(m))
<1> DEFINE a == set_interrupt([m EXCEPT !.chip.irq = FALSE, !.chip.intstatus = {}], FALSE)
           b == [a EXCEPT !.chip.tc = FALSE, !.chip.counter = 0,
                              !.chip.state = "disconnected", !.chip.io = "done",
                              !.event = @ \ {"io"}]
           c == esp_command_clear(b)
           soft == Idle(c)
           h == [soft EXCEPT !.event = @ \ {"interrupt"}, !.chip.waiting = FALSE,
                             !.chip.next = IF soft.chip.waiting THEN None ELSE @]
<1>1. /\ Shaped(a) /\ a.line \in [enable : BOOLEAN, scsi : {FALSE}] /\ a.chip.irq = FALSE
      /\ a.event \subseteq {"interrupt", "io"} /\ a.chip.next \in Command \cup {None}
  BY DEF Good, Shaped, Parts, Registers, set_interrupt
<1> HIDE DEF a
<1>2. /\ Shaped(b) /\ b.line = a.line /\ b.chip.irq = FALSE
      /\ b.event \subseteq {"interrupt"} /\ b.chip.next \in Command \cup {None}
      /\ b.chip.io = "done"
  BY <1>1 DEF Shaped, Parts, Registers
<1> HIDE DEF b
<1>3. /\ Shaped(c) /\ c.line = a.line /\ c.chip.irq = FALSE
      /\ c.event \subseteq {"interrupt"} /\ c.chip.next \in Command \cup {None}
      /\ c.chip.io = "done"
  BY <1>2 DEF Shaped, Parts, Registers, esp_command_clear
<1> HIDE DEF c
<1>4. /\ Shaped(soft) /\ soft.line = a.line /\ soft.chip.irq = FALSE
      /\ soft.event \subseteq {"interrupt"} /\ soft.chip.next \in Command \cup {None}
      /\ soft.chip.io = "done" /\ soft.chip.inprogress = FALSE
  BY <1>3 DEF Shaped, Parts, Registers, Idle
<1> HIDE DEF soft
<1>5. /\ Shaped(h) /\ h.line = a.line /\ h.chip.irq = FALSE
      /\ h.event = {} /\ h.chip.next \in Command \cup {None}
      /\ h.chip.io = "done" /\ h.chip.inprogress = FALSE /\ h.chip.waiting = FALSE
  BY <1>4 DEF Shaped, Parts, Registers
<1>6. esp_reset_hard(m) = h
  BY Zenon DEF esp_reset_hard, esp_reset_soft, a, b, c, soft
<1> HIDE DEF h
<1> QED
  BY <1>1, <1>5, <1>6 DEF Good, Clean, IoStates

(* A command that can start: one that waits is gone first, but for a reset, *)
(* which takes it away.                                                    *)
CanStart(m, c) ==
  \/ ~m.chip.waiting \/ c.op = "reset"
  \/ c.op \in {"busreset", "busreset_quiet"} /\ m.chip.next.op # "reset"

(* esp_start_command: each of its commands.                                *)
LEMMA StartOK ==
  ASSUME NEW m, Good(m), NEW c \in Command, CanStart(m, c)
  PROVE  Good(esp_start_command(m, c))
<1> DEFINE begun == [m EXCEPT !.chip.inprogress = TRUE]
           counted == IF c.op \in {"ti", "pad"}
                      THEN [begun EXCEPT !.chip.counter = c.count, !.chip.tc = FALSE] ELSE begun
           ill == [esp_command_clear(begun) EXCEPT !.chip.intstatus = @ \cup {"ill"}]
<1>1. /\ c.op \in SimpleOps \cup {"ti", "pad", "sel", "sel_absent"}
      /\ c.op = "sel" => c.cdb \in Cdbs
  BY DEF Command, SimpleOps
<1>2. Good(begun) /\ CanStart(begun, c)
  BY DEF Good, Shaped, Parts, Registers, CanStart
<1> HIDE DEF begun
<1>3. Shaped(begun)
  BY <1>2 DEF Good
<1>4. Keeps(begun, counted) /\ Shaped(counted)
  BY <1>3 DEF Keeps, Shaped, Parts, Registers, IoStates
<1> HIDE DEF counted
<1>5. Keeps(begun, Soon(ill, "interrupt"))
  <2> DEFINE n == esp_command_clear(begun)
  <2>1. Keeps(begun, n)
    BY <1>3, ClearKeeps
  <2> HIDE DEF n
  <2>2. Keeps(n, [n EXCEPT !.chip.intstatus = @ \cup {"ill"}])
    BY <2>1 DEF Keeps, Shaped, Parts, Registers, IoStates
  <2>3. ill = [n EXCEPT !.chip.intstatus = @ \cup {"ill"}]
    BY DEF n
  <2> HIDE DEF ill
  <2>4. Keeps(n, ill) /\ Shaped(ill)
    BY <2>2, <2>3 DEF Keeps
  <2>5. Keeps(ill, Soon(ill, "interrupt"))
    BY <2>4, SoonKeeps
  <2> QED
    BY <2>1, <2>4, <2>5, KeepsTrans, Zenon
<1>6. CASE Illegal(m, c)
  <2>1. c.op \notin {"reset", "busreset", "busreset_quiet", "nop", "flush"}
    BY <1>6 DEF Illegal
  <2>2. esp_start_command(m, c) = Soon(ill, "interrupt")
    BY <1>6, <2>1, Zenon DEF esp_start_command, begun, ill
  <2> QED
    BY <1>2, <1>5, <2>2, KeepsGood, Zenon
<1>7. CASE ~Illegal(m, c) /\ c.op = "reset"
  <2>1. esp_start_command(m, c) = esp_reset_hard(begun)
    BY <1>7 DEF esp_start_command, begun
  <2> QED
    BY <1>2, <2>1, HardOK, Zenon
<1>8. ASSUME NEW op, c.op = op, NEW quiet \in BOOLEAN,
             op = IF quiet THEN "busreset_quiet" ELSE "busreset",
             esp_start_command(m, c) = esp_bus_reset(begun, quiet)
      PROVE  Good(esp_start_command(m, c))
  <2>1. ~begun.chip.waiting \/ begun.chip.next.op # "reset"
    BY <1>2, <1>8 DEF CanStart
  <2>2. Keeps(begun, esp_bus_reset(begun, quiet))
    BY <1>2, <1>3, <2>1, BusResetKeeps DEF Good
  <2> QED
    BY <1>2, <1>8, <2>2, KeepsGood, Zenon
<1>9. CASE ~Illegal(m, c) /\ c.op = "busreset"
  <2>1. esp_start_command(m, c) = esp_bus_reset(begun, FALSE)
    BY <1>9 DEF esp_start_command, begun
  <2> QED
    BY <1>8, <1>9, <2>1
<1>10. CASE ~Illegal(m, c) /\ c.op = "busreset_quiet"
  <2>1. esp_start_command(m, c) = esp_bus_reset(begun, TRUE)
    BY <1>10 DEF esp_start_command, begun
  <2> QED
    BY <1>8, <1>10, <2>1
<1>11. CASE ~Illegal(m, c) /\ c.op \in {"nop", "flush"}
  <2>1. esp_start_command(m, c) = Idle(begun)
    BY <1>11 DEF esp_start_command, begun
  <2>2. ~begun.chip.waiting
    BY <1>2, <1>11 DEF CanStart
  <2>3. Good(Idle(begun))
    BY <1>2, <2>2 DEF Good, Shaped, Parts, Registers, Idle
  <2> QED
    BY <2>1, <2>3, Zenon
<1>12. CASE ~Illegal(m, c) /\ c.op = "sel"
  <2>1. esp_start_command(m, c) = esp_select(begun, c.cdb)
    BY <1>12 DEF esp_start_command, begun
  <2>2. Keeps(begun, esp_select(begun, c.cdb))
    BY <1>1, <1>3, <1>12, SelectKeeps
  <2> QED
    BY <1>2, <2>1, <2>2, KeepsGood, Zenon
<1>13. CASE ~Illegal(m, c) /\ c.op = "sel_absent"
  <2>1. esp_start_command(m, c) = SelectTimeout(begun)
    BY <1>13 DEF esp_start_command, begun
  <2> QED
    BY <1>2, <1>3, <2>1, AbsentKeeps, KeepsGood, Zenon
<1>14. CASE ~Illegal(m, c) /\ c.op \in {"ti", "pad"}
  <2>1. \/ esp_start_command(m, c) = esp_transfer_info(counted)
        \/ esp_start_command(m, c) = esp_transfer_pad(counted)
    <3>1. CASE c.op = "ti"
      BY <1>14, <3>1 DEF esp_start_command, counted, begun
    <3>2. CASE c.op = "pad"
      BY <1>14, <3>2 DEF esp_start_command, counted, begun
    <3> QED
      BY <1>14, <3>1, <3>2
  <2>2. Keeps(counted, esp_transfer_info(counted)) /\ Keeps(counted, esp_transfer_pad(counted))
    BY <1>4, InfoKeeps, PadKeeps
  <2> QED
    BY <1>2, <1>4, <2>1, <2>2, KeepsGood, Zenon
<1>15. CASE ~Illegal(m, c) /\ c.op \in {"iccs", "msgacc"}
  <2>1. \/ esp_start_command(m, c) = esp_initiator_command_complete(begun)
        \/ esp_start_command(m, c) = esp_message_accepted(begun)
    <3>1. CASE c.op = "iccs"
      BY <1>15, <3>1 DEF esp_start_command, begun
    <3>2. CASE c.op = "msgacc"
      BY <1>15, <3>2 DEF esp_start_command, begun
    <3> QED
      BY <1>15, <3>1, <3>2
  <2> QED
    BY <1>2, <1>3, <2>1, CompleteKeeps, KeepsGood, Zenon
<1> QED
  BY <1>1, <1>6, <1>7, <1>9, <1>10, <1>11, <1>12, <1>13, <1>14, <1>15 DEF SimpleOps

(* esp_finish_command: the waiting command starts.                         *)
LEMMA FinishOK ==
  ASSUME NEW m, Good(m)
  PROVE  Good(esp_finish_command(m))
<1> DEFINE n == [m EXCEPT !.chip.inprogress = FALSE, !.chip.waiting = FALSE, !.chip.next = None]
<1>1. CASE ~m.chip.waiting
  <2>1. Good(Idle(m))
    BY <1>1 DEF Good, Shaped, Parts, Registers, Idle
  <2> QED
    BY <1>1, <2>1, Zenon DEF esp_finish_command
<1>2. CASE m.chip.waiting
  <2>1. Good(n) /\ ~n.chip.waiting /\ m.chip.next \in Command
    BY <1>2 DEF Good, Shaped, Parts, Registers
  <2>2. Good(esp_start_command(n, m.chip.next))
    <3> HIDE DEF n
    <3> QED
      BY <2>1, StartOK DEF CanStart
  <2> QED
    BY <1>2, <2>2, Zenon DEF esp_finish_command
<1> QED
  BY <1>1, <1>2

(* A command is written: it starts, waits, or is lost behind a reset. *)
LEMMA WriteOK ==
  ASSUME NEW m, Good(m), NEW c \in Command
  PROVE  /\ Good(esp_command_write(m, c))
         /\ c.op = "reset" => Clean(esp_command_write(m, c))
<1> DEFINE next == IF m.chip.next.op = "reset" /\ c.op # "nop" THEN m.chip.next ELSE c
           written == [m EXCEPT !.chip.next = next]
           waits == [written EXCEPT !.chip.waiting = TRUE]
           gone == [written EXCEPT !.chip.next = None]
           begun == [written EXCEPT !.chip.inprogress = TRUE]
<1>1. next \in Command /\ (c.op = "reset" => next.op = "reset")
  <2>1. None.op # "reset"
    BY DEF None
  <2> QED
    BY <2>1 DEF Good
<1> HIDE DEF next
<1>2. Good(written) /\ Shaped(written) /\ written.chip.next = next
      /\ written.chip.inprogress = m.chip.inprogress
  BY <1>1 DEF Good, Shaped, Parts, Registers
<1> HIDE DEF written
<1>3. CASE next.op \in {"reset", "busreset", "busreset_quiet"}
  <2>1. esp_command_write(m, c) = esp_start_command(written, next)
    BY <1>3, Zenon DEF esp_command_write, next, written
  <2>2. CanStart(written, next)
    BY <1>2, <1>3 DEF CanStart
  <2>3. Good(esp_start_command(written, next))
    BY <1>1, <1>2, <2>2, StartOK
  <2>4. ASSUME next.op = "reset" PROVE Clean(esp_start_command(written, next))
    <3>1. Good(begun)
      BY <1>2 DEF Good, Shaped, Parts, Registers
    <3>2. ~Illegal(written, next)
      BY <2>4 DEF Illegal
    <3>3. esp_start_command(written, next) = esp_reset_hard(begun)
      BY <2>4, <3>2 DEF esp_start_command
    <3> QED
      BY <3>1, <3>3, HardOK, Zenon
  <2> QED
    BY <1>1, <2>1, <2>3, <2>4
<1>4. CASE next.op \notin {"reset", "busreset", "busreset_quiet"} /\ m.chip.inprogress
  <2>1. esp_command_write(m, c) = waits
    BY <1>2, <1>4, Zenon DEF esp_command_write, next, written
  <2>2. Good(waits)
    BY <1>1, <1>2, <1>4 DEF Good, Shaped, Parts, Registers
  <2> QED
    BY <1>1, <1>4, <2>1, <2>2
<1>5. CASE next.op \notin {"reset", "busreset", "busreset_quiet"} /\ ~m.chip.inprogress
  <2>1. esp_command_write(m, c) = esp_start_command(gone, next)
    BY <1>2, <1>5, Zenon DEF esp_command_write, next, written
  <2>2. Good(gone) /\ ~gone.chip.waiting
    BY <1>2, <1>5 DEF Good, Shaped, Parts, Registers
  <2>3. Good(esp_start_command(gone, next))
    <3> HIDE DEF gone
    <3> QED
      BY <1>1, <2>2, StartOK DEF CanStart
  <2> QED
    BY <1>1, <1>5, <2>1, <2>3
<1> QED
  BY <1>3, <1>4, <1>5

(* esp_raise_irq and esp_lower_irq.                                        *)
LEMMA IrqOK ==
  ASSUME NEW m, Good(m)
  PROVE  Good(esp_raise_irq(m)) /\ Good(esp_lower_irq(m))
<1> DEFINE raised == [m EXCEPT !.chip.irq = TRUE]
           lowered == set_interrupt([m EXCEPT !.chip.irq = FALSE], FALSE)
<1>1. Good(lowered)
  BY DEF Good, Shaped, Parts, Registers, set_interrupt
<1>2. Good(esp_lower_irq(m))
  BY <1>1, FinishOK, Zenon DEF esp_lower_irq
<1>3. CASE m.chip.irq
  <2>1. esp_raise_irq(m) = m
    BY <1>3, Zenon DEF esp_raise_irq
  <2> QED
    BY <1>2, <2>1, Zenon
<1>4. CASE ~m.chip.irq
  <2>1. m.line.enable => Good(set_interrupt(raised, TRUE))
    BY <1>4 DEF Good, Shaped, Parts, Registers, set_interrupt
  <2>2. ~m.line.enable => Good(raised)
    BY <1>4 DEF Good, Shaped, Parts, Registers
  <2>3. esp_raise_irq(m) = IF m.line.enable THEN set_interrupt(raised, TRUE) ELSE raised
    BY <1>4, Zenon DEF esp_raise_irq
  <2> QED
    BY <1>2, <2>1, <2>2, <2>3, Zenon
<1> QED
  BY <1>3, <1>4

-----------------------------------------------------------------------------
(* The machine is good, and stays so. *)

IInv == Good(Machine)

(* After ESP_Reset.                                                        *)
LEMMA InitOK == Init => IInv
<1> SUFFICES ASSUME Init PROVE IInv
  OBVIOUS
<1>1. /\ DOMAIN chip = Registers /\ chip.irq = FALSE /\ chip.waiting = FALSE /\ chip.next = None
      /\ line \in [enable : BOOLEAN, scsi : {FALSE}] /\ event = {}
  BY DEF Init, Registers
<1>2. chip.io \in IoStates
  BY DEF Init, IoStates
<1>3. /\ DOMAIN Machine = Parts /\ Machine.chip = chip /\ Machine.line = line
      /\ Machine.event = event
  BY DEF Machine, Parts
<1> HIDE DEF Machine
<1> QED
  BY <1>1, <1>2, <1>3 DEF IInv, Good, Shaped

(* A handler that makes a good machine.                                    *)
LEMMA BecomesOK ==
  ASSUME NEW n, Good(n), Becomes(n)
  PROVE  IInv'
<1>1. chip' = n.chip /\ line' = n.line /\ event' = n.event
  BY DEF Becomes
<1>2. /\ DOMAIN Machine' = Parts /\ Machine'.chip = chip' /\ Machine'.line = line'
      /\ Machine'.event = event'
  BY DEF Machine, Parts
<1> HIDE DEF Machine
<1>3. Good(Machine')
  BY <1>1, <1>2 DEF Good, Shaped
<1> QED
  BY <1>3 DEF IInv

(* Steps of the DMA channel alone. *)
LEMMA SameOK ==
  ASSUME IInv, UNCHANGED <<chip, line, event>>
  PROVE  IInv'
<1>1. /\ DOMAIN Machine' = Parts /\ Machine'.chip = chip' /\ Machine'.line = line'
      /\ Machine'.event = event'
  BY DEF Machine, Parts
<1>2. /\ Machine.chip = chip /\ Machine.line = line /\ Machine.event = event
  BY DEF Machine
<1> HIDE DEF Machine
<1>3. Good(Machine')
  BY <1>1, <1>2 DEF Good, Shaped, IInv
<1> QED
  BY <1>3 DEF IInv

(* The two events.                                                         *)
LEMMA EventsOK == IInv /\ Events => IInv'
<1> SUFFICES ASSUME IInv, Events PROVE IInv'
  OBVIOUS
<1>1. ASSUME NEW e PROVE Good(Happens(e))
  <2>1. Shaped(Machine) /\ Good(Machine)
    BY DEF IInv, Good
  <2> HIDE DEF Machine
  <2> QED
    BY <2>1 DEF Happens, Good, Shaped, Parts, Registers
<1>2. CASE ESP_Interrupt_Handler
  <2>1. Becomes(esp_raise_irq(Happens("interrupt")))
    BY <1>2, Zenon DEF ESP_Interrupt_Handler
  <2>2. Good(esp_raise_irq(Happens("interrupt")))
    BY <1>1, IrqOK
  <2> QED
    BY <2>1, <2>2, BecomesOK, Zenon
<1>3. CASE ESP_IO_Handler
  <2> DEFINE m == Happens("io")
             n == CASE chip.io = "transfering" -> Transfer(m)
                    [] chip.io = "flushing" -> dma_esp_write_memory(m)
                    [] chip.io = "done" -> m
  <2>1. Becomes(n)
    BY <1>3, Zenon DEF ESP_IO_Handler
  <2>2. chip.io \in {"transfering", "flushing", "done"}
    <3>1. Machine.chip = chip
      BY DEF Machine
    <3> HIDE DEF Machine
    <3> QED
      BY <3>1 DEF IInv, Good, IoStates
  <2>3. Good(m) /\ Shaped(m)
    BY <1>1 DEF Good
  <2> HIDE DEF m
  <2>4. Keeps(m, Transfer(m)) /\ Keeps(m, dma_esp_write_memory(m)) /\ Keeps(m, m)
    BY <2>3, TransferKeeps, WriteMemoryKeeps, KeepsSame
  <2>5. Good(n)
    <3>1. CASE chip.io = "transfering"
      BY <2>3, <2>4, <3>1, KeepsGood, Zenon
    <3>2. CASE chip.io = "flushing"
      BY <2>3, <2>4, <3>2, KeepsGood, Zenon
    <3>3. CASE chip.io = "done"
      BY <2>3, <3>3, Zenon
    <3> QED
      BY <2>2, <3>1, <3>2, <3>3
  <2> QED
    BY <2>1, <2>5, BecomesOK, Zenon
<1> QED
  BY <1>2, <1>3 DEF Events

(* The three resets of the chip; each leaves nothing of a command. *)
LEMMA ResetOK ==
  ASSUME IInv, ChipReset \/ CtrlReset \/ MachineReset
  PROVE  /\ IInv'
         /\ event' = {} /\ ~line'.scsi
         /\ ~chip'.irq /\ ~chip'.inprogress /\ ~chip'.waiting /\ chip'.io = "done"
<1>1. Good(Machine)
  BY DEF IInv
<1>2. ASSUME NEW n, Good(n), Clean(n), Becomes(n)
      PROVE  /\ IInv'
             /\ event' = {} /\ ~line'.scsi
             /\ ~chip'.irq /\ ~chip'.inprogress /\ ~chip'.waiting /\ chip'.io = "done"
  <2>1. chip' = n.chip /\ line' = n.line /\ event' = n.event
    BY <1>2, Zenon DEF Becomes
  <2>2. IInv'
    BY <1>2, BecomesOK
  <2> QED
    BY <1>2, <2>1, <2>2, Zenon DEF Clean
<1>3. CASE ChipReset
  <2> DEFINE c == [op |-> "reset", count |-> 0]
             n == esp_command_write(Machine, c)
  <2>1. Becomes(n)
    BY <1>3, Zenon DEF ChipReset, Reset
  <2>2. c \in Command /\ c.op = "reset"
    BY DEF Command, SimpleOps
  <2> HIDE DEF c
  <2>3. Good(n) /\ Clean(n)
    BY <1>1, <2>2, WriteOK
  <2> QED
    BY <1>2, <2>1, <2>3, Zenon
<1>4. CASE CtrlReset
  <2>1. Becomes(esp_reset_hard(Machine))
    BY <1>4, Zenon DEF CtrlReset
  <2>2. Good(esp_reset_hard(Machine)) /\ Clean(esp_reset_hard(Machine))
    BY <1>1, HardOK
  <2> QED
    BY <1>2, <2>1, <2>2, Zenon
<1>5. CASE MachineReset
  <2> DEFINE m == [Machine EXCEPT !.dma = Initialized(@)]
             h == esp_reset_hard(m)
             n == [h EXCEPT !.disk = SCSI_Reset(@)]
  <2>1. Becomes(n)
    BY <1>5, Zenon DEF MachineReset
  <2>2. Good(m)
    <3> HIDE DEF Machine
    <3> QED
      BY <1>1 DEF Good, Shaped, Parts, Registers
  <2>3. Good(h) /\ Clean(h)
    BY <2>2, HardOK
  <2> HIDE DEF h
  <2>4. Good(n) /\ Clean(n)
    BY <2>3 DEF Good, Clean, Shaped, Parts, Registers
  <2> QED
    BY <1>2, <2>1, <2>4, Zenon
<1> QED
  BY <1>3, <1>4, <1>5

(* The guest's driver.                                                     *)
LEMMA GuestOK == IInv /\ Guest => IInv'
<1> SUFFICES ASSUME IInv, Guest PROVE IInv'
  OBVIOUS
<1>1. Good(Machine) /\ Shaped(Machine)
  BY DEF IInv, Good
<1>2. /\ Machine.chip = chip /\ Machine.line = line /\ Machine.event = event
  BY DEF Machine
<1> HIDE DEF Machine
<1>3. CASE ESP_Command_Write
  <2>1. PICK c \in Command : Becomes(esp_command_write(Machine, c))
    BY <1>3, Zenon DEF ESP_Command_Write
  <2>2. Good(esp_command_write(Machine, c))
    BY <1>1, WriteOK
  <2> QED
    BY <2>1, <2>2, BecomesOK, Zenon
<1>4. CASE ChipReset \/ CtrlReset
  BY <1>4, ResetOK
<1>5. CASE BusReset
  <2>1. \A op \in {"busreset", "busreset_quiet"} : [op |-> op, count |-> 0] \in Command
    BY DEF Command, SimpleOps
  <2>2. PICK op \in {"busreset", "busreset_quiet"} :
          Becomes(esp_command_write(Machine, [op |-> op, count |-> 0]))
    BY <1>5, Zenon DEF BusReset, Reset
  <2>3. Good(esp_command_write(Machine, [op |-> op, count |-> 0]))
    BY <1>1, <2>1, WriteOK, Zenon
  <2> QED
    BY <2>2, <2>3, BecomesOK, Zenon
<1>6. CASE ESP_IntStatus_Read
  <2> DEFINE m == [Machine EXCEPT !.chip.intstatus = {}]
  <2>1. Becomes(esp_lower_irq(m))
    BY <1>6, Zenon DEF ESP_IntStatus_Read
  <2>2. Good(m)
    BY <1>1 DEF Good, Shaped, Parts, Registers
  <2> HIDE DEF m
  <2>3. Good(esp_lower_irq(m))
    BY <2>2, IrqOK
  <2> QED
    BY <2>1, <2>3, BecomesOK, Zenon
<1>7. CASE CtrlFlush
  <2>1. Becomes(dma_esp_flush_buffer(Machine))
    BY <1>7, Zenon DEF CtrlFlush
  <2>2. Good(dma_esp_flush_buffer(Machine))
    BY <1>1, FlushKeeps, KeepsGood, Zenon
  <2> QED
    BY <2>1, <2>2, BecomesOK, Zenon
<1>8. CASE CtrlEnable
  <2> DEFINE off == set_interrupt([Machine EXCEPT !.line.enable = FALSE], FALSE)
             on  == [Machine EXCEPT !.line = [enable |-> TRUE, scsi |-> chip.irq]]
  <2>1. Becomes(IF line.enable THEN off ELSE on)
    BY <1>8, Zenon DEF CtrlEnable
  <2>2. Good(off)
    BY <1>1 DEF Good, Shaped, Parts, Registers, set_interrupt
  <2>3. Good(on)
    BY <1>1, <1>2 DEF Good, Shaped, Parts, Registers
  <2>4. Good(IF line.enable THEN off ELSE on)
    BY <2>2, <2>3, Zenon
  <2> QED
    BY <2>1, <2>4, BecomesOK, Zenon
<1>9. CASE DmaInit \/ DmaStart \/ DmaChain \/ DmaEnd
  <2>1. UNCHANGED <<chip, line, event>>
    BY <1>9 DEF DmaInit, DmaStart, DmaChain, DmaEnd, DmaChannel
  <2> QED
    BY <2>1, SameOK
<1> QED
  BY <1>3, <1>4, <1>5, <1>6, <1>7, <1>8, <1>9 DEF Guest

(* Every step.                                                             *)
LEMMA NextOK == IInv /\ [Next]_vars => IInv'
<1> SUFFICES ASSUME IInv, [Next]_vars PROVE IInv'
  OBVIOUS
<1>1. CASE UNCHANGED vars
  BY <1>1, SameOK DEF vars
<1> QED
  BY <1>1, EventsOK, GuestOK, ResetOK DEF Next

(* The interrupt line of the system is up exactly while an interrupt of    *)
(* the chip is there and not blocked, whichever came first.                *)
THEOREM LineIsRight == Spec => []LineFollows
<1>1. IInv => LineFollows
  <2>1. Machine.chip = chip /\ Machine.line = line
    BY DEF Machine
  <2> HIDE DEF Machine
  <2> QED
    BY <2>1 DEF IInv, Good, LineFollows
<1> QED
  BY <1>1, InitOK, NextOK, PTL DEF Spec

(* After a reset of the chip no event, interrupt or waiting command of the *)
(* interrupted command is left (esp_reset_hard, esp_command_write).        *)
THEOREM ResetLeavesNothing == Spec => ResetIsClean
<1> DEFINE A == ChipReset \/ CtrlReset \/ MachineReset =>
                  /\ event' = {} /\ ~line'.scsi
                  /\ ~chip'.irq /\ ~chip'.inprogress /\ ~chip'.waiting /\ chip'.io = "done"
<1>1. IInv /\ [Next]_vars => [A]_vars
  BY ResetOK, Zenon
<1> HIDE DEF A
<1>2. Spec => [][A]_vars
  BY <1>1, InitOK, NextOK, PTL DEF Spec
<1> QED
  BY <1>2 DEF A, ResetIsClean

-----------------------------------------------------------------------------
(* Words counted from b. *)
From(s, b) == \A i \in 1 .. Len(s) : s[i] = b + i

(* The next word, put at the end.                                          *)
LEMMA FromAppend ==
  ASSUME NEW s \in Seq(Int), NEW b \in Int, From(s, b)
  PROVE  /\ Append(s, b + Len(s) + 1) \in Seq(Int)
         /\ From(Append(s, b + Len(s) + 1), b) /\ Len(Append(s, b + Len(s) + 1)) = Len(s) + 1
BY DEF From

(* The first word, taken away.                                             *)
LEMMA FromTail ==
  ASSUME NEW s \in Seq(Int), s # <<>>, NEW b \in Int
  PROVE  /\ Head(s) \in Int /\ Tail(s) \in Seq(Int) /\ Len(Tail(s)) = Len(s) - 1 /\ Len(s) > 0
         /\ From(s, b) => Head(s) = b + 1 /\ From(Tail(s), b + 1)
BY DEF From

(* Words that go on where others end.                                      *)
LEMMA FromConcat ==
  ASSUME NEW s \in Seq(Int), NEW t \in Seq(Int), NEW b \in Int
  PROVE  /\ s \o t \in Seq(Int) /\ Len(s \o t) = Len(s) + Len(t)
         /\ From(s, b) /\ From(t, b + Len(s)) => From(s \o t, b)
<1>1. /\ s \o t \in Seq(Int) /\ Len(s \o t) = Len(s) + Len(t)
      /\ \A i \in 1 .. Len(s) + Len(t) : (s \o t)[i] = IF i <= Len(s) THEN s[i] ELSE t[i - Len(s)]
  OBVIOUS
<1>2. Len(s) \in Nat /\ Len(t) \in Nat
  OBVIOUS
<1>3. ASSUME From(s, b), From(t, b + Len(s)), NEW i \in 1 .. Len(s \o t)
      PROVE  (s \o t)[i] = b + i
  <2>1. CASE i <= Len(s)
    BY <1>1, <1>2, <1>3, <2>1 DEF From
  <2>2. CASE ~(i <= Len(s))
    <3>1. i - Len(s) \in 1 .. Len(t) /\ (s \o t)[i] = t[i - Len(s)]
      BY <1>1, <1>2, <2>2
    <3>2. t[i - Len(s)] = (b + Len(s)) + (i - Len(s))
      BY <1>3, <3>1 DEF From
    <3> QED
      BY <1>2, <3>1, <3>2
  <2> QED
    BY <2>1, <2>2
<1> QED
  BY <1>1, <1>3 DEF From

(* The first words and the rest.                                           *)
LEMMA FromSub ==
  ASSUME NEW s \in Seq(Int), NEW n \in 0 .. Len(s), NEW b \in Int
  PROVE  /\ SubSeq(s, 1, n) \in Seq(Int) /\ Len(SubSeq(s, 1, n)) = n
         /\ SubSeq(s, n + 1, Len(s)) \in Seq(Int) /\ Len(SubSeq(s, n + 1, Len(s))) = Len(s) - n
         /\ From(s, b) => From(SubSeq(s, 1, n), b) /\ From(SubSeq(s, n + 1, Len(s)), b + n)
<1>1. Len(s) \in Nat
  OBVIOUS
<1>2. /\ SubSeq(s, 1, n) \in Seq(Int) /\ Len(SubSeq(s, 1, n)) = n
      /\ \A i \in 1 .. n : SubSeq(s, 1, n)[i] = s[i]
  BY <1>1
<1>3. /\ SubSeq(s, n + 1, Len(s)) \in Seq(Int) /\ Len(SubSeq(s, n + 1, Len(s))) = Len(s) - n
      /\ \A i \in 1 .. Len(s) - n : SubSeq(s, n + 1, Len(s))[i] = s[n + i]
  BY <1>1
<1> QED
  BY <1>1, <1>2, <1>3 DEF From

(* The next block begins where one ends.                                   *)
LEMMA OffsetNext ==
  ASSUME NEW a \in Nat
  PROVE  Offset(a) \in Nat /\ Offset(a + 1) = Offset(a) + BLOCK /\ BLOCK \in Nat /\ BLOCK > 0
BY EspAssumption DEF Offset

-----------------------------------------------------------------------------
(* Types of the parts that move data. *)

DiskFields == {"disk", "size", "limit", "from", "data", "lba", "blockcounter", "status",
               "stale", "media"}
MediaFields == {"readonly", "overlay", "table", "copies", "written", "blocks", "lost"}
DmaFields == {"enable", "supdate", "complete", "left", "after", "buf", "filled"}
LogFields == {"memory", "loaded", "platter", "base", "skipped"}

(* The image with its overlay: no block is written before there is a table, *)
(* only the first one of a command makes it, and it alone is not copied.   *)
MediaOK(d) ==
  /\ DOMAIN d = MediaFields /\ d.overlay \in BOOLEAN /\ d.table \in BOOLEAN
  /\ d.blocks \in Nat
  /\ d.table => d.overlay
  /\ ~d.table => d.written = {}
  /\ d.overlay /\ ~d.table => d.blocks = 0
  /\ \A a, b \in d.written \ d.copies : a = b
  /\ d.lost \subseteq IF d.overlay THEN {1} ELSE {}

(* An image to which nothing has been written.                             *)
LEMMA FreshMedia ==
  ASSUME NEW d, DOMAIN d = MediaFields, d.overlay \in BOOLEAN, d.table = FALSE,
         d.written = {}, d.blocks = 0, d.lost = {}
  PROVE  MediaOK(d)
<1>1. d.table \in BOOLEAN /\ ~d.table
  BY Zenon
<1>2. d.blocks \in Nat
  OBVIOUS
<1>3. \A a, b \in d.written \ d.copies : a = b
  BY Zenon
<1>4. d.lost \subseteq IF d.overlay THEN {1} ELSE {}
  OBVIOUS
<1> QED
  BY <1>1, <1>2, <1>3, <1>4, Zenon DEF MediaOK

DiskOK(d) ==
  /\ DOMAIN d = DiskFields /\ d.size \in Nat /\ d.limit \in Nat /\ d.from \in Nat
  /\ d.data \in Seq(Int) /\ d.lba \in Nat /\ d.blockcounter \in Nat /\ MediaOK(d.media)

DmaOK(c) ==
  /\ DOMAIN c = DmaFields /\ c.left \in Nat /\ c.after \in Nat
  /\ c.buf \in Seq(Int) /\ c.filled \in 0 .. DMA_BURST_SIZE /\ Len(c.buf) <= c.filled

LogOK(l) ==
  /\ DOMAIN l = LogFields /\ l.memory \in Seq(Int) /\ l.platter \in Seq(Int \X Int)
  /\ l.loaded \in Nat /\ l.base \in Nat

(* The disk's place in its buffer while it sends, and while it receives.   *)
At(d) == d.from + d.limit - d.size

InPlace(d) ==
  /\ d.size \in 1 .. d.limit
  /\ d.disk => d.limit = BLOCK /\ Offset(d.lba) = d.from + BLOCK

Filling(d) ==
  d.limit = BLOCK /\ d.size = Len(d.data) /\ d.size < BLOCK /\ d.blockcounter > 0

(* Words on their way to memory, and how far they reach on the disk.       *)
ToMemory(c, l) ==
  /\ l.loaded = 0 /\ l.platter = <<>>
  /\ From(l.memory, l.base) /\ From(c.buf, l.base + Len(l.memory))

Reached(c, l) == l.base + Len(l.memory) + Len(c.buf)

(* Words on their way to the disk, and how many there are.                 *)
OnDisk(p, b) == \A i \in 1 .. Len(p) : p[i] = <<b + i, i>>

ToDisk(s, c, l) ==
  /\ l.memory = <<>> /\ OnDisk(l.platter, l.base)
  /\ From(s, Len(l.platter)) /\ From(c.buf, Len(l.platter) + Len(s))

Stored(s, c, l) == Len(l.platter) + Len(s) + Len(c.buf)

(* A word is put into the burst buffer (ESP_Send_Data).                    *)
WithWord(c, w) == [c EXCEPT !.filled = @ + 1, !.buf = Append(@, w)]

(* The order stays as the word is the next one.                            *)
LEMMA PutWord ==
  ASSUME NEW c, DmaOK(c), NEW l, LogOK(l), NEW w \in Int, c.filled < DMA_BURST_SIZE,
         NEW n, n = WithWord(c, w)
  PROVE  /\ DmaOK(n)
         /\ ToMemory(c, l) /\ w = Reached(c, l) + 1 => ToMemory(n, l) /\ Reached(n, l) = w
<1> DEFINE filled == c.filled + 1
           buf == Append(c.buf, w)
<1>1. /\ DOMAIN n = DmaFields /\ n.left = c.left /\ n.after = c.after
      /\ n.filled = filled /\ n.buf = buf
  BY DEF DmaOK, DmaFields, WithWord
<1>2. /\ c.left \in Nat /\ c.after \in Nat /\ c.buf \in Seq(Int) /\ Len(c.buf) <= c.filled
      /\ c.filled \in 0 .. DMA_BURST_SIZE /\ DMA_BURST_SIZE \in Nat
  BY EspAssumption DEF DmaOK
<1>3. filled \in 0 .. DMA_BURST_SIZE
  BY <1>2
<1>4. buf \in Seq(Int) /\ Len(buf) = Len(c.buf) + 1 /\ Len(buf) <= filled
  BY <1>2
<1> HIDE DEF filled, buf
<1>5. DmaOK(n)
  BY <1>1, <1>2, <1>3, <1>4 DEF DmaOK
<1>6. ASSUME ToMemory(c, l), w = Reached(c, l) + 1
      PROVE  ToMemory(n, l) /\ Reached(n, l) = w
  <2> DEFINE b == l.base + Len(l.memory)
  <2>1. b \in Int /\ Len(c.buf) \in Nat /\ l.base \in Int /\ Len(l.memory) \in Int
    BY <1>2 DEF LogOK
  <2>2. From(c.buf, b) /\ w = b + Len(c.buf) + 1
    BY <1>6 DEF ToMemory, Reached
  <2>3. From(buf, b)
    <3> HIDE DEF b
    <3> QED
      BY <1>2, <2>1, <2>2, FromAppend DEF buf
  <2>4. Reached(n, l) = w
    BY <1>1, <1>4, <2>1, <2>2 DEF Reached
  <2>5. ToMemory(n, l)
    BY <1>1, <1>6, <2>3 DEF ToMemory
  <2> QED
    BY <2>4, <2>5
<1> QED
  BY <1>5, <1>6

(* Words go from the burst buffer to memory (Emptied).                     *)
Without(c, k, f) == [c EXCEPT !.left = @ - k, !.buf = SubSeq(@, k + 1, Len(@)), !.filled = f]

Received(l, c, k) == [l EXCEPT !.memory = @ \o SubSeq(c.buf, 1, k)]

(* The first words of the burst buffer go to memory.                       *)
LEMMA StoreWords ==
  ASSUME NEW c, DmaOK(c), NEW l, LogOK(l), NEW k \in 0 .. Len(c.buf), k <= c.left,
         NEW f \in 0 .. DMA_BURST_SIZE, Len(c.buf) - k <= f,
         NEW n, n = Without(c, k, f), NEW p, p = Received(l, c, k)
  PROVE  /\ DmaOK(n) /\ LogOK(p) /\ p.skipped = l.skipped
         /\ ToMemory(c, l) => ToMemory(n, p) /\ Reached(n, p) = Reached(c, l)
         /\ \A s : ToDisk(s, c, l) /\ c.buf = <<>> =>
                     ToDisk(s, n, p) /\ n.buf = <<>> /\ Stored(s, n, p) = Stored(s, c, l)
                     /\ p.loaded = l.loaded /\ p.base = l.base /\ p.platter = l.platter
<1> DEFINE left == c.left - k
           buf == SubSeq(c.buf, k + 1, Len(c.buf))
           out == SubSeq(c.buf, 1, k)
           memory == l.memory \o out
<1>1. /\ DOMAIN n = DmaFields /\ n.left = left /\ n.after = c.after /\ n.filled = f /\ n.buf = buf
      /\ DOMAIN p = LogFields /\ p.memory = memory /\ p.platter = l.platter
      /\ p.loaded = l.loaded /\ p.base = l.base /\ p.skipped = l.skipped
  BY DEF DmaOK, DmaFields, LogOK, LogFields, Without, Received
<1>2. /\ c.left \in Nat /\ c.after \in Nat /\ c.buf \in Seq(Int) /\ Len(c.buf) \in Nat
      /\ l.memory \in Seq(Int) /\ Len(l.memory) \in Nat /\ l.base \in Nat
  BY DEF DmaOK, LogOK
<1>3. left \in Nat
  BY <1>2
<1>4. \A b \in Int : /\ out \in Seq(Int) /\ Len(out) = k
                     /\ buf \in Seq(Int) /\ Len(buf) = Len(c.buf) - k
                     /\ From(c.buf, b) => From(out, b) /\ From(buf, b + k)
  BY <1>2, FromSub
<1>5. out \in Seq(Int) /\ Len(out) = k /\ buf \in Seq(Int) /\ Len(buf) = Len(c.buf) - k
  BY <1>4
<1>6. \A b \in Int : /\ memory \in Seq(Int) /\ Len(memory) = Len(l.memory) + k
                     /\ From(l.memory, b) /\ From(out, b + Len(l.memory)) => From(memory, b)
  BY <1>2, <1>5, FromConcat
<1>7. memory \in Seq(Int) /\ Len(memory) = Len(l.memory) + k
  <2>1. 0 \in Int
    OBVIOUS
  <2> HIDE DEF memory, out
  <2> QED
    BY <1>6, <2>1
<1> HIDE DEF left, buf, out, memory
<1>8. DmaOK(n) /\ LogOK(p)
  BY <1>1, <1>2, <1>3, <1>5, <1>7 DEF DmaOK, LogOK
<1>9. ASSUME ToMemory(c, l)
      PROVE  ToMemory(n, p) /\ Reached(n, p) = Reached(c, l)
  <2>1. From(l.memory, l.base) /\ From(c.buf, l.base + Len(l.memory))
    BY <1>9 DEF ToMemory
  <2>2. /\ l.base + Len(l.memory) \in Int /\ l.base \in Int
        /\ (l.base + Len(l.memory)) + k = l.base + Len(memory)
    BY <1>2, <1>7
  <2>3. From(memory, l.base) /\ From(buf, (l.base + Len(l.memory)) + k)
    BY <1>4, <1>6, <2>1, <2>2
  <2>4. From(buf, l.base + Len(memory))
    BY <2>2, <2>3
  <2>5. ToMemory(n, p)
    BY <1>1, <1>9, <2>3, <2>4 DEF ToMemory
  <2>6. Reached(n, p) = Reached(c, l)
    <3>1. Reached(n, p) = l.base + Len(memory) + Len(buf)
      BY <1>1 DEF Reached
    <3>2. Reached(c, l) = l.base + Len(l.memory) + Len(c.buf)
      BY DEF Reached
    <3>3. \A a, b, e \in Int : a + (b + k) + (e - k) = a + b + e
      OBVIOUS
    <3>4. Reached(n, p) = l.base + (Len(l.memory) + k) + (Len(c.buf) - k)
      BY <1>5, <1>7, <3>1
    <3>5. l.base \in Int /\ Len(l.memory) \in Int /\ Len(c.buf) \in Int
      BY <1>2
    <3> QED
      BY <3>2, <3>3, <3>4, <3>5, Zenon
  <2> QED
    BY <2>5, <2>6
<1>10. ASSUME NEW s, ToDisk(s, c, l), c.buf = <<>>
      PROVE  ToDisk(s, n, p) /\ n.buf = <<>> /\ Stored(s, n, p) = Stored(s, c, l)
  <2>1. buf = <<>> /\ out = <<>>
    BY <1>2, <1>5, <1>10
  <2>2. memory = <<>>
    BY <2>1, <1>10 DEF ToDisk, memory
  <2> QED
    BY <1>1, <1>10, <2>1, <2>2 DEF ToDisk, Stored
<1> QED
  BY <1>1, <1>8, <1>9, <1>10

(* Words come from memory into the burst buffer (Fetched).                 *)
WithWords(c, l, k) ==
  [c EXCEPT !.buf = @ \o [i \in 1 .. k |-> l.loaded + i], !.left = @ - k, !.filled = @ + k]

Given(l, k) == [l EXCEPT !.loaded = @ + k]

(* Words of the memory go into the burst buffer.                           *)
LEMMA FetchWords ==
  ASSUME NEW c, DmaOK(c), NEW l, LogOK(l), NEW k \in Nat, k <= c.left,
         k <= DMA_BURST_SIZE - c.filled,
         NEW n, n = WithWords(c, l, k), NEW p, p = Given(l, k)
  PROVE  /\ DmaOK(n) /\ LogOK(p) /\ p.skipped = l.skipped
         /\ p.base = l.base /\ p.platter = l.platter
         /\ \A s \in Seq(Int) : ToDisk(s, c, l) /\ l.loaded = Stored(s, c, l) =>
                                  ToDisk(s, n, p) /\ p.loaded = Stored(s, n, p)
<1> DEFINE left == c.left - k
           in == [i \in 1 .. k |-> l.loaded + i]
           buf == c.buf \o in
           filled == c.filled + k
           loaded == l.loaded + k
<1>1. /\ DOMAIN n = DmaFields /\ n.left = left /\ n.after = c.after /\ n.filled = filled
      /\ n.buf = buf /\ DOMAIN p = LogFields /\ p.memory = l.memory /\ p.platter = l.platter
      /\ p.loaded = loaded /\ p.base = l.base /\ p.skipped = l.skipped
  BY DEF DmaOK, DmaFields, LogOK, LogFields, WithWords, Given
<1>2. /\ c.left \in Nat /\ c.after \in Nat /\ c.buf \in Seq(Int) /\ Len(c.buf) \in Nat
      /\ c.filled \in Nat /\ Len(c.buf) <= c.filled /\ DMA_BURST_SIZE \in Nat
      /\ l.loaded \in Nat /\ Len(l.platter) \in Nat
  <2> HIDE DEF left, in, buf, filled, loaded
  <2>1. /\ c.left \in Nat /\ c.after \in Nat /\ c.buf \in Seq(Int)
        /\ c.filled \in 0 .. DMA_BURST_SIZE /\ Len(c.buf) <= c.filled
    BY DEF DmaOK
  <2>2. l.loaded \in Nat /\ Len(l.platter) \in Nat
    BY DEF LogOK
  <2>3. DMA_BURST_SIZE \in Nat
    BY EspAssumption
  <2>4. c.filled \in Nat
    BY <2>1, <2>3
  <2>5. Len(c.buf) \in Nat
    BY <2>1
  <2> QED
    BY <2>1, <2>2, <2>3, <2>4, <2>5
<1>3. left \in Nat /\ filled \in 0 .. DMA_BURST_SIZE /\ loaded \in Nat /\ l.loaded \in Int
  <2>1. \A x, y \in Nat : x <= y => y - x \in Nat
    OBVIOUS
  <2>2. \A x, y, z \in Nat : x <= y - z => z + x \in 0 .. y
    OBVIOUS
  <2>3. \A x, y \in Nat : x + y \in Nat /\ x \in Int
    OBVIOUS
  <2>4. left \in Nat
    BY <1>2, <2>1, Zenon
  <2>5. filled \in 0 .. DMA_BURST_SIZE
    BY <1>2, <2>2, Zenon
  <2>6. loaded \in Nat /\ l.loaded \in Int
    BY <1>2, <2>3, Zenon
  <2> QED
    BY <2>4, <2>5, <2>6
<1>4. in \in Seq(Int) /\ Len(in) = k /\ From(in, l.loaded)
  <2> HIDE DEF left, buf, filled, loaded
  <2>1. \A i \in 1 .. k : l.loaded + i \in Int
    BY <1>3
  <2>2. in \in Seq(Int) /\ Len(in) = k
    BY <2>1
  <2>3. \A i \in 1 .. k : in[i] = l.loaded + i
    OBVIOUS
  <2> HIDE DEF in
  <2> QED
    BY <2>2, <2>3 DEF From
<1> HIDE DEF left, in, filled, loaded
<1>5. ASSUME NEW b \in Int
      PROVE  /\ buf \in Seq(Int) /\ Len(buf) = Len(c.buf) + k
             /\ From(c.buf, b) /\ From(in, b + Len(c.buf)) => From(buf, b)
  BY <1>2, <1>4, FromConcat
<1>6. buf \in Seq(Int) /\ Len(buf) = Len(c.buf) + k
  <2>1. 0 \in Int
    OBVIOUS
  <2> QED
    BY <1>5, <2>1
<1> HIDE DEF buf
<1>7. Len(buf) <= filled
  BY <1>2, <1>6 DEF filled
<1>8. DmaOK(n) /\ LogOK(p)
  BY <1>1, <1>2, <1>3, <1>6, <1>7 DEF DmaOK, LogOK
<1>9. ASSUME NEW s \in Seq(Int), ToDisk(s, c, l), l.loaded = Stored(s, c, l)
      PROVE  ToDisk(s, n, p) /\ p.loaded = Stored(s, n, p)
  <2> DEFINE b == Len(l.platter) + Len(s)
  <2>1. b \in Int /\ Len(s) \in Nat
    BY <1>2
  <2>2. l.loaded = b + Len(c.buf) /\ From(c.buf, b)
    BY <1>9 DEF Stored, ToDisk
  <2>3. From(buf, b)
    <3> HIDE DEF b
    <3> QED
      BY <1>4, <1>5, <2>1, <2>2
  <2>4. ToDisk(s, n, p)
    BY <1>1, <1>9, <2>3 DEF ToDisk
  <2>5. Stored(s, n, p) = b + (Len(c.buf) + k)
    BY <1>1, <1>6 DEF Stored
  <2>6. p.loaded = (b + Len(c.buf)) + k
    BY <1>1, <2>2 DEF loaded
  <2> HIDE DEF b
  <2>7. (b + Len(c.buf)) + k = b + (Len(c.buf) + k)
    BY <1>2, <2>1
  <2> QED
    BY <2>4, <2>5, <2>6, <2>7
<1> QED
  BY <1>1, <1>8, <1>9

(* A word leaves the burst buffer for the disk (Give).                     *)
WithoutHead(c) == [c EXCEPT !.buf = Tail(@)]

(* A word goes from the burst buffer to the disk.                          *)
LEMMA TakeWord ==
  ASSUME NEW c, DmaOK(c), c.buf # <<>>, NEW n, n = WithoutHead(c)
  PROVE  /\ DmaOK(n) /\ Head(c.buf) \in Int
         /\ \A l, s : LogOK(l) /\ s \in Seq(Int) /\ ToDisk(s, c, l) =>
                        /\ ToDisk(Append(s, Head(c.buf)), n, l)
                        /\ Stored(Append(s, Head(c.buf)), n, l) = Stored(s, c, l)
<1> DEFINE buf == Tail(c.buf)
           w == Head(c.buf)
<1>1. /\ DOMAIN n = DmaFields /\ n.left = c.left /\ n.after = c.after /\ n.filled = c.filled
      /\ n.buf = buf
  BY DEF DmaOK, DmaFields, WithoutHead
<1>2. c.buf \in Seq(Int) /\ Len(c.buf) \in Nat /\ c.filled \in 0 .. DMA_BURST_SIZE
  BY DEF DmaOK
<1>3. ASSUME NEW b \in Int
      PROVE  /\ w \in Int /\ buf \in Seq(Int) /\ Len(buf) = Len(c.buf) - 1
             /\ From(c.buf, b) => w = b + 1 /\ From(buf, b + 1)
  BY <1>2, FromTail
<1>4. w \in Int /\ buf \in Seq(Int) /\ Len(buf) = Len(c.buf) - 1
  <2>1. 0 \in Int
    OBVIOUS
  <2> HIDE DEF buf, w
  <2> QED
    BY <1>3, <2>1
<1> HIDE DEF buf, w
<1>5. Len(buf) <= c.filled
  <2>1. Len(c.buf) <= c.filled
    BY DEF DmaOK
  <2> QED
    BY <1>2, <1>4, <2>1
<1>6. DmaOK(n)
  BY <1>1, <1>4, <1>5 DEF DmaOK
<1>7. ASSUME NEW l, NEW s, LogOK(l), s \in Seq(Int), ToDisk(s, c, l)
      PROVE  ToDisk(Append(s, w), n, l) /\ Stored(Append(s, w), n, l) = Stored(s, c, l)
  <2> DEFINE b == Len(l.platter)
             e == b + Len(s)
             t == Append(s, w)
  <2>1. b \in Int /\ Len(s) \in Int /\ e \in Int
    BY <1>7 DEF LogOK
  <2>2. From(s, b) /\ From(c.buf, e)
    BY <1>7 DEF ToDisk
  <2>3. w = e + 1 /\ From(buf, e + 1)
    <3> HIDE DEF e
    <3> QED
      BY <1>3, <2>1, <2>2
  <2>4. Len(t) = Len(s) + 1 /\ From(t, b)
    <3> HIDE DEF b
    <3> QED
      BY <1>7, <2>1, <2>2, <2>3, FromAppend
  <2>5. e + 1 = b + (Len(s) + 1)
    <3> HIDE DEF b
    <3> QED
      BY <2>1
  <2>6. ToDisk(t, n, l)
    <3>1. From(buf, b + Len(t))
      BY <2>3, <2>4, <2>5
    <3> HIDE DEF t
    <3> QED
      BY <1>1, <1>7, <2>4, <3>1 DEF ToDisk
  <2>7. Stored(t, n, l) = b + (Len(s) + 1) + (Len(c.buf) - 1)
    <3> HIDE DEF t
    <3> QED
      BY <1>1, <1>4, <2>4 DEF Stored
  <2>8. Stored(s, c, l) = b + Len(s) + Len(c.buf)
    BY DEF Stored
  <2> HIDE DEF b, t
  <2>9. b + (Len(s) + 1) + (Len(c.buf) - 1) = b + Len(s) + Len(c.buf)
    <3>1. \A x, y, z \in Int : x + (y + 1) + (z - 1) = x + y + z
      OBVIOUS
    <3>2. Len(c.buf) \in Int
      BY <1>2
    <3> QED
      BY <2>1, <3>1, <3>2, Zenon
  <2> QED
    BY <2>6, <2>7, <2>8, <2>9 DEF t
<1> QED
  BY <1>4, <1>6, <1>7 DEF w

(* Where an element of the second of two sequences is.                     *)
LEMMA Behind ==
  ASSUME NEW a \in Nat, NEW b \in Nat, NEW i \in 1 .. a + b, ~(i <= a)
  PROVE  i - a \in 1 .. b /\ i - a \in Int /\ i = a + (i - a)
OBVIOUS

(* A function of 1 .. n is a sequence.                                     *)
LEMMA SeqOf ==
  ASSUME NEW T, NEW n \in Nat, NEW f \in [1 .. n -> T]
  PROVE  f \in Seq(T) /\ Len(f) = n
OBVIOUS

(* A block goes to the disk (scsi_write_sector).                           *)
WithBlock(l, s, at) ==
  [l EXCEPT !.platter = @ \o [i \in 1 .. BLOCK |-> <<at + i, s[i]>>]]

(* A full buffer goes to the disk as a block.                              *)
LEMMA StoreBlock ==
  ASSUME NEW c, DmaOK(c), NEW l, LogOK(l), NEW s \in Seq(Int), Len(s) = BLOCK, NEW at \in Int,
         NEW p, p = WithBlock(l, s, at)
  PROVE  /\ LogOK(p) /\ p.skipped = l.skipped /\ p.loaded = l.loaded /\ p.base = l.base
         /\ Len(p.platter) = Len(l.platter) + BLOCK
         /\ ToDisk(s, c, l) /\ at = l.base + Len(l.platter) =>
              ToDisk(<<>>, c, p) /\ Stored(<<>>, c, p) = Stored(s, c, l)
<1> DEFINE block == [i \in 1 .. BLOCK |-> <<at + i, s[i]>>]
           platter == l.platter \o block
<1>1. /\ DOMAIN p = LogFields /\ p.memory = l.memory /\ p.platter = platter
      /\ p.loaded = l.loaded /\ p.base = l.base /\ p.skipped = l.skipped
  BY DEF LogOK, LogFields, WithBlock
<1>2. BLOCK \in Nat
  BY EspAssumption
<1>3. block \in Seq(Int \X Int) /\ Len(block) = BLOCK
  <2>1. \A i \in 1 .. BLOCK : s[i] \in Int /\ at + i \in Int
    BY <1>2
  <2>2. block \in [1 .. BLOCK -> Int \X Int]
    BY <2>1
  <2> HIDE DEF block
  <2> QED
    BY <1>2, <2>2, SeqOf, Zenon
<1>4. l.platter \in Seq(Int \X Int) /\ Len(l.platter) \in Nat /\ l.base \in Int
  BY DEF LogOK
<1>5. /\ platter \in Seq(Int \X Int) /\ Len(platter) = Len(l.platter) + BLOCK
      /\ \A i \in 1 .. Len(platter) :
           platter[i] = IF i <= Len(l.platter) THEN l.platter[i] ELSE block[i - Len(l.platter)]
  <2> HIDE DEF block
  <2>1. /\ platter \in Seq(Int \X Int) /\ Len(platter) = Len(l.platter) + Len(block)
        /\ \A i \in 1 .. Len(platter) :
             platter[i] = IF i <= Len(l.platter) THEN l.platter[i] ELSE block[i - Len(l.platter)]
    <3>1. Len(platter) = Len(l.platter) + Len(block)
      BY <1>3, <1>4, ConcatProperties, Zenon
    <3> QED
      BY <1>3, <1>4, <3>1, ConcatProperties, Zenon
  <2> QED
    BY <1>3, <2>1
<1> HIDE DEF platter
<1>6. LogOK(p)
  BY <1>1, <1>5 DEF LogOK
<1>7. ASSUME ToDisk(s, c, l), at = l.base + Len(l.platter)
      PROVE  ToDisk(<<>>, c, p) /\ Stored(<<>>, c, p) = Stored(s, c, l)
  <2>1. OnDisk(l.platter, l.base) /\ From(s, Len(l.platter))
    BY <1>7 DEF ToDisk
  <2>2. ASSUME NEW i \in 1 .. Len(platter)
        PROVE  platter[i] = <<l.base + i, i>>
    <3>1. CASE i <= Len(l.platter)
      <4>1. i \in 1 .. Len(l.platter)
        BY <1>2, <1>4, <1>5, <3>1
      <4> QED
        BY <1>5, <2>1, <3>1, <4>1 DEF OnDisk
    <3>2. CASE ~(i <= Len(l.platter))
      <4> DEFINE j == i - Len(l.platter)
      <4>1. j \in 1 .. BLOCK /\ j \in Int /\ i = Len(l.platter) + j
        <5>1. Len(platter) = Len(l.platter) + BLOCK
          BY <1>5
        <5>2. i \in 1 .. Len(l.platter) + BLOCK
          BY <5>1
        <5>3. Len(l.platter) \in Nat
          BY <1>4
        <5> QED
          BY <1>2, <3>2, <5>2, <5>3, Behind, Zenon
      <4>2. platter[i] = block[j]
        BY <1>5, <3>2, Zenon
      <4> HIDE DEF j
      <4>3. block[j] = <<at + j, s[j]>>
        BY <4>1, Zenon
      <4>4. s[j] = Len(l.platter) + j
        <5>1. j \in 1 .. Len(s)
          BY <1>2, <4>1
        <5> QED
          BY <2>1, <5>1, Zenon DEF From
      <4>5. at + j = l.base + i
        <5>1. \A x, y, z \in Int : (x + y) + z = x + (y + z)
          OBVIOUS
        <5>2. l.base \in Int /\ Len(l.platter) \in Int
          BY <1>4
        <5> QED
          BY <1>7, <4>1, <5>1, <5>2, Zenon
      <4> QED
        BY <4>1, <4>2, <4>3, <4>4, <4>5
    <3> QED
      BY <3>1, <3>2
  <2>3. Len(<<>>) = 0 /\ From(<<>>, Len(platter)) /\ Len(platter) + 0 = Len(l.platter) + Len(s)
    BY <1>2, <1>4, <1>5 DEF From
  <2>4. ToDisk(<<>>, c, p)
    <3>1. From(c.buf, Len(platter) + Len(<<>>))
      BY <1>7, <2>3 DEF ToDisk
    <3>2. OnDisk(platter, l.base)
      BY <2>2 DEF OnDisk
    <3> QED
      BY <1>1, <1>7, <2>3, <3>1, <3>2 DEF ToDisk
  <2>5. Stored(<<>>, c, p) = Stored(s, c, l)
    BY <1>1, <2>3 DEF Stored
  <2> QED
    BY <2>4, <2>5
<1> QED
  BY <1>1, <1>5, <1>6, <1>7

-----------------------------------------------------------------------------
(* The disk's operations on data. *)

Rest(m, n) == DOMAIN n = Parts /\ n.chip = m.chip /\ n.line = m.line /\ n.event = m.event

(* A sector is read, or the command is over (scsi_read_sector).            *)
LEMMA ReadSector ==
  ASSUME NEW m, Shaped(m), DiskOK(m.disk), NEW n, n = scsi_read_sector(m)
  PROVE  /\ Rest(m, n) /\ n.dma = m.dma /\ n.log = m.log /\ DiskOK(n.disk)
         /\ n.disk.data = m.disk.data
         /\ \/ n.phase = "status"
            \/ n.phase = m.phase /\ InPlace(n.disk) /\ At(n.disk) = Offset(m.disk.lba)
<1>1. CASE m.disk.blockcounter = 0
  <2>1. n = [m EXCEPT !.phase = "status"]
    BY <1>1 DEF scsi_read_sector
  <2>2. Rest(m, n) /\ n.dma = m.dma /\ n.log = m.log /\ n.disk = m.disk /\ n.phase = "status"
    BY <2>1 DEF Shaped, Parts, Rest
  <2> QED
    BY <2>2
<1>2. CASE m.disk.blockcounter # 0 /\ m.disk.lba >= Blocks
  <2>1. n = [m EXCEPT !.disk.status = "check", !.phase = "status"]
    BY <1>2 DEF scsi_read_sector, CheckCondition
  <2>2. /\ Rest(m, n) /\ n.dma = m.dma /\ n.log = m.log /\ n.phase = "status"
        /\ n.disk = [m.disk EXCEPT !.status = "check"]
    BY <2>1 DEF Shaped, Parts, Rest
  <2>3. DiskOK(n.disk) /\ n.disk.data = m.disk.data
    BY <2>2 DEF DiskOK, DiskFields
  <2> QED
    BY <2>2, <2>3
<1>3. CASE m.disk.blockcounter # 0 /\ ~(m.disk.lba >= Blocks)
  <2> DEFINE at == Offset(m.disk.lba)
             lba == m.disk.lba + 1
             left == m.disk.blockcounter - 1
             stale == m.disk.lba \in m.disk.media.written \ m.disk.media.copies
             d == SectorRead(m.disk)
  <2>1. n = [m EXCEPT !.disk = d]
    BY <1>3, Zenon DEF scsi_read_sector
  <2>10. d = [m.disk EXCEPT !.size = BLOCK, !.limit = BLOCK, !.from = at, !.lba = lba,
                            !.blockcounter = left, !.stale = stale]
    BY Zenon DEF SectorRead
  <2>2. m.disk.lba \in Nat
    BY DEF DiskOK
  <2>3. at \in Nat /\ BLOCK \in Nat /\ BLOCK > 0 /\ Offset(lba) = at + BLOCK
    BY <2>2, OffsetNext
  <2>4. lba \in Nat
    BY <2>2
  <2>5. left \in Nat
    <3>1. m.disk.blockcounter \in Nat
      BY DEF DiskOK
    <3> QED
      BY <1>3, <3>1
  <2> HIDE DEF at, lba, left, stale, d
  <2>6. /\ Rest(m, n) /\ n.dma = m.dma /\ n.log = m.log /\ n.phase = m.phase
        /\ n.disk = d
    BY <2>1 DEF Shaped, Parts, Rest
  <2>7. /\ DOMAIN n.disk = DiskFields /\ n.disk.lba = lba /\ n.disk.from = at
        /\ n.disk.size = BLOCK /\ n.disk.limit = BLOCK /\ n.disk.blockcounter = left
        /\ n.disk.data = m.disk.data /\ m.disk.data \in Seq(Int)
        /\ n.disk.media = m.disk.media /\ MediaOK(m.disk.media)
    BY <2>6, <2>10 DEF DiskOK, DiskFields
  <2>8. DiskOK(n.disk)
    BY <2>3, <2>4, <2>5, <2>7 DEF DiskOK
  <2>9. InPlace(n.disk) /\ At(n.disk) = at
    BY <2>3, <2>7 DEF InPlace, At
  <2> QED
    BY <2>6, <2>7, <2>8, <2>9 DEF at
<1> QED
  BY <1>1, <1>2, <1>3

(* A word is sent; the place moves on by one (SCSIdisk_Send_Data).         *)
LEMMA SendWord ==
  ASSUME NEW m, Shaped(m), DiskOK(m.disk), InPlace(m.disk), NEW n, n = SCSIdisk_Send_Data(m)
  PROVE  /\ Rest(m, n) /\ n.dma = m.dma /\ n.log = m.log /\ DiskOK(n.disk)
         /\ n.disk.data = m.disk.data /\ At(m.disk) \in Nat
         /\ \/ n.phase = "status"
            \/ n.phase = m.phase /\ InPlace(n.disk) /\ At(n.disk) = At(m.disk) + 1
<1> DEFINE size == m.disk.size - 1
           sent == [m EXCEPT !.disk.size = @ - 1]
<1>1. /\ m.disk.size \in 1 .. m.disk.limit /\ m.disk.limit \in Nat /\ m.disk.from \in Nat
      /\ m.disk.lba \in Nat
  BY DEF DiskOK, InPlace
<1>2. size \in Nat /\ (size # 0 => size \in 1 .. m.disk.limit) /\ At(m.disk) \in Nat
  BY <1>1 DEF At
<1>3. sent = [m EXCEPT !.disk.size = size]
  OBVIOUS
<1> HIDE DEF size, sent
<1>4. /\ Shaped(sent) /\ Rest(m, sent) /\ sent.dma = m.dma /\ sent.log = m.log
      /\ sent.phase = m.phase /\ sent.disk = [m.disk EXCEPT !.size = size]
  BY <1>3 DEF Shaped, Parts, Rest
<1>5. /\ DOMAIN sent.disk = DiskFields /\ sent.disk.size = size
      /\ sent.disk.limit = m.disk.limit /\ sent.disk.from = m.disk.from
      /\ sent.disk.lba = m.disk.lba /\ sent.disk.disk = m.disk.disk
      /\ sent.disk.data = m.disk.data /\ sent.disk.blockcounter = m.disk.blockcounter
      /\ sent.disk.media = m.disk.media
  BY <1>4 DEF DiskOK, DiskFields
<1>6. DiskOK(sent.disk)
  BY <1>2, <1>5 DEF DiskOK
<1>7. n = IF sent.disk.size # 0 THEN sent
          ELSE IF m.disk.disk THEN scsi_read_sector(sent) ELSE [sent EXCEPT !.phase = "status"]
  BY Zenon DEF SCSIdisk_Send_Data, sent
<1>8. CASE sent.disk.size # 0
  <2>1. n = sent /\ size \in 1 .. m.disk.limit
    BY <1>2, <1>5, <1>7, <1>8
  <2>2. InPlace(sent.disk)
    BY <1>5, <2>1 DEF InPlace
  <2>3. At(sent.disk) = At(m.disk) + 1
    BY <1>1, <1>5 DEF At, size
  <2> QED
    BY <1>2, <1>4, <1>5, <1>6, <2>1, <2>2, <2>3
<1>9. CASE ~(sent.disk.size # 0) /\ m.disk.disk
  <2>1. n = scsi_read_sector(sent)
    BY <1>7, <1>9, Zenon
  <2>2. /\ Rest(sent, n) /\ n.dma = sent.dma /\ n.log = sent.log /\ DiskOK(n.disk)
        /\ n.disk.data = sent.disk.data
        /\ \/ n.phase = "status"
           \/ n.phase = sent.phase /\ InPlace(n.disk) /\ At(n.disk) = Offset(sent.disk.lba)
    BY <1>4, <1>6, <2>1, ReadSector
  <2>3. Offset(m.disk.lba) = At(m.disk) + 1
    <3>1. m.disk.limit = BLOCK /\ Offset(m.disk.lba) = m.disk.from + BLOCK
      BY <1>9 DEF InPlace
    <3>2. m.disk.size = 1
      BY <1>1, <1>5, <1>9 DEF size
    <3> QED
      BY <1>1, <3>1, <3>2 DEF At
  <2>4. Rest(m, n)
    BY <1>4, <2>2 DEF Rest
  <2> QED
    BY <1>2, <1>4, <1>5, <2>2, <2>3, <2>4
<1>10. CASE ~(sent.disk.size # 0) /\ ~m.disk.disk
  <2>1. n = [sent EXCEPT !.phase = "status"]
    BY <1>7, <1>10, Zenon
  <2>2. /\ Rest(m, n) /\ n.dma = m.dma /\ n.log = m.log /\ n.phase = "status"
        /\ n.disk = sent.disk
    BY <1>4, <2>1 DEF Shaped, Parts, Rest
  <2> QED
    BY <1>2, <1>5, <1>6, <2>2
<1> QED
  BY <1>8, <1>9, <1>10

(* What becomes of m when a block is written: it is on the disk, or the      *)
(* command is over.                                                        *)
Wrote(m, n) ==
  /\ Rest(m, n) /\ n.dma = m.dma /\ DiskOK(n.disk) /\ LogOK(n.log)
  /\ n.log.skipped = m.log.skipped /\ n.log.loaded = m.log.loaded
  /\ n.log.base = m.log.base
  /\ \/ n.phase = "status" /\ n.log = m.log /\ n.disk.data = m.disk.data
     \/ /\ n.phase = "status" \/ (n.phase = m.phase /\ Filling(n.disk))
        /\ ToDisk(m.disk.data, m.dma, m.log)
           /\ Offset(m.disk.lba) = m.log.base + Len(m.log.platter) =>
             /\ ToDisk(n.disk.data, m.dma, n.log)
             /\ Stored(n.disk.data, m.dma, n.log) = Stored(m.disk.data, m.dma, m.log)
             /\ Offset(n.disk.lba) = n.log.base + Len(n.log.platter)

(* The image or its overlay takes a block.                                 *)
LEMMA OverlaidOK ==
  ASSUME NEW d, MediaOK(d), NEW lba
  PROVE  MediaOK(Overlaid(d, lba))
<1> DEFINE next == [d EXCEPT !.blocks = @ + 1]
           made == [next EXCEPT !.table = TRUE, !.written = @ \cup {lba},
                                !.lost = @ \cup {next.blocks}]
           copied == [next EXCEPT !.copies = @ \cup {lba}, !.written = @ \cup {lba}]
<1>1. /\ DOMAIN next = MediaFields /\ next.overlay = d.overlay /\ next.table = d.table
      /\ next.copies = d.copies /\ next.written = d.written /\ next.lost = d.lost
      /\ next.blocks = d.blocks + 1 /\ next.blocks \in Nat
  BY DEF MediaOK, MediaFields
<1>2. Overlaid(d, lba) = CASE ~d.overlay -> next
                           [] d.overlay /\ ~d.table -> made
                           [] d.overlay /\ d.table -> copied
  BY Zenon DEF Overlaid
<1> HIDE DEF next
<1>3. CASE ~d.overlay
  BY <1>1, <1>2, <1>3 DEF MediaOK
<1>4. CASE d.overlay /\ ~d.table
  <2>1. /\ DOMAIN made = MediaFields /\ made.overlay = d.overlay /\ made.table = TRUE
        /\ made.copies = d.copies /\ made.written = d.written \cup {lba}
        /\ made.lost = d.lost \cup {next.blocks} /\ made.blocks = next.blocks
    <3>1. DOMAIN made = MediaFields
      BY <1>1, Zenon
    <3>2. /\ made.overlay = d.overlay /\ made.copies = d.copies
          /\ made.written = d.written \cup {lba} /\ made.lost = d.lost \cup {next.blocks}
          /\ made.blocks = next.blocks
      BY <1>1 DEF MediaFields
    <3>3. made.table = TRUE
      BY <1>1 DEF MediaFields
    <3> QED
      BY <3>1, <3>2, <3>3, Zenon
  <2>2. d.written = {} /\ next.blocks = 1 /\ d.lost \subseteq {1}
    BY <1>1, <1>4 DEF MediaOK
  <2>3. Overlaid(d, lba) = made
    BY <1>2, <1>4, Zenon
  <2> HIDE DEF made
  <2>4. d.overlay \in BOOLEAN /\ d.overlay
    BY <1>4, Zenon DEF MediaOK
  <2>5. made.table \in BOOLEAN /\ made.table /\ made.overlay /\ made.overlay \in BOOLEAN
    BY <2>1, <2>4, Zenon
  <2>6. made.blocks \in Nat
    BY <1>1, <2>1, Zenon
  <2>7. \A a, b \in made.written \ made.copies : a = b
    BY <2>1, <2>2
  <2>8. made.lost \subseteq {1}
    BY <2>1, <2>2
  <2>9. made.lost \subseteq IF made.overlay THEN {1} ELSE {}
    BY <2>5, <2>8, Zenon
  <2>10. MediaOK(made)
    BY <2>1, <2>5, <2>6, <2>7, <2>9, Zenon DEF MediaOK
  <2> QED
    BY <2>3, <2>10, Zenon
<1>5. CASE d.overlay /\ d.table
  <2>1. /\ DOMAIN copied = MediaFields /\ copied.overlay = d.overlay /\ copied.table = d.table
        /\ copied.copies = d.copies \cup {lba} /\ copied.written = d.written \cup {lba}
        /\ copied.lost = d.lost /\ copied.blocks = next.blocks
    BY <1>1 DEF MediaFields
  <2>2. Overlaid(d, lba) = copied
    BY <1>2, <1>5, Zenon
  <2> HIDE DEF copied
  <2>3. copied.written \ copied.copies \subseteq d.written \ d.copies
    BY <2>1
  <2> QED
    BY <1>1, <1>5, <2>1, <2>2, <2>3 DEF MediaOK
<1> QED
  BY <1>3, <1>4, <1>5 DEF MediaOK

(* A full block is written, unless it lies behind the disk's end           *)
(* (scsi_write_sector).                                                    *)
LEMMA WriteSector ==
  ASSUME NEW m, Shaped(m), DiskOK(m.disk), DmaOK(m.dma), LogOK(m.log),
         Len(m.disk.data) = BLOCK, m.disk.blockcounter > 0, m.disk.limit = BLOCK,
         NEW n, n = scsi_write_sector(m)
  PROVE  Wrote(m, n)
<1>1. CASE m.disk.lba >= Blocks
  <2>1. n = [m EXCEPT !.disk.status = "check", !.phase = "status"]
    BY <1>1 DEF scsi_write_sector, CheckCondition
  <2>2. /\ Rest(m, n) /\ n.dma = m.dma /\ n.log = m.log /\ n.phase = "status"
        /\ n.disk = [m.disk EXCEPT !.status = "check"]
    BY <2>1 DEF Shaped, Parts, Rest
  <2>3. DiskOK(n.disk) /\ n.disk.data = m.disk.data
    BY <2>2 DEF DiskOK, DiskFields
  <2> QED
    BY <2>2, <2>3 DEF Wrote
<1>2. CASE ~(m.disk.lba >= Blocks)
  <2> DEFINE at == Offset(m.disk.lba)
             s == m.disk.data
             lba == m.disk.lba + 1
             left == m.disk.blockcounter - 1
             log2 == WithBlock(m.log, s, at)
             next == IF m.disk.blockcounter = 1 THEN "status" ELSE m.phase
             media == Overlaid(m.disk.media, m.disk.lba)
             d == SectorWritten(m.disk)
  <2>1. n = [m EXCEPT
               !.log.platter = @ \o [i \in 1 .. BLOCK |-> <<at + i, s[i]>>],
               !.disk = d, !.phase = next]
    BY <1>2, Zenon DEF scsi_write_sector
  <2>14. d = [m.disk EXCEPT !.media = media, !.size = 0, !.data = <<>>, !.lba = lba,
                            !.blockcounter = left]
    BY Zenon DEF SectorWritten
  <2>2. m.disk.lba \in Nat /\ m.disk.blockcounter \in Nat /\ s \in Seq(Int)
    BY DEF DiskOK
  <2>3. at \in Nat /\ BLOCK \in Nat /\ BLOCK > 0 /\ Offset(lba) = at + BLOCK
    BY <2>2, OffsetNext
  <2>4. lba \in Nat
    BY <2>2
  <2>5. left \in Nat /\ (m.disk.blockcounter # 1 => left > 0)
    BY <2>2
  <2>6. n = [m EXCEPT
               !.log = log2, !.disk = d, !.phase = next]
    <3> DEFINE block == [i \in 1 .. BLOCK |-> <<at + i, s[i]>>]
    <3> HIDE DEF block
    <3>1. \A e, q : [m EXCEPT !.log.platter = @ \o block, !.disk = e, !.phase = q]
                   = [m EXCEPT !.log = [m.log EXCEPT !.platter = @ \o block], !.disk = e,
                               !.phase = q]
      BY DEF Shaped, Parts
    <3> QED
      BY <2>1, <3>1, Zenon DEF block, WithBlock
  <2>7. /\ LogOK(log2) /\ log2.skipped = m.log.skipped /\ log2.loaded = m.log.loaded
        /\ log2.base = m.log.base /\ Len(log2.platter) = Len(m.log.platter) + BLOCK
        /\ ToDisk(s, m.dma, m.log) /\ at = m.log.base + Len(m.log.platter) =>
             /\ ToDisk(<<>>, m.dma, log2)
             /\ Stored(<<>>, m.dma, log2) = Stored(s, m.dma, m.log)
    <3>1. at \in Int
      BY <2>3
    <3>2. log2 = WithBlock(m.log, s, at)
      OBVIOUS
    <3>3. Len(s) = BLOCK
      OBVIOUS
    <3> HIDE DEF at, s, log2
    <3> QED
      BY <2>2, <3>1, <3>2, <3>3, StoreBlock
  <2>13. MediaOK(media)
    BY OverlaidOK DEF DiskOK
  <2> HIDE DEF at, s, lba, left, log2, next, media, d
  <2>8. /\ Rest(m, n) /\ n.dma = m.dma /\ n.log = log2 /\ n.phase = next
        /\ n.disk = d
    BY <2>6 DEF Shaped, Parts, Rest
  <2>9. /\ DOMAIN n.disk = DiskFields /\ n.disk.lba = lba /\ n.disk.from = m.disk.from
        /\ n.disk.size = 0 /\ n.disk.limit = m.disk.limit /\ n.disk.blockcounter = left
        /\ n.disk.data = <<>> /\ n.disk.media = media
    BY <2>8, <2>14 DEF DiskOK, DiskFields
  <2>10. DiskOK(n.disk)
    <3>1. <<>> \in Seq(Int) /\ 0 \in Nat /\ m.disk.from \in Nat /\ m.disk.limit \in Nat
      BY DEF DiskOK
    <3> QED
      BY <2>4, <2>5, <2>9, <2>13, <3>1 DEF DiskOK
  <2>11. n.phase = "status" \/ (n.phase = m.phase /\ Filling(n.disk))
    <3>1. CASE m.disk.blockcounter = 1
      BY <2>8, <3>1 DEF next
    <3>2. CASE m.disk.blockcounter # 1
      <4>1. Len(<<>>) = 0 /\ 0 < BLOCK
        BY <2>3
      <4>2. Filling(n.disk)
        BY <2>5, <2>9, <3>2, <4>1 DEF Filling
      <4> QED
        BY <2>8, <3>2, <4>2 DEF next
    <3> QED
      BY <3>1, <3>2
  <2>12. ASSUME ToDisk(s, m.dma, m.log), at = m.log.base + Len(m.log.platter)
         PROVE  Offset(n.disk.lba) = n.log.base + Len(n.log.platter)
    <3>1. Offset(n.disk.lba) = at + BLOCK
      BY <2>3, <2>9
    <3>2. n.log.base + Len(n.log.platter) = m.log.base + (Len(m.log.platter) + BLOCK)
      BY <2>7, <2>8
    <3>3. m.log.base \in Nat /\ Len(m.log.platter) \in Nat
      BY DEF LogOK
    <3> QED
      BY <2>3, <2>12, <3>1, <3>2, <3>3
  <2> QED
    BY <2>7, <2>8, <2>9, <2>10, <2>11, <2>12 DEF at, s, Wrote
<1> QED
  BY <1>1, <1>2

(* A word is received: it comes behind what is there                       *)
(* (SCSIdisk_Receive_Data).                                                *)
LEMMA ReceiveWord ==
  ASSUME NEW m, Shaped(m), DiskOK(m.disk), DmaOK(m.dma), LogOK(m.log), Filling(m.disk),
         NEW w \in Int, NEW n, n = SCSIdisk_Receive_Data(m, w)
  PROVE  /\ Rest(m, n) /\ n.dma = m.dma /\ DiskOK(n.disk) /\ LogOK(n.log)
         /\ n.log.skipped = m.log.skipped /\ n.log.loaded = m.log.loaded
         /\ n.log.base = m.log.base
         /\ n.phase = "status" \/ (n.phase = m.phase /\ Filling(n.disk))
         /\ ToDisk(Append(m.disk.data, w), m.dma, m.log)
            /\ Offset(m.disk.lba) = m.log.base + Len(m.log.platter) =>
              /\ ToDisk(n.disk.data, m.dma, n.log)
              /\ Stored(n.disk.data, m.dma, n.log) = Stored(Append(m.disk.data, w), m.dma, m.log)
              /\ n.phase # "status" => Offset(n.disk.lba) = n.log.base + Len(n.log.platter)
<1> DEFINE data == Append(m.disk.data, w)
           size == m.disk.size + 1
           got == [m EXCEPT !.disk.data = Append(@, w), !.disk.size = @ + 1]
<1>1. /\ m.disk.size \in Nat /\ m.disk.limit = BLOCK /\ m.disk.size = Len(m.disk.data)
      /\ m.disk.size < BLOCK /\ m.disk.blockcounter > 0 /\ m.disk.data \in Seq(Int)
  BY DEF DiskOK, Filling
<1>2. size \in Nat /\ data \in Seq(Int) /\ Len(data) = size /\ BLOCK \in Nat
  BY <1>1, EspAssumption
<1>3. size # BLOCK => size < BLOCK
  BY <1>1, <1>2
<1>4. got = [m EXCEPT !.disk.data = data, !.disk.size = size]
  OBVIOUS
<1> HIDE DEF data, size, got
<1>5. /\ Shaped(got) /\ Rest(m, got) /\ got.dma = m.dma /\ got.log = m.log
      /\ got.phase = m.phase /\ got.disk = [m.disk EXCEPT !.data = data, !.size = size]
  BY <1>4 DEF Shaped, Parts, Rest
<1>6. /\ DOMAIN got.disk = DiskFields /\ got.disk.size = size /\ got.disk.data = data
      /\ got.disk.limit = m.disk.limit /\ got.disk.from = m.disk.from
      /\ got.disk.lba = m.disk.lba /\ got.disk.blockcounter = m.disk.blockcounter
      /\ got.disk.media = m.disk.media
  BY <1>5 DEF DiskOK, DiskFields
<1>7. DiskOK(got.disk)
  BY <1>2, <1>6 DEF DiskOK
<1>8. n = IF size = BLOCK THEN scsi_write_sector(got) ELSE got
  <2>1. n = IF got.disk.size = got.disk.limit THEN scsi_write_sector(got) ELSE got
    BY Zenon DEF SCSIdisk_Receive_Data, got
  <2> QED
    BY <1>1, <1>6, <2>1
<1>9. CASE size = BLOCK
  <2>1. n = scsi_write_sector(got)
    BY <1>8, <1>9
  <2>2. /\ Len(got.disk.data) = BLOCK /\ got.disk.blockcounter > 0 /\ got.disk.limit = BLOCK
        /\ DmaOK(got.dma) /\ LogOK(got.log)
    BY <1>1, <1>2, <1>5, <1>6, <1>9
  <2>3. Wrote(got, n)
    BY <1>5, <1>7, <2>1, <2>2, WriteSector
  <2>4. Rest(m, n)
    BY <1>5, <2>3 DEF Rest, Wrote
  <2> QED
    BY <1>5, <1>6, <2>3, <2>4 DEF data, Wrote
<1>10. CASE size # BLOCK
  <2>1. n = got
    BY <1>8, <1>10
  <2>2. Filling(got.disk)
    BY <1>1, <1>2, <1>3, <1>6, <1>10 DEF Filling
  <2> QED
    BY <1>5, <1>6, <1>7, <2>1, <2>2 DEF data
<1> QED
  BY <1>9, <1>10

-----------------------------------------------------------------------------
(* The order of the words, in one state of the machine. *)

DataIn(m) == m.phase = "data in"
DataOut(m) == m.phase = "data out"
Connected(m) == m.chip.state = "initiator"
Skipped(m) == m.log.skipped

Typed(m) ==
  /\ Shaped(m) /\ m.chip.counter \in Nat /\ m.chip.state \in {"disconnected", "initiator"}
  /\ DiskOK(m.disk) /\ DmaOK(m.dma) /\ LogOK(m.log)

Positioned(m) ==
  /\ DataIn(m) /\ Connected(m) => InPlace(m.disk)
  /\ DataOut(m) /\ Connected(m) => Filling(m.disk)

ReadOrder(m) ==
  /\ ToMemory(m.dma, m.log) /\ m.disk.data = <<>> /\ ~(DataOut(m) /\ Connected(m))
  /\ DataIn(m) /\ Connected(m) => At(m.disk) = Reached(m.dma, m.log)

(* Each word that left memory is on the disk, in its buffer or in the      *)
(* burst buffer.                                                           *)
Balanced(m) == m.log.loaded = Stored(m.disk.data, m.dma, m.log)

WriteOrder(m) ==
  /\ ToDisk(m.disk.data, m.dma, m.log) /\ ~DataIn(m)
  /\ Stored(m.disk.data, m.dma, m.log) <= m.log.loaded
  /\ DataOut(m) /\ Connected(m) =>
       Balanced(m) /\ Offset(m.disk.lba) = m.log.base + Len(m.log.platter)

(* During a transfer to memory, and during one to the disk.                *)
In(m) ==
  /\ Typed(m) /\ Positioned(m) /\ (DataIn(m) => Connected(m))
  /\ Skipped(m) \/ ReadOrder(m) \/ (WriteOrder(m) /\ m.dma.buf = <<>>)

Out(m) ==
  /\ Typed(m) /\ Positioned(m) /\ (DataOut(m) => Connected(m))
  /\ Skipped(m) \/ (WriteOrder(m) /\ Balanced(m))

(* n is m with data moved: the phase is the same, or the command is over.  *)
Follows(m, n) ==
  /\ n.chip.state = m.chip.state /\ n.chip.io = m.chip.io /\ n.log.skipped = m.log.skipped
  /\ n.phase \in {m.phase, "status"}

(* One step after another.                                                 *)
LEMMA FollowsTrans ==
  ASSUME NEW m, NEW n, NEW p, Follows(m, n), Follows(n, p)
  PROVE  Follows(m, p)
BY DEF Follows

(* What the phase says afterwards.                                         *)
LEMMA FollowsPhase ==
  ASSUME NEW m, NEW n, Follows(m, n)
  PROVE  /\ DataIn(n) => DataIn(m)
         /\ DataOut(n) => DataOut(m)
         /\ Connected(n) <=> Connected(m)
         /\ Skipped(n) <=> Skipped(m)
         /\ n.phase = "status" => ~DataIn(n) /\ ~DataOut(n)
BY DEF Follows, DataIn, DataOut, Connected, Skipped

(* One word less to count.                                                 *)
LEMMA CountDown ==
  ASSUME NEW m, Shaped(m), m.chip.counter \in Nat, m.chip.counter > 0,
         NEW n, n.chip = [m.chip EXCEPT !.counter = @ - 1]
  PROVE  /\ DOMAIN n.chip = Registers /\ n.chip.counter \in Nat
         /\ n.chip.state = m.chip.state /\ n.chip.io = m.chip.io
BY DEF Shaped, Registers

(* Fill: a word comes from the disk.                                       *)
LEMMA FillIn ==
  ASSUME NEW m, In(m), NEW n, n = Fill(m)
  PROVE  In(n) /\ Follows(m, n)
<1>1. CASE ~(~Full(m) /\ ESP_Send_Ready(m))
  <2>1. n = m
    BY <1>1, Zenon DEF Fill
  <2> QED
    BY <2>1 DEF Follows
<1>2. CASE ~Full(m) /\ ESP_Send_Ready(m)
  <2> DEFINE w == SentWord(m)
             p == [m EXCEPT !.chip.counter = @ - 1, !.dma.filled = @ + 1,
                            !.dma.buf = Append(@, w)]
             dma2 == WithWord(m.dma, w)
  <2>1. n = SCSIdisk_Send_Data(p)
    BY <1>2, Zenon DEF Fill, ESP_Send_Data
  <2>2. w = At(m.disk) + 1
    BY DEF SentWord, At
  <2>3. /\ Shaped(m) /\ m.chip.counter \in Nat /\ DiskOK(m.disk) /\ DmaOK(m.dma) /\ LogOK(m.log)
        /\ m.chip.state \in {"disconnected", "initiator"}
    BY DEF In, Typed
  <2>4. DataIn(m) /\ m.chip.counter > 0 /\ m.dma.filled < DMA_BURST_SIZE /\ Connected(m)
    <3>1. DataIn(m) /\ m.chip.counter > 0 /\ Connected(m)
      BY <1>2 DEF ESP_Send_Ready, DataIn, In
    <3>2. m.dma.filled # DMA_BURST_SIZE
      BY <1>2 DEF Full
    <3>3. m.dma.filled \in 0 .. DMA_BURST_SIZE /\ DMA_BURST_SIZE \in Nat
      BY <2>3, EspAssumption DEF DmaOK
    <3> QED
      BY <3>1, <3>2, <3>3
  <2>5. InPlace(m.disk)
    BY <2>4 DEF In, Positioned
  <2> HIDE DEF w
  <2>6. /\ DOMAIN p = Parts /\ p.chip = [m.chip EXCEPT !.counter = @ - 1]
        /\ p.dma = dma2 /\ p.disk = m.disk /\ p.log = m.log /\ p.phase = m.phase
    BY <2>3 DEF Shaped, Parts, WithWord
  <2> HIDE DEF p
  <2>7. /\ DOMAIN p.chip = Registers /\ p.chip.counter \in Nat
        /\ p.chip.state = m.chip.state /\ p.chip.io = m.chip.io
    BY <2>3, <2>4, <2>6, CountDown
  <2>8. Shaped(p)
    BY <2>6, <2>7 DEF Shaped
  <2>9. /\ Rest(p, n) /\ n.dma = p.dma /\ n.log = p.log /\ DiskOK(n.disk)
        /\ n.disk.data = p.disk.data /\ At(p.disk) \in Nat
        /\ \/ n.phase = "status"
           \/ n.phase = p.phase /\ InPlace(n.disk) /\ At(n.disk) = At(p.disk) + 1
    BY <2>1, <2>3, <2>5, <2>6, <2>8, SendWord
  <2>10. w \in Int
    BY <2>2, <2>6, <2>9
  <2>11. /\ DmaOK(n.dma)
         /\ ToMemory(m.dma, m.log) /\ w = Reached(m.dma, m.log) + 1 =>
              ToMemory(n.dma, m.log) /\ Reached(n.dma, m.log) = w
    BY <2>3, <2>4, <2>6, <2>9, <2>10, PutWord
  <2>12. Follows(m, n)
    BY <2>6, <2>7, <2>9 DEF Follows, Rest
  <2>13. Typed(n)
    BY <2>3, <2>6, <2>7, <2>8, <2>9, <2>11 DEF Typed, Rest, Shaped
  <2>14. ~DataOut(n) /\ Connected(n) /\ (DataIn(n) => InPlace(n.disk) /\ At(n.disk) = w)
    <3>1. ~DataOut(m)
      BY <2>4 DEF DataIn, DataOut
    <3>2. DataIn(n) => n.phase # "status"
      BY DEF DataIn
    <3> QED
      BY <2>2, <2>4, <2>6, <2>9, <2>12, <3>1, <3>2, FollowsPhase
  <2>15. Skipped(n) \/ ReadOrder(n)
    <3>1. CASE Skipped(m)
      BY <2>12, <3>1, FollowsPhase
    <3>2. CASE ~Skipped(m)
      <4>1. ReadOrder(m)
        BY <2>4, <3>2 DEF In, WriteOrder
      <4>2. ToMemory(m.dma, m.log) /\ w = Reached(m.dma, m.log) + 1 /\ m.disk.data = <<>>
        BY <2>2, <2>4, <4>1 DEF ReadOrder
      <4> QED
        BY <2>6, <2>9, <2>11, <2>14, <4>2 DEF ReadOrder
    <3> QED
      BY <3>1, <3>2
  <2> QED
    BY <2>12, <2>13, <2>14, <2>15 DEF In, Positioned
<1> QED
  BY <1>1, <1>2

(* Words go from the burst buffer to memory.                               *)
LEMMA StoreIn ==
  ASSUME NEW m, In(m), NEW k \in 0 .. Len(m.dma.buf), k <= m.dma.left,
         NEW f \in 0 .. DMA_BURST_SIZE, Len(m.dma.buf) - k <= f,
         NEW n, DOMAIN n = Parts, n.chip = m.chip, n.disk = m.disk, n.phase = m.phase,
         n.dma = Without(m.dma, k, f), n.log = Received(m.log, m.dma, k)
  PROVE  In(n) /\ Follows(m, n)
<1> DEFINE dma2 == Without(m.dma, k, f)
           log2 == Received(m.log, m.dma, k)
<1>1. /\ Shaped(m) /\ DmaOK(m.dma) /\ LogOK(m.log)
  BY DEF In, Typed
<1>2. n.dma = dma2 /\ n.log = log2
  OBVIOUS
<1> HIDE DEF dma2, log2
<1>3. /\ DmaOK(dma2) /\ LogOK(log2) /\ log2.skipped = m.log.skipped
      /\ ToMemory(m.dma, m.log) =>
           ToMemory(dma2, log2) /\ Reached(dma2, log2) = Reached(m.dma, m.log)
      /\ \A s : ToDisk(s, m.dma, m.log) /\ m.dma.buf = <<>> =>
                  /\ ToDisk(s, dma2, log2) /\ dma2.buf = <<>>
                  /\ Stored(s, dma2, log2) = Stored(s, m.dma, m.log)
                  /\ log2.loaded = m.log.loaded /\ log2.base = m.log.base
                  /\ log2.platter = m.log.platter
  BY <1>1, StoreWords DEF dma2, log2
<1>4. Follows(m, n) /\ Typed(n)
  BY <1>2, <1>3 DEF Follows, In, Typed, Shaped
<1>5. /\ DataIn(n) <=> DataIn(m)
      /\ DataOut(n) <=> DataOut(m)
      /\ Connected(n) <=> Connected(m)
      /\ Skipped(n) <=> Skipped(m)
  BY <1>2, <1>3 DEF DataIn, DataOut, Connected, Skipped
<1>6. Positioned(n) /\ (DataIn(n) => Connected(n))
  BY <1>5 DEF In, Positioned
<1>7. ASSUME ReadOrder(m)
      PROVE  ReadOrder(n)
  BY <1>2, <1>3, <1>5, <1>7 DEF ReadOrder
<1>8. ASSUME WriteOrder(m), m.dma.buf = <<>>
      PROVE  WriteOrder(n) /\ n.dma.buf = <<>>
  BY <1>2, <1>3, <1>5, <1>8 DEF WriteOrder, Balanced
<1> QED
  BY <1>4, <1>5, <1>6, <1>7, <1>8 DEF In

(* Emptied: as many of them as memory takes.                               *)
LEMMA EmptyIn ==
  ASSUME NEW m, In(m), NEW n, n = Emptied(m)
  PROVE  In(n) /\ Follows(m, n)
<1> DEFINE k == IF m.dma.left < Len(m.dma.buf) THEN m.dma.left ELSE Len(m.dma.buf)
           f == IF k = Len(m.dma.buf) THEN 0 ELSE m.dma.filled
<1>1. Shaped(m) /\ DmaOK(m.dma) /\ LogOK(m.log)
  BY DEF In, Typed
<1>2. n = [m EXCEPT !.log.memory = @ \o SubSeq(m.dma.buf, 1, k), !.dma.left = @ - k,
                    !.dma.buf = SubSeq(@, k + 1, Len(@)), !.dma.filled = f]
  BY Zenon DEF Emptied
<1>3. /\ m.dma.left \in Nat /\ Len(m.dma.buf) \in Nat /\ m.dma.filled \in 0 .. DMA_BURST_SIZE
      /\ Len(m.dma.buf) <= m.dma.filled /\ DMA_BURST_SIZE \in Nat
  BY <1>1, EspAssumption DEF DmaOK
<1>4. k \in 0 .. Len(m.dma.buf) /\ k <= m.dma.left
  BY <1>3
<1>5. f \in 0 .. DMA_BURST_SIZE /\ Len(m.dma.buf) - k <= f
  <2> HIDE DEF k
  <2> QED
    BY <1>3, <1>4
<1> HIDE DEF k, f
<1>6. /\ DOMAIN n = Parts /\ n.chip = m.chip /\ n.disk = m.disk /\ n.phase = m.phase
      /\ n.dma = Without(m.dma, k, f) /\ n.log = Received(m.log, m.dma, k)
  BY <1>1, <1>2 DEF Shaped, Parts, Without, Received
<1> QED
  BY <1>4, <1>5, <1>6, StoreIn

(* Fetched: words come from memory.                                        *)
LEMMA FetchOut ==
  ASSUME NEW m, Out(m), NEW n, n = Fetched(m)
  PROVE  Out(n) /\ Follows(m, n)
<1> DEFINE room == DMA_BURST_SIZE - m.dma.filled
           k == IF m.dma.left < room THEN m.dma.left ELSE room
           dma2 == WithWords(m.dma, m.log, k)
           log2 == Given(m.log, k)
<1>1. /\ Shaped(m) /\ DmaOK(m.dma) /\ LogOK(m.log) /\ DiskOK(m.disk)
  BY DEF Out, Typed
<1>2. n = [m EXCEPT !.dma.buf = @ \o [i \in 1 .. k |-> m.log.loaded + i], !.dma.left = @ - k,
                    !.dma.filled = @ + k, !.log.loaded = @ + k]
  BY Zenon DEF Fetched
<1>3. /\ m.dma.left \in Nat /\ m.dma.filled \in 0 .. DMA_BURST_SIZE /\ DMA_BURST_SIZE \in Nat
  BY <1>1, EspAssumption DEF DmaOK
<1>4. k \in Nat /\ k <= m.dma.left /\ k <= DMA_BURST_SIZE - m.dma.filled
  BY <1>3
<1> HIDE DEF k
<1>5. /\ DOMAIN n = Parts /\ n.chip = m.chip /\ n.disk = m.disk /\ n.phase = m.phase
      /\ n.dma = dma2 /\ n.log = log2
  <2> DEFINE words == [i \in 1 .. k |-> m.log.loaded + i]
  <2>1. dma2 = [m.dma EXCEPT !.buf = @ \o words, !.left = @ - k, !.filled = @ + k]
    BY DEF WithWords
  <2>2. log2 = [m.log EXCEPT !.loaded = @ + k]
    BY DEF Given
  <2>3. n = [m EXCEPT !.dma.buf = @ \o words, !.dma.left = @ - k, !.dma.filled = @ + k,
                      !.log.loaded = @ + k]
    BY <1>2
  <2> HIDE DEF words, dma2, log2
  <2> QED
    BY <1>1, <2>1, <2>2, <2>3 DEF Shaped, Parts
<1> HIDE DEF dma2, log2
<1>6. /\ DmaOK(dma2) /\ LogOK(log2) /\ log2.skipped = m.log.skipped
      /\ log2.base = m.log.base /\ log2.platter = m.log.platter
      /\ \A s \in Seq(Int) : ToDisk(s, m.dma, m.log) /\ m.log.loaded = Stored(s, m.dma, m.log) =>
                               ToDisk(s, dma2, log2) /\ log2.loaded = Stored(s, dma2, log2)
  BY <1>1, <1>4, FetchWords DEF dma2, log2
<1>7. Follows(m, n) /\ Typed(n)
  BY <1>5, <1>6 DEF Follows, Out, Typed, Shaped
<1>8. /\ DataIn(n) <=> DataIn(m)
      /\ DataOut(n) <=> DataOut(m)
      /\ Connected(n) <=> Connected(m)
      /\ Skipped(n) <=> Skipped(m)
  BY <1>5, <1>6 DEF DataIn, DataOut, Connected, Skipped
<1>9. Positioned(n) /\ (DataOut(n) => Connected(n))
  BY <1>5, <1>8 DEF Out, Positioned
<1>10. ASSUME WriteOrder(m), Balanced(m)
       PROVE  WriteOrder(n) /\ Balanced(n)
  <2>1. m.disk.data \in Seq(Int)
    BY <1>1 DEF DiskOK
  <2>2. ToDisk(n.disk.data, n.dma, n.log) /\ Balanced(n)
    BY <1>5, <1>6, <1>10, <2>1 DEF WriteOrder, Balanced
  <2>3. Stored(n.disk.data, n.dma, n.log) <= n.log.loaded
    <3>1. n.log.loaded \in Nat
      BY <1>7 DEF Typed, LogOK
    <3> QED
      BY <2>2, <3>1 DEF Balanced
  <2> QED
    BY <1>5, <1>6, <1>8, <1>10, <2>2, <2>3 DEF WriteOrder
<1> QED
  BY <1>7, <1>8, <1>9, <1>10 DEF Out

(* Give: a word goes to the disk.                                          *)
LEMMA GiveOut ==
  ASSUME NEW m, Out(m), NEW n, n = Give(m)
  PROVE  Out(n) /\ Follows(m, n)
<1>1. CASE ~(m.dma.buf # <<>> /\ m.chip.counter > 0 /\ m.phase = "data out")
  <2>1. n = m
    BY <1>1, Zenon DEF Give
  <2> QED
    BY <2>1 DEF Follows
<1>2. CASE m.dma.buf # <<>> /\ m.chip.counter > 0 /\ m.phase = "data out"
  <2> DEFINE w == Head(m.dma.buf)
             p == [Counted(m) EXCEPT !.dma.buf = Tail(@)]
             dma2 == WithoutHead(m.dma)
             t == Append(m.disk.data, w)
  <2>1. n = SCSIdisk_Receive_Data(p, w)
    BY <1>2, Zenon DEF Give
  <2>2. /\ Shaped(m) /\ m.chip.counter \in Nat /\ DiskOK(m.disk) /\ DmaOK(m.dma) /\ LogOK(m.log)
        /\ m.chip.state \in {"disconnected", "initiator"}
    BY DEF Out, Typed
  <2>3. DataOut(m) /\ m.chip.counter > 0 /\ Connected(m) /\ m.dma.buf # <<>>
    BY <1>2 DEF DataOut, Out
  <2>4. Filling(m.disk)
    BY <2>3 DEF Out, Positioned
  <2>5. /\ DOMAIN p = Parts /\ p.chip = [m.chip EXCEPT !.counter = @ - 1]
        /\ p.dma = dma2 /\ p.disk = m.disk /\ p.log = m.log /\ p.phase = m.phase
    BY <2>2 DEF Shaped, Parts, WithoutHead, Counted
  <2> HIDE DEF p, dma2, w
  <2>6. /\ DOMAIN p.chip = Registers /\ p.chip.counter \in Nat
        /\ p.chip.state = m.chip.state /\ p.chip.io = m.chip.io
    BY <2>2, <2>3, <2>5, CountDown
  <2>7. Shaped(p)
    BY <2>5, <2>6 DEF Shaped
  <2>8. /\ DmaOK(dma2) /\ w \in Int
        /\ ToDisk(m.disk.data, m.dma, m.log) =>
             /\ ToDisk(t, dma2, m.log)
             /\ Stored(t, dma2, m.log) = Stored(m.disk.data, m.dma, m.log)
    <3>1. m.disk.data \in Seq(Int)
      BY <2>2 DEF DiskOK
    <3> QED
      BY <2>2, <2>3, <3>1, TakeWord DEF dma2, w
  <2>9. /\ Rest(p, n) /\ n.dma = p.dma /\ DiskOK(n.disk) /\ LogOK(n.log)
        /\ n.log.skipped = p.log.skipped /\ n.log.loaded = p.log.loaded
        /\ n.log.base = p.log.base
        /\ n.phase = "status" \/ (n.phase = p.phase /\ Filling(n.disk))
        /\ ToDisk(Append(p.disk.data, w), p.dma, p.log)
           /\ Offset(p.disk.lba) = p.log.base + Len(p.log.platter) =>
             /\ ToDisk(n.disk.data, p.dma, n.log)
             /\ Stored(n.disk.data, p.dma, n.log) = Stored(Append(p.disk.data, w), p.dma, p.log)
             /\ n.phase # "status" => Offset(n.disk.lba) = n.log.base + Len(n.log.platter)
    BY <2>1, <2>2, <2>4, <2>5, <2>7, <2>8, ReceiveWord
  <2>10. Follows(m, n)
    BY <2>5, <2>6, <2>9 DEF Follows, Rest
  <2>11. Typed(n)
    BY <2>2, <2>5, <2>6, <2>7, <2>8, <2>9 DEF Typed, Rest, Shaped
  <2>12. ~DataIn(n) /\ Connected(n) /\ (DataOut(n) => Filling(n.disk) /\ n.phase # "status")
    <3>1. ~DataIn(m)
      BY <2>3 DEF DataIn, DataOut
    <3>2. DataOut(n) => n.phase # "status"
      BY DEF DataOut
    <3> QED
      BY <2>3, <2>9, <2>10, <3>1, <3>2, FollowsPhase
  <2>13. Skipped(n) \/ (WriteOrder(n) /\ Balanced(n))
    <3>1. CASE Skipped(m)
      BY <2>10, <3>1, FollowsPhase
    <3>2. CASE ~Skipped(m)
      <4>1. WriteOrder(m) /\ Balanced(m)
        BY <3>2 DEF Out
      <4>2. /\ ToDisk(m.disk.data, m.dma, m.log)
            /\ Offset(m.disk.lba) = m.log.base + Len(m.log.platter)
        BY <2>3, <4>1 DEF WriteOrder
      <4>3. /\ ToDisk(n.disk.data, n.dma, n.log) /\ Balanced(n)
            /\ DataOut(n) => Offset(n.disk.lba) = n.log.base + Len(n.log.platter)
        BY <2>5, <2>8, <2>9, <2>12, <4>1, <4>2 DEF Balanced
      <4>4. Stored(n.disk.data, n.dma, n.log) <= n.log.loaded
        <5>1. n.log.loaded \in Nat
          BY <2>9 DEF LogOK
        <5> QED
          BY <4>3, <5>1 DEF Balanced
      <4> QED
        BY <2>12, <4>3, <4>4 DEF WriteOrder
    <3> QED
      BY <3>1, <3>2
  <2> QED
    BY <2>10, <2>11, <2>12, <2>13 DEF Out, Positioned
<1> QED
  BY <1>1, <1>2

(* Skip: a word from the disk is dropped.                                  *)
LEMMA SkipIn ==
  ASSUME NEW m, In(m), Skipped(m), m.chip.counter > 0, NEW n, n = Skip(m)
  PROVE  In(n) /\ Follows(m, n) /\ n.chip.counter + 1 >= m.chip.counter
<1>1. CASE m.phase # "data in"
  <2>1. n = m
    BY <1>1, Zenon DEF Skip
  <2>2. m.chip.counter \in Nat
    BY DEF In, Typed
  <2> QED
    BY <2>1, <2>2 DEF Follows
<1>2. CASE m.phase = "data in"
  <2> DEFINE p == Counted(m)
  <2>1. n = SCSIdisk_Send_Data(p)
    BY <1>2, Zenon DEF Skip
  <2>2. /\ Shaped(m) /\ m.chip.counter \in Nat /\ DiskOK(m.disk) /\ DmaOK(m.dma) /\ LogOK(m.log)
        /\ m.chip.state \in {"disconnected", "initiator"}
    BY DEF In, Typed
  <2>3. DataIn(m) /\ m.chip.counter > 0 /\ Connected(m)
    BY <1>2 DEF DataIn, In
  <2>4. InPlace(m.disk)
    BY <2>3 DEF In, Positioned
  <2>5. /\ DOMAIN p = Parts /\ p.chip = [m.chip EXCEPT !.counter = @ - 1]
        /\ p.dma = m.dma /\ p.disk = m.disk /\ p.log = m.log /\ p.phase = m.phase
    BY <2>2 DEF Shaped, Parts, Counted
  <2> HIDE DEF p
  <2>6. /\ DOMAIN p.chip = Registers /\ p.chip.counter \in Nat
        /\ p.chip.state = m.chip.state /\ p.chip.io = m.chip.io
    BY <2>2, <2>3, <2>5, CountDown
  <2>7. Shaped(p) /\ p.chip.counter + 1 >= m.chip.counter
    <3>1. p.chip.counter = m.chip.counter - 1
      BY <2>2, <2>5 DEF Shaped, Registers
    <3> QED
      BY <2>2, <2>5, <2>6, <3>1 DEF Shaped
  <2>8. /\ Rest(p, n) /\ n.dma = p.dma /\ n.log = p.log /\ DiskOK(n.disk)
        /\ \/ n.phase = "status"
           \/ n.phase = p.phase /\ InPlace(n.disk) /\ At(n.disk) = At(p.disk) + 1
    BY <2>1, <2>2, <2>4, <2>5, <2>7, SendWord
  <2>9. Follows(m, n)
    BY <2>5, <2>6, <2>8 DEF Follows, Rest
  <2>10. Typed(n) /\ n.chip.counter + 1 >= m.chip.counter
    BY <2>2, <2>5, <2>6, <2>7, <2>8 DEF Typed, Rest, Shaped
  <2>11. ~DataOut(n) /\ Connected(n) /\ Skipped(n) /\ (DataIn(n) => InPlace(n.disk))
    <3>1. ~DataOut(m)
      BY <2>3 DEF DataIn, DataOut
    <3>2. DataIn(n) => n.phase # "status"
      BY DEF DataIn
    <3> QED
      BY <2>3, <2>8, <2>9, <3>1, <3>2, FollowsPhase
  <2> QED
    BY <2>9, <2>10, <2>11 DEF In, Positioned
<1> QED
  BY <1>1, <1>2

(* Zero: a zero is given to the disk.                                      *)
LEMMA ZeroOut ==
  ASSUME NEW m, Out(m), Skipped(m), m.chip.counter > 0, NEW n, n = Zero(m)
  PROVE  Out(n) /\ Follows(m, n) /\ n.chip.counter + 1 >= m.chip.counter
<1>1. CASE m.phase # "data out"
  <2>1. n = m
    BY <1>1, Zenon DEF Zero
  <2>2. m.chip.counter \in Nat
    BY DEF Out, Typed
  <2> QED
    BY <2>1, <2>2 DEF Follows
<1>2. CASE m.phase = "data out"
  <2> DEFINE p == Counted(m)
  <2>1. n = SCSIdisk_Receive_Data(p, 0)
    BY <1>2, Zenon DEF Zero
  <2>2. /\ Shaped(m) /\ m.chip.counter \in Nat /\ DiskOK(m.disk) /\ DmaOK(m.dma) /\ LogOK(m.log)
        /\ m.chip.state \in {"disconnected", "initiator"} /\ 0 \in Int
    BY DEF Out, Typed
  <2>3. DataOut(m) /\ m.chip.counter > 0 /\ Connected(m)
    BY <1>2 DEF DataOut, Out
  <2>4. Filling(m.disk)
    BY <2>3 DEF Out, Positioned
  <2>5. /\ DOMAIN p = Parts /\ p.chip = [m.chip EXCEPT !.counter = @ - 1]
        /\ p.dma = m.dma /\ p.disk = m.disk /\ p.log = m.log /\ p.phase = m.phase
    BY <2>2 DEF Shaped, Parts, Counted
  <2> HIDE DEF p
  <2>6. /\ DOMAIN p.chip = Registers /\ p.chip.counter \in Nat
        /\ p.chip.state = m.chip.state /\ p.chip.io = m.chip.io
    BY <2>2, <2>3, <2>5, CountDown
  <2>7. Shaped(p) /\ p.chip.counter + 1 >= m.chip.counter
    <3>1. p.chip.counter = m.chip.counter - 1
      BY <2>2, <2>5 DEF Shaped, Registers
    <3> QED
      BY <2>2, <2>5, <2>6, <3>1 DEF Shaped
  <2>8. /\ Rest(p, n) /\ n.dma = p.dma /\ DiskOK(n.disk) /\ LogOK(n.log)
        /\ n.log.skipped = p.log.skipped
        /\ n.phase = "status" \/ (n.phase = p.phase /\ Filling(n.disk))
    BY <2>1, <2>2, <2>4, <2>5, <2>7, ReceiveWord
  <2>9. Follows(m, n)
    BY <2>5, <2>6, <2>8 DEF Follows, Rest
  <2>10. Typed(n) /\ n.chip.counter + 1 >= m.chip.counter
    BY <2>2, <2>5, <2>6, <2>7, <2>8 DEF Typed, Rest, Shaped
  <2>11. ~DataIn(n) /\ Connected(n) /\ Skipped(n) /\ (DataOut(n) => Filling(n.disk))
    <3>1. ~DataIn(m)
      BY <2>3 DEF DataIn, DataOut
    <3>2. DataOut(n) => n.phase # "status"
      BY DEF DataOut
    <3> QED
      BY <2>3, <2>8, <2>9, <3>1, <3>2, FollowsPhase
  <2> QED
    BY <2>9, <2>10, <2>11 DEF Out, Positioned
<1> QED
  BY <1>1, <1>2

-----------------------------------------------------------------------------
(* Rounds of a transfer.  What a round keeps, any number of them keeps:    *)
(* by induction over the rounds, which the library's principle for         *)
(* well-founded relations gives.                                           *)

(* Induction over the numbers, for a set of them.                          *)
LEMMA NatInduct ==
  ASSUME NEW T, 0 \in T, \A k \in Nat : k \in T => k + 1 \in T
  PROVE  Nat \subseteq T
<1> DEFINE R == {ss \in Nat \X Nat : ss[1] < ss[2]}
           Others == Nat \ T
<1>1. IsWellFoundedOn(R, Nat)
  BY NatLessThanWellFounded DEF OpToRel
<1>2. SUFFICES ASSUME Others # {} PROVE FALSE
  OBVIOUS
<1>3. PICK x \in Others : \A y \in Others : <<y, x>> \notin R
  <2>1. Others \subseteq Nat
    OBVIOUS
  <2> HIDE DEF R, Others
  <2> QED
    BY <1>1, <1>2, <2>1, WFMin
<1>4. x \in Nat /\ x # 0 /\ x - 1 \in Nat /\ (x - 1) + 1 = x
  BY <1>3
<1>5. x - 1 \notin Others
  <2>1. <<x - 1, x>> \in R
    BY <1>4
  <2> QED
    BY <1>3, <2>1
<1> QED
  BY <1>3, <1>4, <1>5

(* One round of a loop, by the name of its body.                           *)
Round(b, s) ==
  CASE b = "skip" -> Skip(s) [] b = "zero" -> Zero(s)
    [] b = "fill" -> Fill(s) [] b = "write" -> WriteRound(s)
    [] b = "give" -> Give(s) [] b = "read" -> ReadRound(s)

AfterRounds(b, m, n, f) == f = [k \in 0 .. n |-> IF k = 0 THEN m ELSE Round(b, f[k - 1])]

(* The states after each round exist.                                      *)
LEMMA RoundsExist ==
  ASSUME NEW b, NEW m, NEW n \in Nat
  PROVE  \E f : AfterRounds(b, m, n, f)
<1> DEFINE T == {j \in Nat : \E f : AfterRounds(b, m, j, f)}
<1>1. 0 \in T
  <2> DEFINE f == [k \in 0 .. 0 |-> m]
  <2>1. AfterRounds(b, m, 0, f)
    BY DEF AfterRounds
  <2> QED
    BY <2>1
<1>2. ASSUME NEW j \in Nat, j \in T PROVE j + 1 \in T
  <2>1. PICK f : AfterRounds(b, m, j, f)
    BY <1>2
  <2> DEFINE g == [k \in 0 .. j + 1 |-> IF k = j + 1 THEN Round(b, f[j]) ELSE f[k]]
  <2>2. \A k \in 0 .. j + 1 : g[k] = IF k = 0 THEN m ELSE Round(b, g[k - 1])
    <3> TAKE k \in 0 .. j + 1
    <3>1. CASE k = j + 1
      BY <3>1
    <3>2. CASE k # j + 1
      <4>1. k \in 0 .. j /\ g[k] = f[k] /\ (k # 0 => g[k - 1] = f[k - 1])
        BY <3>2
      <4>2. f[k] = IF k = 0 THEN m ELSE Round(b, f[k - 1])
        BY <2>1, <4>1 DEF AfterRounds
      <4> QED
        BY <4>1, <4>2
    <3> QED
      BY <3>1, <3>2
  <2>3. g = [k \in 0 .. j + 1 |-> g[k]]
    OBVIOUS
  <2> HIDE DEF g
  <2>4. AfterRounds(b, m, j + 1, g)
    BY <2>2, <2>3 DEF AfterRounds
  <2>5. j + 1 \in Nat
    OBVIOUS
  <2> QED
    BY <2>4, <2>5
<1> HIDE DEF T
<1>3. n \in T
  BY <1>1, <1>2, NatInduct
<1> QED
  BY <1>3 DEF T

(* What holds before a loop and after each round of it: data was moved, in *)
(* order, and no round of padding counts further than by one.              *)
Loop(b, m, k, s) ==
  /\ Follows(m, s)
  /\ b \in {"skip", "fill", "write"} => In(s)
  /\ b \in {"zero", "give", "read"} => Out(s)
  /\ b \in {"skip", "zero"} => Skipped(s) /\ s.chip.counter + k >= m.chip.counter

(* What each round keeps, the loop keeps.                                  *)
LEMMA RoundsKeep ==
  ASSUME NEW b, NEW m, NEW n \in Nat, NEW f, AfterRounds(b, m, n, f), Loop(b, m, 0, m),
         \A k \in Nat : \A s : k < n /\ Loop(b, m, k, s) => Loop(b, m, k + 1, Round(b, s))
  PROVE  Loop(b, m, n, f[n])
<1> DEFINE T == {k \in Nat : k \in 0 .. n => Loop(b, m, k, f[k])}
<1>1. f[0] = m /\ \A k \in 0 .. n : k # 0 => f[k] = Round(b, f[k - 1])
  BY DEF AfterRounds
<1>2. 0 \in T
  BY <1>1
<1>3. ASSUME NEW k \in Nat, k \in T PROVE k + 1 \in T
  <2>1. CASE k + 1 \in 0 .. n
    <3>1. k \in 0 .. n /\ k < n /\ k + 1 # 0 /\ (k + 1) - 1 = k
      BY <2>1
    <3>2. Loop(b, m, k, f[k])
      BY <1>3, <3>1
    <3>3. f[k + 1] = Round(b, f[k])
      BY <1>1, <2>1, <3>1
    <3> QED
      BY <3>1, <3>2, <3>3
  <2> QED
    BY <2>1
<1> HIDE DEF T
<1>4. n \in T
  BY <1>2, <1>3, NatInduct
<1> QED
  BY <1>4 DEF T

(* The loops of the code are such rounds.                                  *)
LEMMA SkipRounds ==
  ASSUME NEW m, NEW n \in Nat
  PROVE  \E f : AfterRounds("skip", m, n, f) /\ Rounds(Skip, n, m) = Moved(m, f[n])
<1> DEFINE after == CHOOSE f : f = [k \in 0 .. n |-> IF k = 0 THEN m ELSE Skip(f[k - 1])]
<1>1. \A f : AfterRounds("skip", m, n, f)
             <=> f = [k \in 0 .. n |-> IF k = 0 THEN m ELSE Skip(f[k - 1])]
  BY DEF AfterRounds, Round
<1>2. AfterRounds("skip", m, n, after)
  BY <1>1, RoundsExist
<1>3. Rounds(Skip, n, m) = Moved(m, after[n])
  BY DEF Rounds
<1> HIDE DEF after
<1> QED
  BY <1>2, <1>3

(* The loop of zeros written for nothing.                                  *)
LEMMA ZeroRounds ==
  ASSUME NEW m, NEW n \in Nat
  PROVE  \E f : AfterRounds("zero", m, n, f) /\ Rounds(Zero, n, m) = Moved(m, f[n])
<1> DEFINE after == CHOOSE f : f = [k \in 0 .. n |-> IF k = 0 THEN m ELSE Zero(f[k - 1])]
<1>1. \A f : AfterRounds("zero", m, n, f)
             <=> f = [k \in 0 .. n |-> IF k = 0 THEN m ELSE Zero(f[k - 1])]
  BY DEF AfterRounds, Round
<1>2. AfterRounds("zero", m, n, after)
  BY <1>1, RoundsExist
<1>3. Rounds(Zero, n, m) = Moved(m, after[n])
  BY DEF Rounds
<1> HIDE DEF after
<1> QED
  BY <1>2, <1>3

(* The loop that fills the burst buffer.                                   *)
LEMMA FillRounds ==
  ASSUME NEW m, NEW n \in Nat
  PROVE  \E f : AfterRounds("fill", m, n, f) /\ Rounds(Fill, n, m) = Moved(m, f[n])
<1> DEFINE after == CHOOSE f : f = [k \in 0 .. n |-> IF k = 0 THEN m ELSE Fill(f[k - 1])]
<1>1. \A f : AfterRounds("fill", m, n, f)
             <=> f = [k \in 0 .. n |-> IF k = 0 THEN m ELSE Fill(f[k - 1])]
  BY DEF AfterRounds, Round
<1>2. AfterRounds("fill", m, n, after)
  BY <1>1, RoundsExist
<1>3. Rounds(Fill, n, m) = Moved(m, after[n])
  BY DEF Rounds
<1> HIDE DEF after
<1> QED
  BY <1>2, <1>3

(* The loop of dma_esp_write_memory.                                       *)
LEMMA WriteRounds ==
  ASSUME NEW m, NEW n \in Nat
  PROVE  \E f : AfterRounds("write", m, n, f) /\ Rounds(WriteRound, n, m) = Moved(m, f[n])
<1> DEFINE after == CHOOSE f : f = [k \in 0 .. n |-> IF k = 0 THEN m ELSE WriteRound(f[k - 1])]
<1>1. \A f : AfterRounds("write", m, n, f)
             <=> f = [k \in 0 .. n |-> IF k = 0 THEN m ELSE WriteRound(f[k - 1])]
  BY DEF AfterRounds, Round
<1>2. AfterRounds("write", m, n, after)
  BY <1>1, RoundsExist
<1>3. Rounds(WriteRound, n, m) = Moved(m, after[n])
  BY DEF Rounds
<1> HIDE DEF after
<1> QED
  BY <1>2, <1>3

(* The loop that gives the burst buffer to the device.                     *)
LEMMA GiveRounds ==
  ASSUME NEW m, NEW n \in Nat
  PROVE  \E f : AfterRounds("give", m, n, f) /\ Rounds(Give, n, m) = Moved(m, f[n])
<1> DEFINE after == CHOOSE f : f = [k \in 0 .. n |-> IF k = 0 THEN m ELSE Give(f[k - 1])]
<1>1. \A f : AfterRounds("give", m, n, f)
             <=> f = [k \in 0 .. n |-> IF k = 0 THEN m ELSE Give(f[k - 1])]
  BY DEF AfterRounds, Round
<1>2. AfterRounds("give", m, n, after)
  BY <1>1, RoundsExist
<1>3. Rounds(Give, n, m) = Moved(m, after[n])
  BY DEF Rounds
<1> HIDE DEF after
<1> QED
  BY <1>2, <1>3

(* The loop of dma_esp_read_memory.                                        *)
LEMMA ReadRounds ==
  ASSUME NEW m, NEW n \in Nat
  PROVE  \E f : AfterRounds("read", m, n, f) /\ Rounds(ReadRound, n, m) = Moved(m, f[n])
<1> DEFINE after == CHOOSE f : f = [k \in 0 .. n |-> IF k = 0 THEN m ELSE ReadRound(f[k - 1])]
<1>1. \A f : AfterRounds("read", m, n, f)
             <=> f = [k \in 0 .. n |-> IF k = 0 THEN m ELSE ReadRound(f[k - 1])]
  BY DEF AfterRounds, Round
<1>2. AfterRounds("read", m, n, after)
  BY <1>1, RoundsExist
<1>3. Rounds(ReadRound, n, m) = Moved(m, after[n])
  BY DEF Rounds
<1> HIDE DEF after
<1> QED
  BY <1>2, <1>3

(* What a loop moved, put into the machine.                                *)
LEMMA MovedIn ==
  ASSUME NEW m, Shaped(m), NEW r, Follows(m, r), In(r), NEW n, n = Moved(m, r)
  PROVE  In(n) /\ Follows(m, n) /\ n.chip.counter = r.chip.counter
<1>1. Shaped(r) /\ r.chip.counter \in Nat /\ r.chip.state = m.chip.state
  BY DEF In, Typed, Follows
<1>2. /\ DOMAIN n = Parts /\ n.chip = [m.chip EXCEPT !.counter = r.chip.counter]
      /\ n.phase = r.phase /\ n.disk = r.disk /\ n.dma = r.dma /\ n.log = r.log
  BY DEF Moved, Shaped, Parts
<1>3. /\ DOMAIN n.chip = Registers /\ n.chip.counter = r.chip.counter
      /\ n.chip.state = m.chip.state /\ n.chip.io = m.chip.io
  BY <1>2 DEF Shaped, Registers
<1>4. Follows(m, n)
  BY <1>2, <1>3 DEF Follows
<1>5. /\ DataIn(n) <=> DataIn(r)
      /\ DataOut(n) <=> DataOut(r)
      /\ Connected(n) <=> Connected(r)
      /\ Skipped(n) <=> Skipped(r)
  BY <1>1, <1>2, <1>3 DEF DataIn, DataOut, Connected, Skipped
<1>6. Typed(n)
  BY <1>1, <1>2, <1>3 DEF Typed, Shaped, In
<1>7. ReadOrder(r) => ReadOrder(n)
  BY <1>2, <1>5 DEF ReadOrder
<1>8. WriteOrder(r) => WriteOrder(n)
  BY <1>2, <1>5 DEF WriteOrder, Balanced
<1> QED
  BY <1>2, <1>3, <1>4, <1>5, <1>6, <1>7, <1>8 DEF In, Positioned

(* The same, of a transfer to the disk.                                    *)
LEMMA MovedOut ==
  ASSUME NEW m, Shaped(m), NEW r, Follows(m, r), Out(r), NEW n, n = Moved(m, r)
  PROVE  Out(n) /\ Follows(m, n) /\ n.chip.counter = r.chip.counter
<1>1. Shaped(r) /\ r.chip.counter \in Nat /\ r.chip.state = m.chip.state
  BY DEF Out, Typed, Follows
<1>2. /\ DOMAIN n = Parts /\ n.chip = [m.chip EXCEPT !.counter = r.chip.counter]
      /\ n.phase = r.phase /\ n.disk = r.disk /\ n.dma = r.dma /\ n.log = r.log
  BY DEF Moved, Shaped, Parts
<1>3. /\ DOMAIN n.chip = Registers /\ n.chip.counter = r.chip.counter
      /\ n.chip.state = m.chip.state /\ n.chip.io = m.chip.io
  BY <1>2 DEF Shaped, Registers
<1>4. Follows(m, n)
  BY <1>2, <1>3 DEF Follows
<1>5. /\ DataIn(n) <=> DataIn(r)
      /\ DataOut(n) <=> DataOut(r)
      /\ Connected(n) <=> Connected(r)
      /\ Skipped(n) <=> Skipped(r)
  BY <1>1, <1>2, <1>3 DEF DataIn, DataOut, Connected, Skipped
<1>6. Typed(n)
  BY <1>1, <1>2, <1>3 DEF Typed, Shaped, Out
<1>7. WriteOrder(r) /\ Balanced(r) => WriteOrder(n) /\ Balanced(n)
  BY <1>2, <1>5 DEF WriteOrder, Balanced
<1> QED
  BY <1>2, <1>3, <1>4, <1>5, <1>6, <1>7 DEF Out, Positioned

(* A whole loop of each body.                                              *)
LEMMA FillLoop ==
  ASSUME NEW m, In(m), NEW n \in Nat
  PROVE  In(Rounds(Fill, n, m)) /\ Follows(m, Rounds(Fill, n, m))
<1>1. PICK f : AfterRounds("fill", m, n, f) /\ Rounds(Fill, n, m) = Moved(m, f[n])
  BY FillRounds
<1>2. Loop("fill", m, 0, m)
  BY DEF Loop, Follows
<1>3. ASSUME NEW k \in Nat, NEW s, k < n, Loop("fill", m, k, s)
      PROVE  Loop("fill", m, k + 1, Round("fill", s))
  <2>1. Round("fill", s) = Fill(s)
    BY DEF Round
  <2>2. In(s) /\ Follows(m, s)
    BY <1>3 DEF Loop
  <2>3. In(Fill(s)) /\ Follows(m, Fill(s))
    BY <2>2, FillIn, FollowsTrans
  <2> QED
    BY <2>1, <2>3 DEF Loop
<1>4. Loop("fill", m, n, f[n])
  BY <1>1, <1>2, <1>3, RoundsKeep
<1>5. Shaped(m) /\ In(f[n]) /\ Follows(m, f[n])
  BY <1>4 DEF Loop, In, Typed
<1> QED
  BY <1>1, <1>5, MovedIn

(* Words given to the device.                                              *)
LEMMA GiveLoop ==
  ASSUME NEW m, Out(m), NEW n \in Nat
  PROVE  Out(Rounds(Give, n, m)) /\ Follows(m, Rounds(Give, n, m))
<1>1. PICK f : AfterRounds("give", m, n, f) /\ Rounds(Give, n, m) = Moved(m, f[n])
  BY GiveRounds
<1>2. Loop("give", m, 0, m)
  BY DEF Loop, Follows
<1>3. ASSUME NEW k \in Nat, NEW s, k < n, Loop("give", m, k, s)
      PROVE  Loop("give", m, k + 1, Round("give", s))
  <2>1. Round("give", s) = Give(s)
    BY DEF Round
  <2>2. Out(s) /\ Follows(m, s)
    BY <1>3 DEF Loop
  <2>3. Out(Give(s)) /\ Follows(m, Give(s))
    BY <2>2, GiveOut, FollowsTrans
  <2> QED
    BY <2>1, <2>3 DEF Loop
<1>4. Loop("give", m, n, f[n])
  BY <1>1, <1>2, <1>3, RoundsKeep
<1>5. Shaped(m) /\ Out(f[n]) /\ Follows(m, f[n])
  BY <1>4 DEF Loop, Out, Typed
<1> QED
  BY <1>1, <1>5, MovedOut

(* Words skipped, as many as the counter says.                             *)
LEMMA SkipLoop ==
  ASSUME NEW m, In(m), Skipped(m)
  PROVE  /\ In(Rounds(Skip, m.chip.counter, m))
         /\ Follows(m, Rounds(Skip, m.chip.counter, m))
<1> DEFINE n == m.chip.counter
<1>1. n \in Nat /\ Shaped(m)
  BY DEF In, Typed
<1>2. PICK f : AfterRounds("skip", m, n, f) /\ Rounds(Skip, n, m) = Moved(m, f[n])
  BY <1>1, SkipRounds
<1>3. Loop("skip", m, 0, m)
  BY <1>1 DEF Loop, Follows
<1>4. ASSUME NEW k \in Nat, NEW s, k < n, Loop("skip", m, k, s)
      PROVE  Loop("skip", m, k + 1, Round("skip", s))
  <2>1. Round("skip", s) = Skip(s)
    BY DEF Round
  <2>2. In(s) /\ Follows(m, s) /\ Skipped(s) /\ s.chip.counter + k >= n
    BY <1>4 DEF Loop
  <2>3. s.chip.counter \in Nat /\ s.chip.counter > 0
    <3>1. s.chip.counter \in Nat
      BY <2>2 DEF In, Typed
    <3> HIDE DEF n
    <3> QED
      BY <1>1, <1>4, <2>2, <3>1
  <2>4. In(Skip(s)) /\ Follows(s, Skip(s)) /\ Skip(s).chip.counter + 1 >= s.chip.counter
    BY <2>2, <2>3, SkipIn
  <2>5. Follows(m, Skip(s)) /\ Skipped(Skip(s))
    BY <2>2, <2>4, FollowsTrans, FollowsPhase
  <2>6. Skip(s).chip.counter + (k + 1) >= n
    <3>1. Skip(s).chip.counter \in Nat
      BY <2>4 DEF In, Typed
    <3> HIDE DEF n
    <3> QED
      BY <1>1, <2>2, <2>3, <2>4, <3>1
  <2> QED
    BY <2>1, <2>4, <2>5, <2>6 DEF Loop
<1> HIDE DEF n
<1>5. Loop("skip", m, n, f[n])
  BY <1>1, <1>2, <1>3, <1>4, RoundsKeep
<1>6. In(f[n]) /\ Follows(m, f[n])
  BY <1>5 DEF Loop
<1> QED
  BY <1>1, <1>2, <1>6, MovedIn DEF n

(* Zeros written, as many as the counter says.                             *)
LEMMA ZeroLoop ==
  ASSUME NEW m, Out(m), Skipped(m)
  PROVE  /\ Out(Rounds(Zero, m.chip.counter, m))
         /\ Follows(m, Rounds(Zero, m.chip.counter, m))
<1> DEFINE n == m.chip.counter
<1>1. n \in Nat /\ Shaped(m)
  BY DEF Out, Typed
<1>2. PICK f : AfterRounds("zero", m, n, f) /\ Rounds(Zero, n, m) = Moved(m, f[n])
  BY <1>1, ZeroRounds
<1>3. Loop("zero", m, 0, m)
  BY <1>1 DEF Loop, Follows
<1>4. ASSUME NEW k \in Nat, NEW s, k < n, Loop("zero", m, k, s)
      PROVE  Loop("zero", m, k + 1, Round("zero", s))
  <2>1. Round("zero", s) = Zero(s)
    BY DEF Round
  <2>2. Out(s) /\ Follows(m, s) /\ Skipped(s) /\ s.chip.counter + k >= n
    BY <1>4 DEF Loop
  <2>3. s.chip.counter \in Nat /\ s.chip.counter > 0
    <3>1. s.chip.counter \in Nat
      BY <2>2 DEF Out, Typed
    <3> HIDE DEF n
    <3> QED
      BY <1>1, <1>4, <2>2, <3>1
  <2>4. Out(Zero(s)) /\ Follows(s, Zero(s)) /\ Zero(s).chip.counter + 1 >= s.chip.counter
    BY <2>2, <2>3, ZeroOut
  <2>5. Follows(m, Zero(s)) /\ Skipped(Zero(s))
    BY <2>2, <2>4, FollowsTrans, FollowsPhase
  <2>6. Zero(s).chip.counter + (k + 1) >= n
    <3>1. Zero(s).chip.counter \in Nat
      BY <2>4 DEF Out, Typed
    <3> HIDE DEF n
    <3> QED
      BY <1>1, <2>2, <2>3, <2>4, <3>1
  <2> QED
    BY <2>1, <2>4, <2>5, <2>6 DEF Loop
<1> HIDE DEF n
<1>5. Loop("zero", m, n, f[n])
  BY <1>1, <1>2, <1>3, <1>4, RoundsKeep
<1>6. Out(f[n]) /\ Follows(m, f[n])
  BY <1>5 DEF Loop
<1> QED
  BY <1>1, <1>2, <1>6, MovedOut DEF n

(* The channel changes but for the words in its buffer.                    *)
LEMMA ChannelSame ==
  ASSUME NEW m, NEW n, DOMAIN n = Parts, n.chip = m.chip, n.disk = m.disk, n.phase = m.phase,
         n.log = m.log, n.dma.buf = m.dma.buf, DmaOK(n.dma)
  PROVE  /\ In(m) => In(n) /\ Follows(m, n)
         /\ Out(m) => Out(n) /\ Follows(m, n)
         /\ ReadOrder(m) => ReadOrder(n)
         /\ WriteOrder(m) => WriteOrder(n)
         /\ Positioned(m) => Positioned(n)
         /\ Typed(m) => Typed(n)
<1>1. Follows(m, n)
  BY DEF Follows
<1>2. /\ DataIn(n) <=> DataIn(m)
      /\ DataOut(n) <=> DataOut(m)
      /\ Connected(n) <=> Connected(m)
      /\ Skipped(n) <=> Skipped(m)
  BY DEF DataIn, DataOut, Connected, Skipped
<1>3. Positioned(m) => Positioned(n)
  BY <1>2 DEF Positioned
<1>4. Typed(m) => Typed(n)
  BY DEF Typed, Shaped
<1>5. ToMemory(m.dma, m.log) => ToMemory(n.dma, n.log)
  BY DEF ToMemory
<1>6. Reached(n.dma, n.log) = Reached(m.dma, m.log)
  BY DEF Reached
<1>7. ToDisk(m.disk.data, m.dma, m.log) => ToDisk(n.disk.data, n.dma, n.log)
  BY DEF ToDisk
<1>8. Stored(n.disk.data, n.dma, n.log) = Stored(m.disk.data, m.dma, m.log)
  BY DEF Stored
<1>9. ReadOrder(m) => ReadOrder(n)
  BY <1>2, <1>5, <1>6 DEF ReadOrder
<1>10. Balanced(m) <=> Balanced(n)
  BY <1>8 DEF Balanced
<1>11. WriteOrder(m) => WriteOrder(n)
  BY <1>2, <1>7, <1>8, <1>10 DEF WriteOrder
<1> QED
  BY <1>1, <1>2, <1>3, <1>4, <1>9, <1>10, <1>11 DEF In, Out

(* A round of dma_esp_write_memory: the buffer is filled, and emptied.     *)
LEMMA WriteRoundIn ==
  ASSUME NEW m, In(m)
  PROVE  In(WriteRound(m)) /\ Follows(m, WriteRound(m))
<1> DEFINE filled == Rounds(Fill, DMA_BURST_SIZE, m)
<1>1. DMA_BURST_SIZE \in Nat
  BY EspAssumption
<1>2. In(filled) /\ Follows(m, filled)
  BY <1>1, FillLoop
<1>3. WriteRound(m) = IF Full(filled) THEN Emptied(filled) ELSE filled
  BY Zenon DEF WriteRound
<1> HIDE DEF filled
<1>4. In(Emptied(filled)) /\ Follows(m, Emptied(filled))
  BY <1>2, EmptyIn, FollowsTrans
<1> QED
  BY <1>2, <1>3, <1>4

(* A round of dma_esp_read_memory: words are fetched, a full buffer goes   *)
(* to the device.                                                          *)
LEMMA ReadRoundOut ==
  ASSUME NEW m, Out(m)
  PROVE  Out(ReadRound(m)) /\ Follows(m, ReadRound(m))
<1> DEFINE p == Fetched(m)
           given == IF Full(p) THEN Rounds(Give, DMA_BURST_SIZE, p) ELSE p
           free == [given EXCEPT !.dma.filled = 0]
<1>1. DMA_BURST_SIZE \in Nat
  BY EspAssumption
<1>2. Out(p) /\ Follows(m, p)
  BY FetchOut
<1>3. Out(Rounds(Give, DMA_BURST_SIZE, p)) /\ Follows(m, Rounds(Give, DMA_BURST_SIZE, p))
  <2> HIDE DEF p
  <2>1. /\ Out(Rounds(Give, DMA_BURST_SIZE, p))
        /\ Follows(p, Rounds(Give, DMA_BURST_SIZE, p))
    BY <1>1, <1>2, GiveLoop
  <2> QED
    BY <1>2, <2>1, FollowsTrans
<1>4. Out(given) /\ Follows(m, given)
  BY <1>2, <1>3
<1>5. ReadRound(m) = IF m.dma.left = 0 THEN m
                     ELSE IF Full(p) /\ given.dma.buf = <<>> THEN free ELSE given
  BY Zenon DEF ReadRound, Loaded
<1> HIDE DEF p, given
<1>6. ASSUME given.dma.buf = <<>> PROVE Out(free) /\ Follows(m, free)
  <2>1. Shaped(given) /\ DmaOK(given.dma)
    BY <1>4 DEF Out, Typed
  <2>2. /\ DOMAIN free = Parts /\ free.chip = given.chip /\ free.disk = given.disk
        /\ free.phase = given.phase /\ free.log = given.log
        /\ free.dma = [given.dma EXCEPT !.filled = 0]
    BY <2>1 DEF Shaped, Parts
  <2>3. /\ DOMAIN free.dma = DmaFields /\ free.dma.left = given.dma.left
        /\ free.dma.after = given.dma.after /\ free.dma.buf = given.dma.buf
        /\ free.dma.filled = 0
    BY <2>1, <2>2 DEF DmaOK, DmaFields
  <2>4. 0 \in 0 .. DMA_BURST_SIZE /\ Len(<<>>) <= 0
    BY <1>1
  <2>5. DmaOK(free.dma)
    BY <1>6, <2>1, <2>3, <2>4 DEF DmaOK
  <2> HIDE DEF free
  <2>6. Out(free) /\ Follows(given, free)
    BY <1>4, <2>2, <2>3, <2>5, ChannelSame
  <2> QED
    BY <1>4, <2>6, FollowsTrans
<1>7. Follows(m, m)
  BY DEF Follows
<1> QED
  BY <1>4, <1>5, <1>6, <1>7

(* The rounds of dma_esp_write_memory.                                     *)
LEMMA WriteLoop ==
  ASSUME NEW m, In(m), NEW n \in Nat
  PROVE  In(Rounds(WriteRound, n, m)) /\ Follows(m, Rounds(WriteRound, n, m))
<1>1. PICK f : AfterRounds("write", m, n, f) /\ Rounds(WriteRound, n, m) = Moved(m, f[n])
  BY WriteRounds
<1>2. Loop("write", m, 0, m)
  BY DEF Loop, Follows
<1>3. ASSUME NEW k \in Nat, NEW s, k < n, Loop("write", m, k, s)
      PROVE  Loop("write", m, k + 1, Round("write", s))
  <2>1. Round("write", s) = WriteRound(s)
    BY DEF Round
  <2>2. In(s) /\ Follows(m, s)
    BY <1>3 DEF Loop
  <2>3. In(WriteRound(s)) /\ Follows(m, WriteRound(s))
    BY <2>2, WriteRoundIn, FollowsTrans
  <2> QED
    BY <2>1, <2>3 DEF Loop
<1>4. Loop("write", m, n, f[n])
  BY <1>1, <1>2, <1>3, RoundsKeep
<1>5. Shaped(m) /\ In(f[n]) /\ Follows(m, f[n])
  BY <1>4 DEF Loop, In, Typed
<1> QED
  BY <1>1, <1>5, MovedIn

(* The rounds of dma_esp_read_memory.                                      *)
LEMMA ReadLoop ==
  ASSUME NEW m, Out(m), NEW n \in Nat
  PROVE  Out(Rounds(ReadRound, n, m)) /\ Follows(m, Rounds(ReadRound, n, m))
<1>1. PICK f : AfterRounds("read", m, n, f) /\ Rounds(ReadRound, n, m) = Moved(m, f[n])
  BY ReadRounds
<1>2. Loop("read", m, 0, m)
  BY DEF Loop, Follows
<1>3. ASSUME NEW k \in Nat, NEW s, k < n, Loop("read", m, k, s)
      PROVE  Loop("read", m, k + 1, Round("read", s))
  <2>1. Round("read", s) = ReadRound(s)
    BY DEF Round
  <2>2. Out(s) /\ Follows(m, s)
    BY <1>3 DEF Loop
  <2>3. Out(ReadRound(s)) /\ Follows(m, ReadRound(s))
    BY <2>2, ReadRoundOut, FollowsTrans
  <2> QED
    BY <2>1, <2>3 DEF Loop
<1>4. Loop("read", m, n, f[n])
  BY <1>1, <1>2, <1>3, RoundsKeep
<1>5. Shaped(m) /\ Out(f[n]) /\ Follows(m, f[n])
  BY <1>4 DEF Loop, Out, Typed
<1> QED
  BY <1>1, <1>5, MovedOut

(* dma_interrupt.                                                          *)
LEMMA ChannelEnds ==
  ASSUME NEW m, NEW n, n = dma_interrupt(m)
  PROVE  /\ In(m) => In(n) /\ Follows(m, n)
         /\ Out(m) => Out(n) /\ Follows(m, n)
<1>1. ASSUME Shaped(m), DmaOK(m.dma)
      PROVE  n = m \/ (/\ DOMAIN n = Parts /\ n.chip = m.chip /\ n.disk = m.disk
                       /\ n.phase = m.phase /\ n.log = m.log
                       /\ n.dma.buf = m.dma.buf /\ DmaOK(n.dma))
  <2> DEFINE c1 == [m.dma EXCEPT !.complete = TRUE, !.left = m.dma.after, !.supdate = FALSE]
             c2 == [m.dma EXCEPT !.complete = TRUE, !.enable = FALSE]
  <2>1. DmaOK(c1) /\ DmaOK(c2) /\ c1.buf = m.dma.buf /\ c2.buf = m.dma.buf
    BY <1>1 DEF DmaOK, DmaFields
  <2>2. \/ n = m
        \/ n = [m EXCEPT !.dma.complete = TRUE, !.dma.left = m.dma.after,
                         !.dma.supdate = FALSE]
        \/ n = [m EXCEPT !.dma.complete = TRUE, !.dma.enable = FALSE]
    BY Zenon DEF dma_interrupt
  <2>3. /\ n = [m EXCEPT !.dma.complete = TRUE, !.dma.left = m.dma.after,
                         !.dma.supdate = FALSE] => n = [m EXCEPT !.dma = c1]
        /\ n = [m EXCEPT !.dma.complete = TRUE, !.dma.enable = FALSE]
              => n = [m EXCEPT !.dma = c2]
    BY <1>1 DEF Shaped, Parts
  <2> HIDE DEF c1, c2
  <2> QED
    BY <1>1, <2>1, <2>2, <2>3 DEF Shaped, Parts
<1>2. In(m) \/ Out(m) => Shaped(m) /\ DmaOK(m.dma)
  BY DEF In, Out, Typed
<1>3. Follows(m, m)
  BY DEF Follows
<1> QED
  BY <1>1, <1>2, <1>3, ChannelSame

(* How many rounds there are.                                              *)
LEMMA RoundCount ==
  ASSUME NEW a \in Nat, NEW b \in Nat, b > 0
  PROVE  a \div b + 2 \in Nat
OBVIOUS

(* dma_esp_write_memory and dma_esp_read_memory.                           *)
LEMMA ToMemoryIn ==
  ASSUME NEW m, In(m)
  PROVE  In(dma_esp_write_memory(m)) /\ Follows(m, dma_esp_write_memory(m))
<1> DEFINE n == m.dma.left \div DMA_BURST_SIZE + 2
           r == Rounds(WriteRound, n, m)
<1>1. n \in Nat
  <2>1. m.dma.left \in Nat /\ DMA_BURST_SIZE \in Nat /\ DMA_BURST_SIZE > 0
    BY EspAssumption DEF In, Typed, DmaOK
  <2> QED
    BY <2>1, RoundCount
<1>2. dma_esp_write_memory(m) = IF ~m.dma.enable THEN m ELSE dma_interrupt(r)
  BY Zenon DEF dma_esp_write_memory
<1> HIDE DEF n
<1>3. In(r) /\ Follows(m, r)
  BY <1>1, WriteLoop
<1> HIDE DEF r
<1>4. In(dma_interrupt(r)) /\ Follows(r, dma_interrupt(r))
  BY <1>3, ChannelEnds
<1>5. Follows(m, m)
  BY DEF Follows
<1> QED
  BY <1>2, <1>3, <1>4, <1>5, FollowsTrans

(* dma_esp_read_memory.                                                    *)
LEMMA ToDeviceOut ==
  ASSUME NEW m, Out(m)
  PROVE  Out(dma_esp_read_memory(m)) /\ Follows(m, dma_esp_read_memory(m))
<1> DEFINE n == m.dma.left \div DMA_BURST_SIZE + 2
           r == Rounds(ReadRound, n, m)
<1>1. n \in Nat
  <2>1. m.dma.left \in Nat /\ DMA_BURST_SIZE \in Nat /\ DMA_BURST_SIZE > 0
    BY EspAssumption DEF Out, Typed, DmaOK
  <2> QED
    BY <2>1, RoundCount
<1>2. dma_esp_read_memory(m) = IF ~m.dma.enable THEN m ELSE dma_interrupt(r)
  BY Zenon DEF dma_esp_read_memory
<1> HIDE DEF n
<1>3. Out(r) /\ Follows(m, r)
  BY <1>1, ReadLoop
<1> HIDE DEF r
<1>4. Out(dma_interrupt(r)) /\ Follows(r, dma_interrupt(r))
  BY <1>3, ChannelEnds
<1>5. Follows(m, m)
  BY DEF Follows
<1> QED
  BY <1>2, <1>3, <1>4, <1>5, FollowsTrans

(* The first word of a sequence, as a sequence.                            *)
LEMMA FirstWord ==
  ASSUME NEW s \in Seq(Int), s # <<>>, NEW t \in Seq(Int)
  PROVE  /\ Tail(s) = SubSeq(s, 1 + 1, Len(s))
         /\ Append(t, Head(s)) = t \o SubSeq(s, 1, 1)
<1>1. Len(s) \in Nat /\ Len(s) >= 1 /\ Head(s) = s[1]
  OBVIOUS
<1>2. SubSeq(s, 1, 1) \in Seq(Int) /\ Len(SubSeq(s, 1, 1)) = 1 /\ SubSeq(s, 1, 1)[1] = s[1]
  BY <1>1
<1>3. Append(t, Head(s)) = t \o SubSeq(s, 1, 1)
  <2> DEFINE one == SubSeq(s, 1, 1)
             p == Append(t, Head(s))
             q == t \o one
  <2>1. /\ p \in Seq(Int) /\ Len(p) = Len(t) + 1 /\ p[Len(t) + 1] = Head(s)
        /\ \A i \in 1 .. Len(t) : p[i] = t[i]
    BY <1>1
  <2>2. /\ q \in Seq(Int) /\ Len(q) = Len(t) + 1 /\ q[Len(t) + 1] = one[1]
        /\ \A i \in 1 .. Len(t) : q[i] = t[i]
    <3> HIDE DEF one
    <3> QED
      BY <1>2 DEF one
  <2> HIDE DEF p, q, one
  <2>3. \A i \in 1 .. Len(p) : p[i] = q[i]
    <3>1. \A i \in 1 .. Len(p) : i \in 1 .. Len(t) \/ i = Len(t) + 1
      BY <2>1
    <3> QED
      BY <1>1, <1>2, <2>1, <2>2, <3>1 DEF one
  <2>4. p = q
    BY <2>1, <2>2, <2>3, SeqEqual
  <2> QED
    BY <2>4 DEF p, q, one
<1> QED
  BY <1>1, <1>3

(* dma_esp_flush_buffer, while there are words to flush.                   *)
LEMMA FlushIn ==
  ASSUME NEW m, In(m), m.dma.buf # <<>>
  PROVE  In(dma_esp_flush_buffer(m)) /\ Follows(m, dma_esp_flush_buffer(m))
<1> DEFINE f == IF Len(m.dma.buf) = 1 THEN 0 ELSE m.dma.filled
           p == [m EXCEPT !.log.memory = Append(@, Head(m.dma.buf)), !.dma.left = @ - 1,
                          !.dma.buf = Tail(@), !.dma.filled = f]
<1>1. Shaped(m) /\ DmaOK(m.dma) /\ LogOK(m.log)
  BY DEF In, Typed
<1>2. dma_esp_flush_buffer(m) = IF ~m.dma.enable THEN m
                                ELSE IF m.dma.left = 0 THEN dma_interrupt(m)
                                ELSE dma_interrupt(p)
  BY Zenon DEF dma_esp_flush_buffer
<1>3. /\ m.dma.left \in Nat /\ m.dma.buf \in Seq(Int) /\ m.dma.filled \in 0 .. DMA_BURST_SIZE
      /\ Len(m.dma.buf) <= m.dma.filled /\ DMA_BURST_SIZE \in Nat /\ m.log.memory \in Seq(Int)
  BY <1>1, EspAssumption DEF DmaOK, LogOK
<1>4. ASSUME m.dma.left # 0
      PROVE  In(p) /\ Follows(m, p)
  <2>1. 1 \in 0 .. Len(m.dma.buf) /\ 1 <= m.dma.left
    BY <1>3, <1>4
  <2>2. f \in 0 .. DMA_BURST_SIZE /\ Len(m.dma.buf) - 1 <= f
    <3>1. CASE Len(m.dma.buf) = 1
      BY <1>3, <3>1
    <3>2. CASE Len(m.dma.buf) # 1
      BY <1>3, <2>1, <3>2
    <3> QED
      BY <3>1, <3>2
  <2>3. /\ Tail(m.dma.buf) = SubSeq(m.dma.buf, 1 + 1, Len(m.dma.buf))
        /\ Append(m.log.memory, Head(m.dma.buf)) = m.log.memory \o SubSeq(m.dma.buf, 1, 1)
    BY <1>3, FirstWord
  <2> HIDE DEF f
  <2>4. /\ DOMAIN p = Parts /\ p.chip = m.chip /\ p.disk = m.disk /\ p.phase = m.phase
        /\ p.dma = [m.dma EXCEPT !.left = @ - 1, !.buf = Tail(@), !.filled = f]
        /\ p.log = [m.log EXCEPT !.memory = Append(@, Head(m.dma.buf))]
    BY <1>1 DEF Shaped, Parts
  <2>5. p.dma = Without(m.dma, 1, f) /\ p.log = Received(m.log, m.dma, 1)
    BY <2>3, <2>4 DEF Without, Received
  <2> HIDE DEF p
  <2> QED
    BY <2>1, <2>2, <2>4, <2>5, StoreIn
<1>5. Follows(m, m) /\ In(dma_interrupt(m)) /\ Follows(m, dma_interrupt(m))
  BY ChannelEnds DEF Follows
<1>6. ASSUME m.dma.left # 0
      PROVE  In(dma_interrupt(p)) /\ Follows(m, dma_interrupt(p))
  <2> HIDE DEF p
  <2> QED
    BY <1>4, <1>6, ChannelEnds, FollowsTrans
<1> QED
  BY <1>2, <1>5, <1>6

-----------------------------------------------------------------------------
(* The controller.  Data stays in order whatever a command does to the     *)
(* chip, so long as no transfer comes into being that was not there.       *)

Ordered(m) ==
  \/ Skipped(m) \/ ReadOrder(m)
  \/ WriteOrder(m) /\ (m.chip.io = "flushing" => m.dma.buf = <<>>)

Held(m) == Typed(m) /\ Positioned(m) /\ Ordered(m)

Quiet(m, n) ==
  /\ Shaped(n) /\ n.chip.counter \in Nat /\ n.chip.state \in {"disconnected", "initiator"}
  /\ n.disk = m.disk /\ n.dma = m.dma /\ n.log = m.log
  /\ DataIn(n) => DataIn(m) /\ (Connected(n) => Connected(m))
  /\ DataOut(n) /\ Connected(n) => DataOut(m) /\ Connected(m)
  /\ n.chip.io = "flushing" => m.chip.io = "flushing"

(* What moves no data keeps it in order.                                   *)
LEMMA QuietHeld ==
  ASSUME NEW m, Held(m), NEW n, Quiet(m, n)
  PROVE  Held(n)
<1>1. Skipped(n) <=> Skipped(m)
  BY DEF Quiet, Skipped
<1>2. Typed(n)
  BY DEF Quiet, Held, Typed
<1>3. Positioned(n)
  BY DEF Quiet, Held, Positioned
<1>4. ReadOrder(m) => ReadOrder(n)
  BY DEF Quiet, ReadOrder
<1>5. WriteOrder(m) => WriteOrder(n)
  BY DEF Quiet, WriteOrder, Balanced
<1>6. n.chip.io = "flushing" /\ (m.chip.io = "flushing" => m.dma.buf = <<>>) => n.dma.buf = <<>>
  BY DEF Quiet
<1> QED
  BY <1>1, <1>2, <1>3, <1>4, <1>5, <1>6 DEF Held, Ordered

(* The words in the burst buffer are thrown away: the controller is not    *)
(* connected, so nothing is missed.                                        *)
LEMMA DroppedHeld ==
  ASSUME NEW m, Held(m), NEW n, Shaped(n), n.chip.counter \in Nat,
         n.chip.state = "disconnected", DiskOK(n.disk), n.disk.data = m.disk.data, n.log = m.log,
         n.phase = m.phase, n.dma = Initialized(m.dma)
  PROVE  Held(n)
<1>1. /\ Skipped(n) <=> Skipped(m)
      /\ DataIn(n) <=> DataIn(m)
      /\ ~Connected(n)
  BY DEF Skipped, DataIn, Connected
<1>2. DmaOK(m.dma) /\ DiskOK(m.disk) /\ LogOK(m.log)
  BY DEF Held, Typed
<1>3. /\ DOMAIN n.dma = DmaFields /\ n.dma.left = m.dma.left /\ n.dma.after = m.dma.after
      /\ n.dma.filled = 0 /\ n.dma.buf = <<>>
  BY <1>2 DEF DmaOK, DmaFields, Initialized
<1>4. <<>> \in Seq(Int) /\ Len(<<>>) = 0 /\ 0 \in 0 .. DMA_BURST_SIZE
  BY EspAssumption
<1>5. DmaOK(n.dma)
  BY <1>2, <1>3, <1>4 DEF DmaOK
<1>6. Typed(n)
  BY <1>5 DEF Held, Typed
<1>7. Positioned(n)
  BY <1>1 DEF Held, Positioned
<1>8. \A b : From(<<>>, b)
  BY DEF From
<1>9. ASSUME ReadOrder(m)
      PROVE  ReadOrder(n)
  <2>1. ToMemory(n.dma, n.log)
    BY <1>3, <1>8, <1>9 DEF ReadOrder, ToMemory
  <2> QED
    BY <1>1, <1>9, <2>1 DEF ReadOrder
<1>10. ASSUME WriteOrder(m)
       PROVE  WriteOrder(n)
  <2>1. ToDisk(n.disk.data, n.dma, n.log)
    BY <1>3, <1>8, <1>10 DEF WriteOrder, ToDisk
  <2>2. Stored(m.disk.data, m.dma, m.log) <= m.log.loaded
    BY <1>10 DEF WriteOrder
  <2>3. /\ m.dma.buf \in Seq(Int) /\ m.disk.data \in Seq(Int) /\ m.log.platter \in Seq(Int \X Int)
        /\ m.log.loaded \in Nat
    BY <1>2 DEF DmaOK, DiskOK, LogOK
  <2>4. Len(m.dma.buf) \in Nat /\ Len(m.disk.data) \in Nat /\ Len(m.log.platter) \in Nat
    BY <2>3
  <2>5. \A x, y, z, l \in Nat : x + y + z <= l => x + y + 0 <= l
    OBVIOUS
  <2>6. Len(m.log.platter) + Len(m.disk.data) + 0 <= m.log.loaded
    BY <2>2, <2>3, <2>4, <2>5, Zenon DEF Stored
  <2>7. Stored(n.disk.data, n.dma, n.log) = Len(m.log.platter) + Len(m.disk.data) + 0
    BY <1>3, <1>4 DEF Stored
  <2>8. Stored(n.disk.data, n.dma, n.log) <= n.log.loaded
    BY <2>6, <2>7
  <2> QED
    BY <1>1, <1>10, <2>1, <2>8 DEF WriteOrder
<1> QED
  BY <1>1, <1>3, <1>6, <1>7, <1>9, <1>10 DEF Held, Ordered

(* A command of the disk starts anew: nothing is moved yet, and the disk   *)
(* is where the command said (SCSIdisk_Receive_Command).                   *)
Fresh(m, n) ==
  /\ Rest(m, n) /\ n.dma = m.dma /\ DiskOK(n.disk) /\ LogOK(n.log) /\ n.disk.data = <<>>
  /\ n.log.memory = <<>> /\ n.log.platter = <<>> /\ n.log.loaded = 0
  /\ \/ n.phase = "status"
     \/ n.phase = "data in" /\ InPlace(n.disk) /\ At(n.disk) = n.log.base
     \/ n.phase = "data out" /\ Filling(n.disk) /\ Offset(n.disk.lba) = n.log.base

(* Each command block the guest sends.                                     *)
LEMMA CommandFresh ==
  ASSUME NEW m, Shaped(m), DiskOK(m.disk), DmaOK(m.dma), LogOK(m.log), NEW cdb \in Cdbs,
         NEW n, n = SCSIdisk_Receive_Command(m, cdb)
  PROVE  Fresh(m, n)
<1> DEFINE base == IF cdb.op = "inquiry" THEN 0 ELSE Offset(cdb.lba)
           good == [m EXCEPT !.disk = Commanded(@, cdb),
                        !.log = [memory |-> <<>>, loaded |-> 0, platter |-> <<>>,
                                 base |-> base, skipped |-> FALSE]]
           Opened(p) == IF cdb.count = 0 THEN "status" ELSE p
           read == [good EXCEPT !.phase = Opened("data in")]
           write == [good EXCEPT !.disk.limit = BLOCK, !.phase = Opened("data out")]
           inquiry == [good EXCEPT !.disk.size = cdb.count, !.disk.limit = cdb.count,
                                   !.disk.disk = FALSE, !.phase = Opened("data in")]
           test == [good EXCEPT !.phase = "status"]
<1>1. cdb.op \in {"read", "write", "inquiry", "test"} /\ cdb.lba \in Nat /\ cdb.count \in Nat
  BY EspAssumption
<1>2. base \in Nat /\ (cdb.op # "inquiry" => base = Offset(cdb.lba))
      /\ (cdb.op = "inquiry" => base = 0) /\ Offset(cdb.lba) \in Nat
      /\ BLOCK \in Nat /\ BLOCK > 0
  BY <1>1, OffsetNext
<1> HIDE DEF base
<1>3. /\ <<>> \in Seq(Int) /\ <<>> \in Seq(Int \X Int) /\ Len(<<>>) = 0 /\ 0 \in Nat
  OBVIOUS
<1>4. /\ Shaped(good) /\ Rest(m, good) /\ good.dma = m.dma
      /\ DOMAIN good.log = LogFields /\ good.log.memory = <<>> /\ good.log.platter = <<>>
      /\ good.log.loaded = 0 /\ good.log.base = base
      /\ DOMAIN good.disk = DiskFields /\ good.disk.lba = cdb.lba
      /\ good.disk.blockcounter = cdb.count /\ good.disk.size = 0 /\ good.disk.data = <<>>
      /\ good.disk.from = 0 /\ good.disk.limit = m.disk.limit /\ MediaOK(good.disk.media)
  <2> DEFINE d == Commanded(m.disk, cdb)
             l == [memory |-> <<>>, loaded |-> 0, platter |-> <<>>, base |-> base,
                   skipped |-> FALSE]
  <2>1. good = [m EXCEPT !.disk = d, !.log = l]
    OBVIOUS
  <2>2. /\ DOMAIN d = DiskFields /\ d.lba = cdb.lba /\ d.blockcounter = cdb.count
        /\ d.size = 0 /\ d.data = <<>> /\ d.from = 0 /\ d.limit = m.disk.limit
        /\ d.media = [m.disk.media EXCEPT !.blocks = 0, !.lost = {}]
    BY DEF DiskOK, DiskFields, Commanded
  <2>5. MediaOK(d.media)
    <3>1. MediaOK(m.disk.media)
      BY DEF DiskOK
    <3> HIDE DEF d
    <3> QED
      BY <2>2, <3>1 DEF MediaOK, MediaFields
  <2>3. /\ DOMAIN l = LogFields /\ l.memory = <<>> /\ l.platter = <<>> /\ l.loaded = 0
        /\ l.base = base
    BY DEF LogFields
  <2> HIDE DEF d, l, good
  <2>4. /\ DOMAIN good = DOMAIN m /\ good.chip = m.chip /\ good.line = m.line
        /\ good.event = m.event /\ good.dma = m.dma /\ good.disk = d /\ good.log = l
    BY <2>1 DEF Shaped, Parts
  <2> QED
    BY <2>2, <2>3, <2>4, <2>5 DEF Shaped, Rest
<1>5. LogOK(good.log) /\ DiskOK(good.disk)
  <2>1. m.disk.limit \in Nat
    BY DEF DiskOK
  <2> QED
    BY <1>1, <1>2, <1>3, <1>4, <2>1 DEF DiskOK, LogOK
<1>6. n = CASE cdb.op = "read" -> scsi_read_sector(read)
            [] cdb.op = "write" ->
                 IF m.disk.media.readonly THEN CheckCondition(good) ELSE write
            [] cdb.op = "inquiry" -> inquiry
            [] cdb.op = "test" -> test
  BY Zenon DEF SCSIdisk_Receive_Command, base
<1> HIDE DEF good
<1>7. CASE cdb.op = "read"
  <2>1. n = scsi_read_sector(read)
    BY <1>6, <1>7, Zenon
  <2>2. /\ Shaped(read) /\ Rest(good, read) /\ read.dma = good.dma /\ read.disk = good.disk
        /\ read.log = good.log /\ read.phase = Opened("data in")
    BY <1>4 DEF Shaped, Parts, Rest
  <2>3. /\ Rest(read, n) /\ n.dma = read.dma /\ n.log = read.log /\ DiskOK(n.disk)
        /\ n.disk.data = read.disk.data
        /\ \/ n.phase = "status"
           \/ n.phase = read.phase /\ InPlace(n.disk) /\ At(n.disk) = Offset(read.disk.lba)
    <3> HIDE DEF read
    <3> QED
      BY <1>5, <2>1, <2>2, ReadSector
  <2> HIDE DEF read
  <2>4. Rest(m, n)
    BY <1>4, <2>2, <2>3 DEF Rest
  <2>5. read.phase \in {"status", "data in"}
    BY <2>2
  <2>6. Offset(read.disk.lba) = n.log.base
    BY <1>2, <1>4, <1>7, <2>2, <2>3
  <2> QED
    BY <1>4, <1>5, <2>2, <2>3, <2>4, <2>5, <2>6 DEF Fresh
<1>11. CASE cdb.op = "write" /\ m.disk.media.readonly
  <2>1. n = CheckCondition(good)
    BY <1>6, <1>11, Zenon
  <2>2. /\ Rest(good, n) /\ n.dma = good.dma /\ n.log = good.log /\ n.phase = "status"
        /\ n.disk = [good.disk EXCEPT !.status = "check"]
    BY <1>4, <2>1 DEF CheckCondition, Shaped, Parts, Rest
  <2>3. DiskOK(n.disk) /\ n.disk.data = <<>>
    BY <1>4, <1>5, <2>2 DEF DiskOK, DiskFields
  <2>4. Rest(m, n)
    BY <1>4, <2>2 DEF Rest
  <2> QED
    BY <1>4, <1>5, <2>2, <2>3, <2>4 DEF Fresh
<1>8. CASE cdb.op = "write" /\ ~m.disk.media.readonly
  <2>1. n = write
    BY <1>6, <1>8, Zenon
  <2>2. /\ Rest(good, n) /\ n.dma = good.dma /\ n.log = good.log /\ n.phase = Opened("data out")
        /\ n.disk = [good.disk EXCEPT !.limit = BLOCK]
    BY <1>4, <2>1 DEF Shaped, Parts, Rest
  <2>3. /\ DOMAIN n.disk = DiskFields /\ n.disk.lba = cdb.lba
        /\ n.disk.blockcounter = cdb.count /\ n.disk.size = 0 /\ n.disk.data = <<>>
        /\ n.disk.from = 0 /\ n.disk.limit = BLOCK /\ n.disk.media = good.disk.media
    BY <1>4, <2>2 DEF DiskFields
  <2>4. DiskOK(n.disk)
    BY <1>1, <1>2, <1>3, <1>4, <2>3 DEF DiskOK
  <2>5. cdb.count # 0 => Filling(n.disk)
    BY <1>1, <1>2, <1>3, <2>3 DEF Filling
  <2>6. Rest(m, n) /\ Offset(n.disk.lba) = n.log.base
    BY <1>2, <1>4, <1>8, <2>2, <2>3 DEF Rest
  <2>7. n.phase = "status" \/ (n.phase = "data out" /\ cdb.count # 0)
    BY <2>2
  <2> QED
    BY <1>4, <1>5, <2>2, <2>3, <2>4, <2>5, <2>6, <2>7 DEF Fresh
<1>9. CASE cdb.op = "inquiry"
  <2>1. n = inquiry
    BY <1>6, <1>9, Zenon
  <2>2. /\ Rest(good, n) /\ n.dma = good.dma /\ n.log = good.log /\ n.phase = Opened("data in")
        /\ n.disk = [good.disk EXCEPT !.size = cdb.count, !.limit = cdb.count, !.disk = FALSE]
    BY <1>4, <2>1 DEF Shaped, Parts, Rest
  <2>3. /\ DOMAIN n.disk = DiskFields /\ n.disk.lba = cdb.lba
        /\ n.disk.blockcounter = cdb.count /\ n.disk.size = cdb.count /\ n.disk.data = <<>>
        /\ n.disk.from = 0 /\ n.disk.limit = cdb.count /\ n.disk.disk = FALSE
        /\ n.disk.media = good.disk.media
    BY <1>4, <2>2 DEF DiskFields
  <2>4. DiskOK(n.disk)
    BY <1>1, <1>2, <1>3, <1>4, <2>3 DEF DiskOK
  <2>5. cdb.count # 0 => cdb.count \in 1 .. cdb.count
    BY <1>1
  <2>6. /\ cdb.count # 0 => InPlace(n.disk)
        /\ At(n.disk) = 0
    BY <1>1, <2>3, <2>5 DEF InPlace, At
  <2>7. Rest(m, n) /\ n.log.base = 0
    BY <1>2, <1>4, <1>9, <2>2 DEF Rest
  <2>8. n.phase = "status" \/ (n.phase = "data in" /\ cdb.count # 0)
    BY <2>2
  <2> QED
    BY <1>4, <1>5, <2>2, <2>3, <2>4, <2>6, <2>7, <2>8 DEF Fresh
<1>10. CASE cdb.op = "test"
  <2>1. n = test
    BY <1>6, <1>10, Zenon
  <2>2. /\ Rest(good, n) /\ n.dma = good.dma /\ n.log = good.log /\ n.phase = "status"
        /\ n.disk = good.disk
    BY <1>4, <2>1 DEF Shaped, Parts, Rest
  <2>3. Rest(m, n)
    BY <1>4, <2>2 DEF Rest
  <2> QED
    BY <1>4, <1>5, <2>2, <2>3 DEF Fresh
<1> QED
  BY <1>1, <1>7, <1>8, <1>9, <1>10, <1>11

(* Connected for a fresh command, with an empty burst buffer, the data is  *)
(* in order.                                                               *)
LEMMA FreshHeld ==
  ASSUME NEW m, NEW p, Fresh(m, p), DmaOK(m.dma), m.dma.buf = <<>>,
         NEW n, Shaped(n), n.chip.counter \in Nat, n.chip.state = "initiator",
         n.disk = p.disk, n.dma = p.dma, n.log = p.log, n.phase = p.phase
  PROVE  Held(n)
<1>1. /\ DiskOK(n.disk) /\ LogOK(n.log) /\ DmaOK(n.dma) /\ n.dma.buf = <<>>
      /\ n.disk.data = <<>> /\ n.log.memory = <<>> /\ n.log.platter = <<>> /\ n.log.loaded = 0
  BY DEF Fresh
<1>2. Typed(n)
  BY <1>1 DEF Typed
<1>3. Connected(n) /\ n.log.base \in Nat /\ Len(<<>>) = 0
  BY <1>1 DEF Connected, LogOK
<1>4. From(<<>>, n.log.base) /\ From(<<>>, n.log.base + 0) /\ From(<<>>, 0)
  BY DEF From
<1>5. ToMemory(n.dma, n.log) /\ Reached(n.dma, n.log) = n.log.base
  <2>1. From(<<>>, n.log.base + Len(<<>>))
    BY DEF From
  <2> QED
    BY <1>1, <1>3, <1>4, <2>1 DEF ToMemory, Reached
<1>6. ToDisk(n.disk.data, n.dma, n.log) /\ Stored(n.disk.data, n.dma, n.log) = 0
  <2>1. OnDisk(<<>>, n.log.base) /\ From(<<>>, Len(<<>>)) /\ From(<<>>, Len(<<>>) + Len(<<>>))
    BY DEF OnDisk, From
  <2> QED
    BY <1>1, <1>3, <2>1 DEF ToDisk, Stored
<1>7. CASE n.phase = "status"
  <2>1. ~DataIn(n) /\ ~DataOut(n)
    BY <1>7 DEF DataIn, DataOut
  <2> QED
    BY <1>1, <1>2, <1>5, <2>1 DEF Held, Positioned, Ordered, ReadOrder
<1>8. CASE n.phase = "data in" /\ InPlace(n.disk) /\ At(n.disk) = n.log.base
  <2>1. DataIn(n) /\ ~DataOut(n) /\ InPlace(n.disk) /\ At(n.disk) = n.log.base
    BY <1>8 DEF DataIn, DataOut
  <2> QED
    BY <1>1, <1>2, <1>5, <2>1 DEF Held, Positioned, Ordered, ReadOrder
<1>9. CASE n.phase = "data out" /\ Filling(n.disk) /\ Offset(n.disk.lba) = n.log.base
  <2>1. ~DataIn(n) /\ DataOut(n) /\ Filling(n.disk) /\ Offset(n.disk.lba) = n.log.base
    BY <1>9 DEF DataIn, DataOut
  <2>2. Balanced(n) /\ Stored(n.disk.data, n.dma, n.log) <= n.log.loaded
    BY <1>1, <1>6 DEF Balanced
  <2>3. n.log.base + Len(n.log.platter) = n.log.base
    BY <1>1, <1>3
  <2>4. WriteOrder(n)
    BY <1>6, <2>1, <2>2, <2>3 DEF WriteOrder
  <2> QED
    BY <1>1, <1>2, <2>1, <2>4 DEF Held, Positioned, Ordered
<1> QED
  BY <1>7, <1>8, <1>9 DEF Fresh

-----------------------------------------------------------------------------
(* What moves data leaves the rest of the chip alone. *)

Moving(m) == m.chip.io = "transfering" /\ "io" \in m.event
EmptyChannel(m) == m.dma.buf = <<>> /\ m.dma.filled = 0 /\ ~m.dma.enable

(* The chip's side: a transfer goes on only for a connected controller     *)
(* whose command is not over; an interrupt is either there or to come, and *)
(* only for a command in progress; a disk is selected with an empty burst  *)
(* buffer.                                                                 *)
Ctl(m) ==
  /\ Moving(m) => Connected(m) /\ m.chip.inprogress /\ ~m.chip.irq /\ "interrupt" \notin m.event
  /\ DataIn(m) /\ m.chip.io # "done" => Connected(m)
  /\ m.chip.irq => "interrupt" \notin m.event
  /\ m.chip.irq \/ "interrupt" \in m.event => m.chip.inprogress
  /\ m.chip.waiting /\ m.chip.next.op = "sel" => Connected(m) \/ EmptyChannel(m)

SameChip(m, n) ==
  /\ n.event = m.event /\ n.chip.state = m.chip.state /\ n.chip.io = m.chip.io
  /\ n.chip.next = m.chip.next /\ n.chip.waiting = m.chip.waiting
  /\ n.chip.inprogress = m.chip.inprogress /\ n.chip.irq = m.chip.irq

(* A loop of a transfer.                                                   *)
LEMMA MovedSameChip ==
  ASSUME NEW m, Shaped(m), NEW r
  PROVE  Shaped(Moved(m, r)) /\ SameChip(m, Moved(m, r))
BY DEF Shaped, Parts, Registers, Moved, SameChip

(* dma_interrupt.                                                          *)
LEMMA EndSameChip ==
  ASSUME NEW m, Shaped(m)
  PROVE  SameChip(m, dma_interrupt(m))
<1>1. dma_interrupt(m).chip = m.chip /\ dma_interrupt(m).event = m.event
  BY DEF Shaped, Parts, dma_interrupt
<1> QED
  BY <1>1 DEF SameChip

(* dma_esp_write_memory, dma_esp_read_memory and dma_esp_flush_buffer.     *)
LEMMA DmaSameChip ==
  ASSUME NEW m, Shaped(m)
  PROVE  /\ SameChip(m, dma_esp_write_memory(m))
         /\ SameChip(m, dma_esp_read_memory(m))
         /\ SameChip(m, dma_esp_flush_buffer(m))
<1>1. SameChip(m, m)
  BY DEF SameChip
<1>2. ASSUME NEW p, Shaped(p), SameChip(m, p)
      PROVE  SameChip(m, dma_interrupt(p))
  <2>1. SameChip(p, dma_interrupt(p))
    BY <1>2, EndSameChip
  <2> QED
    BY <1>2, <2>1 DEF SameChip
<1>3. ASSUME NEW r PROVE SameChip(m, dma_interrupt(Moved(m, r)))
  BY <1>2, MovedSameChip
<1>4. SameChip(m, dma_esp_write_memory(m))
  BY <1>1, <1>3, Zenon DEF dma_esp_write_memory, Rounds
<1>5. SameChip(m, dma_esp_read_memory(m))
  BY <1>1, <1>3, Zenon DEF dma_esp_read_memory, Rounds
<1>6. SameChip(m, dma_esp_flush_buffer(m))
  <2>1. ASSUME NEW a, NEW b, NEW c, NEW d
        PROVE  SameChip(m, dma_interrupt([m EXCEPT !.log.memory = a, !.dma.left = b,
                                                   !.dma.buf = c, !.dma.filled = d]))
    <3> DEFINE p == [m EXCEPT !.log.memory = a, !.dma.left = b, !.dma.buf = c, !.dma.filled = d]
    <3>1. Shaped(p) /\ p.chip = m.chip /\ p.event = m.event
      BY DEF Shaped, Parts
    <3> HIDE DEF p
    <3>2. SameChip(m, p)
      BY <3>1 DEF SameChip
    <3>3. SameChip(m, dma_interrupt(p))
      BY <1>2, <3>1, <3>2
    <3> QED
      BY <3>3 DEF p
  <2> QED
    BY <1>1, <1>2, <2>1 DEF dma_esp_flush_buffer
<1> QED
  BY <1>4, <1>5, <1>6

(* Only what is not data changes: n has m's data.                          *)
SameData(m, n) ==
  n.disk = m.disk /\ n.dma = m.dma /\ n.log = m.log /\ n.phase = m.phase

(* After a transfer to memory.                                             *)
LEMMA InHeld ==
  ASSUME NEW m, In(m), NEW n, Shaped(n), n.chip.counter \in Nat, n.chip.state = m.chip.state,
         SameData(m, n)
  PROVE  Held(n)
<1>1. Typed(n)
  BY DEF In, Typed, SameData
<1>2. /\ DataIn(n) <=> DataIn(m)
      /\ DataOut(n) <=> DataOut(m)
      /\ Connected(n) <=> Connected(m)
      /\ Skipped(n) <=> Skipped(m)
  BY DEF DataIn, DataOut, Connected, Skipped, SameData
<1>3. Positioned(n)
  BY <1>2 DEF In, Positioned, SameData
<1>4. ReadOrder(m) => ReadOrder(n)
  BY <1>2 DEF ReadOrder, SameData
<1>5. WriteOrder(m) => WriteOrder(n)
  BY <1>2 DEF WriteOrder, Balanced, SameData
<1>6. m.dma.buf = <<>> => n.dma.buf = <<>>
  BY DEF SameData
<1> QED
  BY <1>1, <1>2, <1>3, <1>4, <1>5, <1>6 DEF In, Held, Ordered

(* After a transfer to the disk.                                           *)
LEMMA OutHeld ==
  ASSUME NEW m, Out(m), NEW n, Shaped(n), n.chip.counter \in Nat, n.chip.state = m.chip.state,
         SameData(m, n), Skipped(m) \/ n.chip.io # "flushing"
  PROVE  Held(n)
<1>1. Typed(n)
  BY DEF Out, Typed, SameData
<1>2. /\ DataIn(n) <=> DataIn(m)
      /\ DataOut(n) <=> DataOut(m)
      /\ Connected(n) <=> Connected(m)
      /\ Skipped(n) <=> Skipped(m)
  BY DEF DataIn, DataOut, Connected, Skipped, SameData
<1>3. Positioned(n)
  BY <1>2 DEF Out, Positioned, SameData
<1>4. WriteOrder(m) => WriteOrder(n)
  BY <1>2 DEF WriteOrder, Balanced, SameData
<1> QED
  BY <1>1, <1>2, <1>3, <1>4 DEF Out, Held, Ordered

(* esp_command_clear.                                                      *)
LEMMA Cleared ==
  ASSUME NEW m, Shaped(m), NEW n, n = esp_command_clear(m)
  PROVE  /\ Shaped(n) /\ SameData(m, n) /\ n.event = m.event /\ n.line = m.line
         /\ n.chip.state = m.chip.state /\ n.chip.io = m.chip.io
         /\ n.chip.counter = m.chip.counter /\ n.chip.irq = m.chip.irq
         /\ n.chip.inprogress = m.chip.inprogress /\ n.chip.tc = m.chip.tc
         /\ n.chip.waiting => m.chip.waiting /\ n.chip.next = m.chip.next
         /\ m.chip.waiting /\ m.chip.next.op # "reset" => ~n.chip.waiting
BY DEF Shaped, Parts, Registers, esp_command_clear, SameData

(* esp_transfer_done: the transfer goes on, or its interrupt comes.        *)
Answered(m, p, n) ==
  /\ Shaped(n) /\ SameData(m, n)
  /\ n.chip.state = m.chip.state /\ n.chip.io = m.chip.io
  /\ n.chip.counter = m.chip.counter /\ n.chip.irq = m.chip.irq
  /\ n.chip.inprogress = m.chip.inprogress
  /\ n.chip.waiting => m.chip.waiting /\ n.chip.next = m.chip.next
  /\ Ended(m, p) => n.event = m.event \cup {"interrupt"}
  /\ ~Ended(m, p) => n.event = m.event

(* Each way it ends.                                                       *)
LEMMA TransferDone ==
  ASSUME NEW m, Shaped(m), NEW p, NEW n, n = esp_transfer_done(m, p)
  PROVE  Answered(m, p, n)
<1> DEFINE q == esp_command_clear(m)
           a == Soon([m EXCEPT !.chip.intstatus = {"bs"}, !.chip.tc = TRUE], "interrupt")
           b == Soon([q EXCEPT !.chip.intstatus = {"bs"}], "interrupt")
<1>1. /\ Shaped(a) /\ SameData(m, a) /\ a.event = m.event \cup {"interrupt"}
      /\ a.chip.state = m.chip.state /\ a.chip.io = m.chip.io
      /\ a.chip.counter = m.chip.counter /\ a.chip.irq = m.chip.irq
      /\ a.chip.inprogress = m.chip.inprogress
      /\ a.chip.waiting = m.chip.waiting /\ a.chip.next = m.chip.next
  BY DEF Shaped, Parts, Registers, Soon, SameData
<1>2. /\ Shaped(q) /\ SameData(m, q) /\ q.event = m.event
      /\ q.chip.state = m.chip.state /\ q.chip.io = m.chip.io
      /\ q.chip.counter = m.chip.counter /\ q.chip.irq = m.chip.irq
      /\ q.chip.inprogress = m.chip.inprogress
      /\ q.chip.waiting => m.chip.waiting /\ q.chip.next = m.chip.next
  BY Cleared
<1> HIDE DEF q
<1>3. /\ Shaped(b) /\ SameData(q, b) /\ b.event = q.event \cup {"interrupt"}
      /\ b.chip.state = q.chip.state /\ b.chip.io = q.chip.io
      /\ b.chip.counter = q.chip.counter /\ b.chip.irq = q.chip.irq
      /\ b.chip.inprogress = q.chip.inprogress
      /\ b.chip.waiting = q.chip.waiting /\ b.chip.next = q.chip.next
  BY <1>2 DEF Shaped, Parts, Registers, Soon, SameData
<1>4. /\ m.chip.counter = 0 => n = a
      /\ m.chip.counter # 0 /\ Ended(m, p) => n = b
      /\ ~Ended(m, p) => n = m
  BY Zenon DEF esp_transfer_done, q, Ended
<1>5. m.chip.counter = 0 => Ended(m, p)
  BY DEF Ended
<1>6. SameData(m, b) /\ SameData(m, m)
  BY <1>2, <1>3 DEF SameData
<1> HIDE DEF a, b
<1>7. CASE m.chip.counter = 0
  BY <1>1, <1>4, <1>5, <1>7 DEF Answered
<1>8. CASE m.chip.counter # 0 /\ Ended(m, p)
  BY <1>2, <1>3, <1>4, <1>6, <1>8 DEF Answered
<1>9. CASE ~Ended(m, p)
  BY <1>4, <1>6, <1>9 DEF Answered
<1> QED
  BY <1>7, <1>8, <1>9

-----------------------------------------------------------------------------
(* The chip's commands. *)

Sound(m) == Held(m) /\ Ctl(m)

(* What a command other than a reset of the chip needs to start soundly.   *)
Ready(m) == ~m.chip.waiting /\ ~Moving(m) /\ (DataIn(m) /\ m.chip.io # "done" => Connected(m))

Fit(m, c) ==
  \/ c.op = "reset"
  \/ /\ ~m.chip.irq
     /\ c.op # "busreset" => "interrupt" \notin m.event
     /\ c.op \notin {"busreset", "busreset_quiet"} => Ready(m)
     /\ c.op = "sel" => Connected(m) \/ EmptyChannel(m)

(* An interrupt is on its way for a command that moved nothing.            *)
LEMMA AnswerSound ==
  ASSUME NEW m, Held(m), NEW n, Quiet(m, n), n.chip.io = m.chip.io,
         "interrupt" \in n.event, n.event \subseteq m.event \cup {"interrupt"},
         ~Moving(m), DataIn(n) /\ n.chip.io # "done" => Connected(n),
         ~n.chip.irq, n.chip.inprogress, ~n.chip.waiting
  PROVE  Sound(n)
<1>1. Held(n)
  BY QuietHeld
<1>2. ~Moving(n)
  BY DEF Moving
<1> QED
  BY <1>1, <1>2 DEF Sound, Ctl

(* esp_reset_hard, and as part of a reset of the machine.                  *)
LEMMA HardHeld ==
  ASSUME NEW m, Good(m), NEW n, n = esp_reset_hard(m)
  PROVE  /\ SameData(m, n) /\ Shaped(n) /\ n.chip.state = "disconnected" /\ n.chip.counter = 0
         /\ n.chip.io = "done" /\ Ctl(n)
<1> DEFINE a == set_interrupt([m EXCEPT !.chip.irq = FALSE, !.chip.intstatus = {}], FALSE)
           b == [a EXCEPT !.chip.tc = FALSE, !.chip.counter = 0,
                              !.chip.state = "disconnected", !.chip.io = "done",
                              !.event = @ \ {"io"}]
           c == esp_command_clear(b)
           soft == Idle(c)
           h == [soft EXCEPT !.event = @ \ {"interrupt"}, !.chip.waiting = FALSE,
                             !.chip.next = IF soft.chip.waiting THEN None ELSE @]
<1>1. Shaped(a) /\ SameData(m, a)
  BY DEF Good, Shaped, Parts, Registers, set_interrupt, SameData
<1> HIDE DEF a
<1>2. /\ Shaped(b) /\ SameData(a, b) /\ b.chip.counter = 0 /\ b.chip.state = "disconnected"
  BY <1>1 DEF Shaped, Parts, Registers, SameData
<1> HIDE DEF b
<1>3. /\ Shaped(c) /\ SameData(b, c) /\ c.chip.counter = 0 /\ c.chip.state = "disconnected"
  BY <1>2, Cleared
<1> HIDE DEF c
<1>4. /\ Shaped(soft) /\ SameData(c, soft) /\ soft.chip.counter = 0
      /\ soft.chip.state = "disconnected"
  BY <1>3 DEF Shaped, Parts, Registers, Idle, SameData
<1> HIDE DEF soft
<1>5. /\ Shaped(h) /\ SameData(soft, h) /\ h.chip.counter = 0 /\ h.chip.state = "disconnected"
  BY <1>4 DEF Shaped, Parts, Registers, SameData
<1>6. n = h
  BY Zenon DEF esp_reset_hard, esp_reset_soft, a, b, c, soft
<1> HIDE DEF h
<1>7. SameData(m, n)
  BY <1>1, <1>2, <1>3, <1>4, <1>5, <1>6 DEF SameData
<1>8. Clean(n)
  BY HardOK
<1>9. Ctl(n) /\ n.chip.io = "done"
  BY <1>8 DEF Clean, Ctl, Moving
<1> QED
  BY <1>5, <1>6, <1>7, <1>9

(* esp_reset_soft: the chip is disconnected, no transfer goes on.          *)
LEMMA SoftHeld ==
  ASSUME NEW m, Good(m), NEW n, n = esp_reset_soft(m)
  PROVE  /\ SameData(m, n) /\ Shaped(n) /\ n.chip.state = "disconnected" /\ n.chip.counter = 0
         /\ n.chip.io = "done" /\ n.chip.irq = m.chip.irq /\ n.event = m.event \ {"io"}
         /\ n.chip.inprogress = m.chip.inprogress
         /\ ~m.chip.waiting \/ m.chip.next.op # "reset" => ~n.chip.waiting
<1> DEFINE b == [m EXCEPT !.chip.tc = FALSE, !.chip.counter = 0,
                              !.chip.state = "disconnected", !.chip.io = "done",
                              !.event = @ \ {"io"}]
<1>1. /\ Shaped(b) /\ SameData(m, b) /\ b.chip.counter = 0 /\ b.chip.state = "disconnected"
      /\ b.chip.io = "done" /\ b.chip.irq = m.chip.irq /\ b.event = m.event \ {"io"}
      /\ b.chip.inprogress = m.chip.inprogress /\ b.chip.waiting = m.chip.waiting
      /\ b.chip.next = m.chip.next
  BY DEF Good, Shaped, Parts, Registers, SameData
<1>2. n = esp_command_clear(b)
  BY Zenon DEF esp_reset_soft
<1> HIDE DEF b
<1>3. /\ Shaped(n) /\ SameData(b, n) /\ n.event = b.event
      /\ n.chip.state = b.chip.state /\ n.chip.io = b.chip.io
      /\ n.chip.counter = b.chip.counter /\ n.chip.irq = b.chip.irq
      /\ n.chip.inprogress = b.chip.inprogress
      /\ n.chip.waiting => b.chip.waiting /\ n.chip.next = b.chip.next
      /\ b.chip.waiting /\ b.chip.next.op # "reset" => ~n.chip.waiting
  BY <1>1, <1>2, Cleared
<1>4. SameData(m, n)
  BY <1>1, <1>3 DEF SameData
<1> QED
  BY <1>1, <1>3, <1>4

(* The chip is disconnected and nothing is moved: the data is as before.   *)
LEMMA ResetQuiet ==
  ASSUME NEW m, NEW n, Shaped(n), n.chip.state = "disconnected", n.chip.counter = 0,
         n.chip.io = "done", n.disk = m.disk, n.dma = m.dma, n.log = m.log,
         DataIn(n) => DataIn(m)
  PROVE  Quiet(m, n)
<1>1. ~Connected(n)
  BY DEF Connected
<1> QED
  BY <1>1 DEF Quiet

(* esp_bus_reset.                                                          *)
LEMMA BusResetSound ==
  ASSUME NEW m, Good(m), Held(m), NEW quiet \in BOOLEAN, m.chip.inprogress, ~m.chip.irq,
         ~m.chip.waiting \/ m.chip.next.op # "reset", quiet => "interrupt" \notin m.event
  PROVE  Sound(esp_bus_reset(m, quiet))
<1> DEFINE soft == esp_reset_soft(m)
           n == Soon([soft EXCEPT !.chip.intstatus = {"rst"}, !.phase = "data out"], "interrupt")
           i == Idle(soft)
<1>1. /\ SameData(m, soft) /\ Shaped(soft) /\ soft.chip.state = "disconnected"
      /\ soft.chip.counter = 0 /\ soft.chip.io = "done" /\ ~soft.chip.irq
      /\ soft.event = m.event \ {"io"} /\ soft.chip.inprogress /\ ~soft.chip.waiting
  BY SoftHeld
<1>2. esp_bus_reset(m, quiet) = IF quiet THEN i ELSE n
  BY Zenon DEF esp_bus_reset
<1> HIDE DEF soft
<1>3. CASE quiet
  <2>1. /\ SameData(soft, i) /\ Shaped(i) /\ i.chip.state = "disconnected"
        /\ i.chip.counter = 0 /\ i.chip.io = "done" /\ ~i.chip.irq
        /\ "interrupt" \notin i.event /\ ~i.chip.waiting
    BY <1>1, <1>3 DEF Shaped, Parts, Registers, Idle, SameData
  <2> HIDE DEF i
  <2>2. Quiet(m, i)
    BY <1>1, <2>1, ResetQuiet DEF SameData, DataIn
  <2>3. Ctl(i)
    BY <2>1 DEF Ctl, Moving
  <2> QED
    BY <1>2, <1>3, <2>2, <2>3, QuietHeld DEF Sound
<1>4. CASE ~quiet
  <2>1. /\ n.disk = soft.disk /\ n.dma = soft.dma /\ n.log = soft.log /\ n.phase = "data out"
        /\ Shaped(n) /\ n.chip.state = "disconnected"
        /\ n.chip.counter = 0 /\ n.chip.io = "done" /\ ~n.chip.irq
        /\ n.chip.inprogress /\ ~n.chip.waiting
    BY <1>1 DEF Shaped, Parts, Registers, Soon
  <2> HIDE DEF n
  <2>2. Quiet(m, n)
    BY <1>1, <2>1, ResetQuiet DEF SameData, DataIn
  <2>3. Ctl(n)
    BY <2>1 DEF Ctl, Moving
  <2> QED
    BY <1>2, <1>4, <2>2, <2>3, QuietHeld DEF Sound
<1> QED
  BY <1>3, <1>4

(* esp_select: the disk takes the command with an empty burst buffer.      *)
LEMMA SelectSound ==
  ASSUME NEW m, Held(m), NEW cdb \in Cdbs, EmptyChannel(m), Ready(m), ~m.chip.irq,
         m.chip.inprogress
  PROVE  Sound(esp_select(m, cdb))
<1> DEFINE a == SCSIdisk_Receive_Command(m, cdb)
           b == [a EXCEPT !.chip.intstatus = {"bs", "fc"}, !.chip.state = "initiator"]
           c == esp_command_clear(b)
           n == Soon(c, "interrupt")
<1>1. /\ Shaped(m) /\ DiskOK(m.disk) /\ DmaOK(m.dma) /\ LogOK(m.log) /\ m.chip.counter \in Nat
      /\ m.dma.buf = <<>>
  BY DEF Held, Typed, EmptyChannel
<1>2. Fresh(m, a)
  BY <1>1, CommandFresh
<1>3. esp_select(m, cdb) = n
  BY Zenon DEF esp_select
<1> HIDE DEF a
<1>4. DOMAIN a = Parts /\ a.chip = m.chip /\ a.event = m.event
  BY <1>2 DEF Fresh, Rest
<1>5. /\ Shaped(b) /\ SameData(a, b) /\ b.event = m.event /\ b.chip.state = "initiator"
      /\ b.chip.counter = m.chip.counter /\ b.chip.io = m.chip.io /\ b.chip.irq = m.chip.irq
      /\ b.chip.inprogress = m.chip.inprogress /\ b.chip.waiting = m.chip.waiting
  BY <1>1, <1>4 DEF Shaped, Parts, Registers, SameData
<1> HIDE DEF b
<1>6. /\ Shaped(c) /\ SameData(b, c) /\ c.event = b.event
      /\ c.chip.state = b.chip.state /\ c.chip.io = b.chip.io
      /\ c.chip.counter = b.chip.counter /\ c.chip.irq = b.chip.irq
      /\ c.chip.inprogress = b.chip.inprogress
      /\ c.chip.waiting => b.chip.waiting
  BY <1>5, Cleared
<1> HIDE DEF c
<1>7. /\ Shaped(n) /\ SameData(c, n) /\ n.chip = c.chip /\ n.event = c.event \cup {"interrupt"}
  BY <1>6 DEF Shaped, Parts, Soon, SameData
<1> HIDE DEF n
<1>8. SameData(a, n)
  BY <1>5, <1>6, <1>7 DEF SameData
<1>9. Held(n)
  BY <1>1, <1>2, <1>5, <1>6, <1>7, <1>8, FreshHeld DEF SameData
<1>10. Connected(n)
  BY <1>5, <1>6, <1>7 DEF Connected
<1>11. ~Moving(n)
  BY <1>5, <1>6, <1>7 DEF Moving, Ready
<1>12. Ctl(n)
  BY <1>5, <1>6, <1>7, <1>10, <1>11 DEF Ctl, Ready
<1> QED
  BY <1>3, <1>9, <1>12 DEF Sound

(* Its time-out.                                                           *)
LEMMA TimeoutSound ==
  ASSUME NEW m, Held(m), Ready(m), ~m.chip.irq, m.chip.inprogress
  PROVE  Sound(SelectTimeout(m))
<1> DEFINE b == [m EXCEPT !.chip.intstatus = {"dc"}, !.chip.state = "disconnected",
                          !.phase = "status"]
           c == esp_command_clear(b)
           n == Soon(c, "interrupt")
<1>1. Shaped(m) /\ m.chip.counter \in Nat
  BY DEF Held, Typed
<1>2. /\ Shaped(b) /\ b.event = m.event /\ b.chip.state = "disconnected" /\ b.phase = "status"
      /\ b.disk = m.disk /\ b.dma = m.dma /\ b.log = m.log
      /\ b.chip.counter = m.chip.counter /\ b.chip.io = m.chip.io /\ b.chip.irq = m.chip.irq
      /\ b.chip.inprogress = m.chip.inprogress /\ b.chip.waiting = m.chip.waiting
  BY <1>1 DEF Shaped, Parts, Registers
<1>3. SelectTimeout(m) = n
  BY Zenon DEF SelectTimeout
<1> HIDE DEF b
<1>4. /\ Shaped(c) /\ SameData(b, c) /\ c.event = b.event
      /\ c.chip.state = b.chip.state /\ c.chip.io = b.chip.io
      /\ c.chip.counter = b.chip.counter /\ c.chip.irq = b.chip.irq
      /\ c.chip.inprogress = b.chip.inprogress
      /\ c.chip.waiting => b.chip.waiting
  BY <1>2, Cleared
<1> HIDE DEF c
<1>5. /\ Shaped(n) /\ SameData(c, n) /\ n.chip = c.chip /\ n.event = c.event \cup {"interrupt"}
  BY <1>4 DEF Shaped, Parts, Soon, SameData
<1> HIDE DEF n
<1>6. /\ n.disk = m.disk /\ n.dma = m.dma /\ n.log = m.log /\ n.phase = "status"
  BY <1>2, <1>4, <1>5 DEF SameData
<1>7. ~DataIn(n) /\ ~DataOut(n)
  BY <1>6 DEF DataIn, DataOut
<1>8. Quiet(m, n)
  BY <1>1, <1>2, <1>4, <1>5, <1>6, <1>7 DEF Quiet
<1> QED
  BY <1>2, <1>3, <1>4, <1>5, <1>7, <1>8, AnswerSound DEF Ready

(* esp_initiator_command_complete and esp_message_accepted.                *)
LEMMA CompleteSound ==
  ASSUME NEW m, Held(m), Ready(m), ~m.chip.irq, m.chip.inprogress
  PROVE  /\ Sound(esp_initiator_command_complete(m))
         /\ Sound(esp_message_accepted(m))
<1> DEFINE a == esp_initiator_command_complete(m)
           b == esp_message_accepted(m)
<1>1. Shaped(m) /\ m.chip.counter \in Nat /\ m.chip.state \in {"disconnected", "initiator"}
  BY DEF Held, Typed
<1>2. /\ Shaped(a) /\ a.event = m.event \cup {"interrupt"}
      /\ a.chip.state = m.chip.state /\ a.phase = "message in"
      /\ a.disk = m.disk /\ a.dma = m.dma /\ a.log = m.log
      /\ a.chip.counter = m.chip.counter /\ a.chip.io = m.chip.io /\ a.chip.irq = m.chip.irq
      /\ a.chip.inprogress = m.chip.inprogress /\ a.chip.waiting = m.chip.waiting
  BY <1>1 DEF Shaped, Parts, Registers, Soon, esp_initiator_command_complete
<1>3. /\ Shaped(b) /\ b.event = m.event \cup {"interrupt"}
      /\ b.chip.state = "disconnected" /\ b.phase = "data out"
      /\ b.disk = m.disk /\ b.dma = m.dma /\ b.log = m.log
      /\ b.chip.counter = m.chip.counter /\ b.chip.io = m.chip.io /\ b.chip.irq = m.chip.irq
      /\ b.chip.inprogress = m.chip.inprogress /\ b.chip.waiting = m.chip.waiting
  BY <1>1 DEF Shaped, Parts, Registers, Soon, esp_message_accepted
<1> HIDE DEF a, b
<1>4. ~DataIn(a) /\ ~DataOut(a) /\ ~DataIn(b) /\ ~Connected(b)
  BY <1>2, <1>3 DEF DataIn, DataOut, Connected
<1>5. Quiet(m, a) /\ Quiet(m, b)
  BY <1>1, <1>2, <1>3, <1>4 DEF Quiet
<1>6. Sound(a)
  BY <1>2, <1>4, <1>5, AnswerSound DEF Ready
<1>7. Sound(b)
  BY <1>3, <1>4, <1>5, AnswerSound DEF Ready
<1> QED
  BY <1>6, <1>7 DEF a, b

(* esp_transfer_info: a transfer begins for a connected controller.        *)
LEMMA InfoSound ==
  ASSUME NEW m, Held(m), Connected(m), Ready(m), ~m.chip.irq, m.chip.inprogress,
         "interrupt" \notin m.event
  PROVE  Sound(esp_transfer_info(m))
<1> DEFINE n == esp_transfer_info(m)
<1>1. Shaped(m) /\ m.chip.counter \in Nat /\ m.chip.state \in {"disconnected", "initiator"}
  BY DEF Held, Typed
<1>2. /\ Shaped(n) /\ n.event = m.event \cup {"io"} /\ SameData(m, n)
      /\ n.chip.state = m.chip.state /\ n.chip.io = "transfering"
      /\ n.chip.counter = m.chip.counter /\ n.chip.irq = m.chip.irq
      /\ n.chip.inprogress = m.chip.inprogress /\ n.chip.waiting = m.chip.waiting
  BY <1>1 DEF Shaped, Parts, Registers, Soon, esp_transfer_info, SameData
<1> HIDE DEF n
<1>3. /\ DataIn(n) <=> DataIn(m)
      /\ DataOut(n) <=> DataOut(m)
      /\ Connected(n) <=> Connected(m)
  BY <1>2 DEF DataIn, DataOut, Connected, SameData
<1>4. Quiet(m, n)
  BY <1>1, <1>2, <1>3 DEF Quiet, SameData
<1>5. Ctl(n)
  BY <1>2, <1>3 DEF Ctl, Ready
<1> QED
  BY <1>4, <1>5, QuietHeld DEF Sound, n

(* What follows a turn of a transfer, or a padding: esp_transfer_done, and *)
(* the next turn perhaps.                                                  *)
LEMMA DoneSound ==
  ASSUME NEW m, Shaped(m), m.chip.counter \in Nat, Connected(m), ~m.chip.irq,
         m.chip.inprogress, "interrupt" \notin m.event, NEW p,
         NEW n, n = esp_transfer_done(m, p)
  PROVE  /\ Shaped(n) /\ n.chip.counter \in Nat /\ n.chip.state = m.chip.state /\ SameData(m, n)
         /\ n.chip.io = m.chip.io /\ Connected(n) /\ (DataIn(n) <=> DataIn(m))
         /\ ~Moving(n) => Ctl(n)
         /\ Ended(m, p) => n.event = m.event \cup {"interrupt"}
         /\ ~Ended(m, p) => n.event = m.event
         /\ ~n.chip.irq /\ n.chip.inprogress
<1>1. Answered(m, p, n)
  BY TransferDone
<1>2. Connected(n) /\ (DataIn(n) <=> DataIn(m))
  BY <1>1 DEF Answered, Connected, DataIn, SameData
<1> QED
  BY <1>1, <1>2 DEF Answered, Ctl

(* esp_transfer_pad: words for nothing, which is noted.                    *)
LEMMA PadSound ==
  ASSUME NEW m, Held(m), Connected(m), Ready(m), ~m.chip.irq, m.chip.inprogress,
         "interrupt" \notin m.event
  PROVE  Sound(esp_transfer_pad(m))
<1> DEFINE noted == [m EXCEPT !.log.skipped = TRUE]
           in == Rounds(Skip, m.chip.counter, noted)
           out == Rounds(Zero, m.chip.counter, noted)
<1>1. /\ Shaped(m) /\ m.chip.counter \in Nat /\ m.chip.state \in {"disconnected", "initiator"}
      /\ DiskOK(m.disk) /\ DmaOK(m.dma) /\ LogOK(m.log) /\ Positioned(m)
  BY DEF Held, Typed
<1>2. esp_transfer_pad(m) = IF m.phase = "data in" THEN esp_transfer_done(in, "data in")
                            ELSE esp_transfer_done(out, "data out")
  BY Zenon DEF esp_transfer_pad
<1>3. /\ Shaped(noted) /\ noted.chip = m.chip /\ noted.event = m.event /\ noted.disk = m.disk
      /\ noted.dma = m.dma /\ noted.phase = m.phase /\ noted.log = [m.log EXCEPT !.skipped = TRUE]
  BY <1>1 DEF Shaped, Parts
<1> HIDE DEF noted
<1>4. LogOK(noted.log) /\ Skipped(noted)
  <2>1. LogOK([m.log EXCEPT !.skipped = TRUE]) /\ [m.log EXCEPT !.skipped = TRUE].skipped
    BY <1>1 DEF LogOK, LogFields
  <2> QED
    BY <1>3, <2>1 DEF Skipped
<1>5. Connected(noted) /\ Positioned(noted) /\ Typed(noted)
  <2>1. /\ DataIn(noted) <=> DataIn(m)
        /\ DataOut(noted) <=> DataOut(m)
        /\ Connected(noted) <=> Connected(m)
    BY <1>3 DEF DataIn, DataOut, Connected
  <2> QED
    BY <1>1, <1>3, <1>4, <2>1 DEF Positioned, Typed
<1>6. In(noted) /\ Out(noted)
  BY <1>4, <1>5 DEF In, Out
<1>7. /\ In(in) /\ Follows(noted, in) /\ SameChip(noted, in)
      /\ Out(out) /\ Follows(noted, out) /\ SameChip(noted, out)
  <2>1. noted.chip.counter = m.chip.counter
    BY <1>3
  <2>2. SameChip(noted, in) /\ SameChip(noted, out)
    BY <1>3, MovedSameChip, Zenon DEF Rounds
  <2>3. In(in) /\ Follows(noted, in)
    BY <1>4, <1>6, <2>1, SkipLoop
  <2>4. Out(out) /\ Follows(noted, out)
    BY <1>4, <1>6, <2>1, ZeroLoop
  <2> QED
    BY <2>2, <2>3, <2>4
<1> HIDE DEF in, out
<1>8. ASSUME NEW q, Typed(q), Follows(noted, q), SameChip(noted, q), NEW p,
             NEW n, n = esp_transfer_done(q, p)
      PROVE  /\ Shaped(n) /\ n.chip.counter \in Nat /\ n.chip.state = q.chip.state
             /\ SameData(q, n) /\ Ctl(n) /\ Skipped(q)
  <2>1. Connected(q) /\ Skipped(q)
    BY <1>4, <1>5, <1>8, FollowsPhase
  <2>2. /\ Shaped(q) /\ q.chip.counter \in Nat /\ ~q.chip.irq /\ q.chip.inprogress
        /\ "interrupt" \notin q.event
    BY <1>3, <1>8 DEF Typed, SameChip
  <2>3. ~Moving(q)
    BY <1>3, <1>8 DEF SameChip, Moving, Ready
  <2>4. /\ Shaped(n) /\ n.chip.counter \in Nat /\ n.chip.state = q.chip.state /\ SameData(q, n)
        /\ n.chip.io = q.chip.io
        /\ ~Moving(n) => Ctl(n)
        /\ Ended(q, p) => n.event = q.event \cup {"interrupt"}
        /\ ~Ended(q, p) => n.event = q.event
    BY <1>8, <2>1, <2>2, DoneSound
  <2>5. ~Moving(n)
    BY <2>3, <2>4 DEF Moving
  <2> QED
    BY <2>1, <2>4, <2>5
<1>9. Sound(esp_transfer_done(in, "data in"))
  <2>1. Typed(in)
    BY <1>7 DEF In
  <2> QED
    BY <1>7, <1>8, <2>1, InHeld DEF Sound
<1>10. Sound(esp_transfer_done(out, "data out"))
  <2>1. Typed(out)
    BY <1>7 DEF Out
  <2> QED
    BY <1>7, <1>8, <2>1, OutHeld DEF Sound
<1> QED
  BY <1>2, <1>9, <1>10

(* esp_start_command: each of its commands.                                *)
LEMMA StartSound ==
  ASSUME NEW m, Good(m), Held(m), NEW c \in Command, CanStart(m, c), Fit(m, c)
  PROVE  Sound(esp_start_command(m, c))
<1> DEFINE begun == [m EXCEPT !.chip.inprogress = TRUE]
           counted == [begun EXCEPT !.chip.counter = c.count, !.chip.tc = FALSE]
           clear == esp_command_clear(begun)
           ill == Soon([clear EXCEPT !.chip.intstatus = @ \cup {"ill"}], "interrupt")
<1>1. /\ c.op \in SimpleOps \cup {"ti", "pad", "sel", "sel_absent"}
      /\ c.op = "sel" => c.cdb \in Cdbs
      /\ c.op \in {"ti", "pad"} => c.count \in Nat
  <2>1. /\ c.op \in SimpleOps \cup {"ti", "pad", "sel", "sel_absent"}
        /\ c.op = "sel" => c.cdb \in Cdbs
    BY DEF Command, SimpleOps
  <2>2. c.op \in {"ti", "pad"} => c.count \in Counts
    BY DEF Command, SimpleOps
  <2>3. Counts \subseteq Nat
    BY EspAssumption, Zenon
  <2> QED
    BY <2>1, <2>2, <2>3
<1>2. Shaped(m) /\ m.chip.counter \in Nat
  BY DEF Held, Typed
<1>3. /\ Shaped(begun) /\ SameData(m, begun) /\ begun.event = m.event /\ begun.chip.inprogress
      /\ begun.chip.state = m.chip.state /\ begun.chip.io = m.chip.io
      /\ begun.chip.irq = m.chip.irq /\ begun.chip.counter = m.chip.counter
      /\ begun.chip.waiting = m.chip.waiting /\ begun.chip.next = m.chip.next
  BY <1>2 DEF Shaped, Parts, Registers, SameData
<1>4. Good(begun)
  BY DEF Good, Shaped, Parts, Registers
<1> HIDE DEF begun
<1>5. /\ Shaped(counted) /\ SameData(m, counted) /\ counted.event = m.event
      /\ counted.chip.inprogress
      /\ counted.chip.state = m.chip.state /\ counted.chip.io = m.chip.io
      /\ counted.chip.irq = m.chip.irq /\ counted.chip.counter = c.count
      /\ counted.chip.waiting = m.chip.waiting
  BY <1>3 DEF Shaped, Parts, Registers, SameData
<1> HIDE DEF counted
<1>6. ASSUME NEW n, Shaped(n), SameData(m, n), n.chip.state = m.chip.state,
             n.chip.io = m.chip.io, n.chip.counter \in Nat
      PROVE  /\ Quiet(m, n) /\ Held(n)
             /\ Connected(n) <=> Connected(m)
             /\ DataIn(n) <=> DataIn(m)
  <2>1. /\ DataIn(n) <=> DataIn(m)
        /\ DataOut(n) <=> DataOut(m)
        /\ Connected(n) <=> Connected(m)
    BY <1>6 DEF DataIn, DataOut, Connected, SameData
  <2>2. Quiet(m, n)
    BY <1>6, <2>1 DEF Quiet, SameData, Held, Typed
  <2> QED
    BY <2>1, <2>2, QuietHeld
<1>7. Held(begun) /\ (Connected(begun) <=> Connected(m))
  BY <1>2, <1>3, <1>6
<1>8. ASSUME c.op \notin {"reset", "busreset", "busreset_quiet"}
      PROVE  /\ Ready(m) /\ Ready(begun) /\ ~m.chip.irq /\ "interrupt" \notin m.event
             /\ c.op \in {"ti", "pad"} => Ready(counted) /\ Held(counted)
                                          /\ (Connected(counted) <=> Connected(m))
  <2>1. Ready(m) /\ ~m.chip.irq /\ "interrupt" \notin m.event
    BY <1>8 DEF Fit
  <2>2. Ready(begun)
    BY <1>3, <1>7, <2>1 DEF Ready, Moving, DataIn, SameData
  <2>3. ASSUME c.op \in {"ti", "pad"}
        PROVE  Ready(counted) /\ Held(counted) /\ (Connected(counted) <=> Connected(m))
    <3>1. Held(counted) /\ (Connected(counted) <=> Connected(m)) /\ (DataIn(counted) <=> DataIn(m))
      BY <1>1, <1>5, <1>6, <2>3
    <3> QED
      BY <1>5, <2>1, <3>1 DEF Ready, Moving
  <2> QED
    BY <2>1, <2>2, <2>3
<1>9. CASE Illegal(m, c)
  <2>1. c.op \notin {"reset", "busreset", "busreset_quiet", "nop", "flush"}
    BY <1>9 DEF Illegal
  <2>2. esp_start_command(m, c) = ill
    BY <1>9, <2>1, Zenon DEF esp_start_command, begun, ill, clear
  <2>3. /\ Shaped(clear) /\ SameData(begun, clear) /\ clear.event = begun.event
        /\ clear.chip.state = begun.chip.state /\ clear.chip.io = begun.chip.io
        /\ clear.chip.counter = begun.chip.counter /\ clear.chip.irq = begun.chip.irq
        /\ clear.chip.inprogress = begun.chip.inprogress
        /\ clear.chip.waiting => begun.chip.waiting
    BY <1>3, Cleared
  <2> HIDE DEF clear
  <2>4. /\ Shaped(ill) /\ SameData(clear, ill) /\ ill.event = clear.event \cup {"interrupt"}
        /\ ill.chip.state = clear.chip.state /\ ill.chip.io = clear.chip.io
        /\ ill.chip.counter = clear.chip.counter /\ ill.chip.irq = clear.chip.irq
        /\ ill.chip.inprogress = clear.chip.inprogress
        /\ ill.chip.waiting = clear.chip.waiting
    BY <2>3 DEF Shaped, Parts, Registers, SameData, Soon
  <2> HIDE DEF ill
  <2>5. SameData(m, ill)
    BY <1>3, <2>3, <2>4 DEF SameData
  <2>6. Quiet(m, ill) /\ (Connected(ill) <=> Connected(m)) /\ (DataIn(ill) <=> DataIn(m))
    BY <1>2, <1>3, <1>6, <2>3, <2>4, <2>5
  <2>7. Sound(ill)
    BY <1>3, <1>8, <2>1, <2>3, <2>4, <2>6, AnswerSound DEF Ready
  <2> QED
    BY <2>2, <2>7
<1>10. CASE ~Illegal(m, c) /\ c.op = "reset"
  <2> DEFINE h == esp_reset_hard(begun)
  <2>1. esp_start_command(m, c) = h
    BY <1>10 DEF esp_start_command, begun
  <2>2. /\ SameData(begun, h) /\ Shaped(h) /\ h.chip.state = "disconnected" /\ h.chip.counter = 0
        /\ h.chip.io = "done" /\ Ctl(h)
    BY <1>4, HardHeld
  <2> HIDE DEF h
  <2>3. Quiet(begun, h)
    BY <2>2, ResetQuiet DEF SameData, DataIn
  <2> QED
    BY <1>7, <2>1, <2>2, <2>3, QuietHeld DEF Sound
<1>11. ASSUME NEW quiet \in BOOLEAN, c.op = IF quiet THEN "busreset_quiet" ELSE "busreset"
       PROVE  Sound(esp_bus_reset(begun, quiet))
  <2>1. ~m.chip.irq /\ (quiet => "interrupt" \notin m.event)
    BY <1>11 DEF Fit
  <2>2. ~begun.chip.waiting \/ begun.chip.next.op # "reset"
    BY <1>3, <1>11 DEF CanStart
  <2> QED
    BY <1>3, <1>4, <1>7, <2>1, <2>2, BusResetSound
<1>12. CASE ~Illegal(m, c) /\ c.op = "busreset"
  <2>1. esp_start_command(m, c) = esp_bus_reset(begun, FALSE)
    BY <1>12 DEF esp_start_command, begun
  <2> QED
    BY <1>11, <1>12, <2>1
<1>13. CASE ~Illegal(m, c) /\ c.op = "busreset_quiet"
  <2>1. esp_start_command(m, c) = esp_bus_reset(begun, TRUE)
    BY <1>13 DEF esp_start_command, begun
  <2> QED
    BY <1>11, <1>13, <2>1
<1>14. CASE ~Illegal(m, c) /\ c.op \in {"nop", "flush"}
  <2> DEFINE i == Idle(begun)
  <2>1. esp_start_command(m, c) = i
    BY <1>14 DEF esp_start_command, begun
  <2>2. /\ Shaped(i) /\ SameData(begun, i) /\ i.event = begun.event
        /\ i.chip.state = begun.chip.state /\ i.chip.io = begun.chip.io
        /\ i.chip.counter = begun.chip.counter /\ i.chip.irq = begun.chip.irq
        /\ i.chip.waiting = begun.chip.waiting
    BY <1>3 DEF Shaped, Parts, Registers, SameData, Idle
  <2> HIDE DEF i
  <2>3. SameData(m, i)
    BY <1>3, <2>2 DEF SameData
  <2>4. Held(i) /\ (Connected(i) <=> Connected(m)) /\ (DataIn(i) <=> DataIn(m))
    BY <1>2, <1>3, <1>6, <2>2, <2>3
  <2>5. Ctl(i)
    BY <1>3, <1>8, <1>14, <2>2, <2>4 DEF Ctl, Ready, Moving
  <2> QED
    BY <2>1, <2>4, <2>5 DEF Sound
<1>15. CASE ~Illegal(m, c) /\ c.op = "sel"
  <2>1. esp_start_command(m, c) = esp_select(begun, c.cdb)
    BY <1>15 DEF esp_start_command, begun
  <2>2. EmptyChannel(begun)
    <3>1. Connected(m) \/ EmptyChannel(m)
      BY <1>15 DEF Fit
    <3>2. ~Connected(m)
      BY <1>15 DEF Illegal, Connected
    <3> QED
      BY <1>3, <3>1, <3>2 DEF EmptyChannel, SameData
  <2>3. c.cdb \in Cdbs /\ Ready(begun) /\ ~begun.chip.irq /\ begun.chip.inprogress
    BY <1>1, <1>3, <1>8, <1>15
  <2> QED
    BY <1>7, <2>1, <2>2, <2>3, SelectSound
<1>16. CASE ~Illegal(m, c) /\ c.op = "sel_absent"
  <2>1. esp_start_command(m, c) = SelectTimeout(begun)
    BY <1>16 DEF esp_start_command, begun
  <2> QED
    BY <1>3, <1>7, <1>8, <1>16, <2>1, TimeoutSound
<1>17. c.op \in {"ti", "pad", "iccs", "msgacc"} /\ ~Illegal(m, c) => Connected(m)
  BY DEF Illegal, Connected, Held, Typed
<1>18. CASE ~Illegal(m, c) /\ c.op = "ti"
  <2>1. esp_start_command(m, c) = esp_transfer_info(counted)
    BY <1>18 DEF esp_start_command, counted, begun
  <2> QED
    BY <1>5, <1>8, <1>17, <1>18, <2>1, InfoSound
<1>19. CASE ~Illegal(m, c) /\ c.op = "pad"
  <2>1. esp_start_command(m, c) = esp_transfer_pad(counted)
    BY <1>19 DEF esp_start_command, counted, begun
  <2> QED
    BY <1>5, <1>8, <1>17, <1>19, <2>1, PadSound
<1>20. CASE ~Illegal(m, c) /\ c.op \in {"iccs", "msgacc"}
  <2>1. \/ esp_start_command(m, c) = esp_initiator_command_complete(begun)
        \/ esp_start_command(m, c) = esp_message_accepted(begun)
    <3>1. CASE c.op = "iccs"
      BY <1>20, <3>1 DEF esp_start_command, begun
    <3>2. CASE c.op = "msgacc"
      BY <1>20, <3>2 DEF esp_start_command, begun
    <3> QED
      BY <1>20, <3>1, <3>2
  <2>2. Sound(esp_initiator_command_complete(begun)) /\ Sound(esp_message_accepted(begun))
    BY <1>3, <1>7, <1>8, <1>20, CompleteSound
  <2> QED
    BY <2>1, <2>2
<1> QED
  BY <1>1, <1>9, <1>10, <1>12, <1>13, <1>14, <1>15, <1>16, <1>18, <1>19, <1>20 DEF SimpleOps

(* esp_finish_command: the waiting command starts.                         *)
LEMMA FinishSound ==
  ASSUME NEW m, Good(m), Held(m), ~m.chip.irq, "interrupt" \notin m.event, ~Moving(m),
         DataIn(m) /\ m.chip.io # "done" => Connected(m),
         m.chip.waiting /\ m.chip.next.op = "sel" => Connected(m) \/ EmptyChannel(m)
  PROVE  Sound(esp_finish_command(m))
<1> DEFINE n == [m EXCEPT !.chip.inprogress = FALSE, !.chip.waiting = FALSE, !.chip.next = None]
           i == Idle(m)
<1>1. Shaped(m) /\ m.chip.counter \in Nat
  BY DEF Held, Typed
<1>2. /\ Shaped(n) /\ SameData(m, n) /\ n.event = m.event
      /\ n.chip.state = m.chip.state /\ n.chip.io = m.chip.io
      /\ n.chip.counter = m.chip.counter /\ n.chip.irq = m.chip.irq
      /\ ~n.chip.waiting
  BY <1>1 DEF Shaped, Parts, Registers, SameData
<1>3. /\ Shaped(i) /\ SameData(m, i) /\ i.event = m.event
      /\ i.chip.state = m.chip.state /\ i.chip.io = m.chip.io
      /\ i.chip.counter = m.chip.counter /\ i.chip.irq = m.chip.irq
      /\ i.chip.waiting = m.chip.waiting /\ i.chip.next = m.chip.next
  BY <1>1 DEF Shaped, Parts, Registers, Idle, SameData
<1>4. Good(n)
  BY DEF Good, Shaped, Parts, Registers
<1>5. esp_finish_command(m) = IF ~m.chip.waiting THEN i ELSE esp_start_command(n, m.chip.next)
  BY Zenon DEF esp_finish_command
<1> HIDE DEF n, i
<1>6. ASSUME NEW p, Shaped(p), SameData(m, p), p.chip.state = m.chip.state,
             p.chip.io = m.chip.io, p.chip.counter = m.chip.counter
      PROVE  Held(p) /\ (Connected(p) <=> Connected(m)) /\ (DataIn(p) <=> DataIn(m))
             /\ (EmptyChannel(m) => EmptyChannel(p))
  <2>1. /\ DataIn(p) <=> DataIn(m)
        /\ DataOut(p) <=> DataOut(m)
        /\ Connected(p) <=> Connected(m)
    BY <1>6 DEF DataIn, DataOut, Connected, SameData
  <2>2. Quiet(m, p)
    BY <1>1, <1>6, <2>1 DEF Quiet, SameData, Held, Typed
  <2> QED
    BY <1>6, <2>1, <2>2, QuietHeld DEF EmptyChannel, SameData
<1>7. CASE ~m.chip.waiting
  <2>1. Held(i) /\ (Connected(i) <=> Connected(m)) /\ (DataIn(i) <=> DataIn(m))
    BY <1>3, <1>6
  <2>2. Ctl(i)
    BY <1>3, <1>7, <2>1 DEF Ctl, Moving
  <2> QED
    BY <1>5, <1>7, <2>1, <2>2 DEF Sound
<1>8. CASE m.chip.waiting
  <2>1. m.chip.next \in Command
    BY <1>8 DEF Good
  <2>2. /\ Held(n) /\ (Connected(n) <=> Connected(m)) /\ (DataIn(n) <=> DataIn(m))
        /\ EmptyChannel(m) => EmptyChannel(n)
    BY <1>2, <1>6
  <2>3. CanStart(n, m.chip.next)
    BY <1>2 DEF CanStart
  <2>4. Ready(n)
    BY <1>2, <2>2 DEF Ready, Moving
  <2>5. Fit(n, m.chip.next)
    BY <1>2, <1>8, <2>2, <2>4 DEF Fit
  <2> QED
    BY <1>4, <1>5, <1>8, <2>1, <2>2, <2>3, <2>5, StartSound
<1> QED
  BY <1>7, <1>8

(* esp_command_write: the command starts, waits, or is lost behind a reset. *)
LEMMA WriteSound ==
  ASSUME NEW m, Good(m), Sound(m), NEW c \in Command,
         c.op = "sel" => EmptyChannel(m),
         c.op \in {"busreset", "busreset_quiet"} => ~m.chip.irq,
         c.op = "busreset_quiet" => "interrupt" \notin m.event
  PROVE  Sound(esp_command_write(m, c))
<1> DEFINE next == IF m.chip.next.op = "reset" /\ c.op # "nop" THEN m.chip.next ELSE c
           written == [m EXCEPT !.chip.next = next]
           waits == [written EXCEPT !.chip.waiting = TRUE]
           gone == [written EXCEPT !.chip.next = None]
<1>1. Shaped(m) /\ m.chip.counter \in Nat /\ Held(m) /\ Ctl(m)
  BY DEF Sound, Held, Typed
<1>2. next \in Command /\ (next = c \/ next.op = "reset")
  <2>1. None.op # "reset"
    BY DEF None
  <2> QED
    BY <2>1 DEF Good
<1> HIDE DEF next
<1>3. Good(written) /\ Shaped(written) /\ written.chip.next = next
      /\ written.chip.inprogress = m.chip.inprogress
  BY <1>2 DEF Good, Shaped, Parts, Registers
<1>4. /\ SameData(m, written) /\ written.event = m.event
      /\ written.chip.state = m.chip.state /\ written.chip.io = m.chip.io
      /\ written.chip.counter = m.chip.counter /\ written.chip.irq = m.chip.irq
      /\ written.chip.waiting = m.chip.waiting
  BY <1>1 DEF Shaped, Parts, Registers, SameData
<1> HIDE DEF written
<1>5. ASSUME NEW p, Shaped(p), SameData(m, p), p.chip.state = m.chip.state,
             p.chip.io = m.chip.io, p.chip.counter = m.chip.counter
      PROVE  Held(p) /\ (Connected(p) <=> Connected(m)) /\ (DataIn(p) <=> DataIn(m))
             /\ (EmptyChannel(m) => EmptyChannel(p))
  <2>1. /\ DataIn(p) <=> DataIn(m)
        /\ DataOut(p) <=> DataOut(m)
        /\ Connected(p) <=> Connected(m)
    BY <1>5 DEF DataIn, DataOut, Connected, SameData
  <2>2. Quiet(m, p)
    BY <1>1, <1>5, <2>1 DEF Quiet, SameData, Held, Typed
  <2> QED
    BY <1>1, <1>5, <2>1, <2>2, QuietHeld DEF EmptyChannel, SameData
<1>6. CASE next.op \in {"reset", "busreset", "busreset_quiet"}
  <2>1. esp_command_write(m, c) = esp_start_command(written, next)
    BY <1>6, Zenon DEF esp_command_write, next, written
  <2>2. CanStart(written, next)
    BY <1>3, <1>6 DEF CanStart
  <2>3. Fit(written, next)
    BY <1>2, <1>4, <1>6 DEF Fit
  <2>4. Held(written)
    BY <1>3, <1>4, <1>5
  <2> QED
    BY <1>2, <1>3, <2>1, <2>2, <2>3, <2>4, StartSound
<1>7. CASE next.op \notin {"reset", "busreset", "busreset_quiet"} /\ m.chip.inprogress
  <2>1. esp_command_write(m, c) = waits
    BY <1>3, <1>7, Zenon DEF esp_command_write, next, written
  <2>2. /\ Shaped(waits) /\ SameData(written, waits) /\ waits.event = m.event
        /\ waits.chip.state = m.chip.state /\ waits.chip.io = m.chip.io
        /\ waits.chip.counter = m.chip.counter /\ waits.chip.irq = m.chip.irq
        /\ waits.chip.inprogress = m.chip.inprogress /\ waits.chip.next = next
    BY <1>3, <1>4 DEF Shaped, Parts, Registers, SameData
  <2> HIDE DEF waits
  <2>3. SameData(m, waits)
    BY <1>4, <2>2 DEF SameData
  <2>4. /\ Held(waits) /\ (Connected(waits) <=> Connected(m)) /\ (DataIn(waits) <=> DataIn(m))
        /\ EmptyChannel(m) => EmptyChannel(waits)
    BY <1>5, <2>2, <2>3
  <2>5. Ctl(waits)
    BY <1>1, <1>2, <1>7, <2>2, <2>4 DEF Ctl, Moving
  <2> QED
    BY <2>1, <2>4, <2>5 DEF Sound
<1>8. CASE next.op \notin {"reset", "busreset", "busreset_quiet"} /\ ~m.chip.inprogress
  <2>1. esp_command_write(m, c) = esp_start_command(gone, next)
    BY <1>3, <1>8, Zenon DEF esp_command_write, next, written
  <2>2. Good(gone) /\ ~gone.chip.waiting
    BY <1>3, <1>8 DEF Good, Shaped, Parts, Registers
  <2>3. /\ Shaped(gone) /\ SameData(written, gone) /\ gone.event = m.event
        /\ gone.chip.state = m.chip.state /\ gone.chip.io = m.chip.io
        /\ gone.chip.counter = m.chip.counter /\ gone.chip.irq = m.chip.irq
    BY <1>3, <1>4 DEF Shaped, Parts, Registers, SameData
  <2> HIDE DEF gone
  <2>4. SameData(m, gone)
    BY <1>4, <2>3 DEF SameData
  <2>5. /\ Held(gone) /\ (Connected(gone) <=> Connected(m)) /\ (DataIn(gone) <=> DataIn(m))
        /\ EmptyChannel(m) => EmptyChannel(gone)
    BY <1>5, <2>3, <2>4
  <2>6. ~m.chip.irq /\ "interrupt" \notin m.event /\ ~Moving(m)
    BY <1>1, <1>8 DEF Ctl
  <2>7. Ready(gone)
    BY <1>1, <2>2, <2>3, <2>5, <2>6 DEF Ready, Moving, Ctl
  <2>8. next = c
    BY <1>2, <1>8
  <2>9. Fit(gone, next)
    BY <1>8, <2>3, <2>5, <2>6, <2>7, <2>8 DEF Fit
  <2>10. CanStart(gone, next)
    BY <2>2 DEF CanStart
  <2> QED
    BY <1>2, <2>1, <2>2, <2>5, <2>9, <2>10, StartSound
<1> QED
  BY <1>6, <1>7, <1>8

(* A turn of ESP_IO_Handler while a transfer goes on; its event has just   *)
(* been taken.                                                             *)
LEMMA TransferSound ==
  ASSUME NEW m, Held(m), Connected(m), ~m.chip.irq, m.chip.inprogress,
         m.event = {}, m.chip.io = "transfering"
  PROVE  Sound(Transfer(m))
<1> DEFINE Turned(q, p, d) ==
             /\ Shaped(d) /\ d.chip.counter \in Nat /\ d.chip.state = q.chip.state
             /\ SameData(q, d) /\ d.chip.io = "transfering" /\ Connected(d)
             /\ Ended(q, p) => d.event = {"interrupt"} /\ Ctl(d)
             /\ ~Ended(q, p) => d.event = {}
             /\ ~d.chip.irq /\ d.chip.inprogress
<1>1. /\ Shaped(m) /\ m.chip.counter \in Nat /\ Typed(m) /\ Positioned(m) /\ Ordered(m)
  BY DEF Held, Typed
<1>2. ASSUME NEW q, Typed(q), Follows(m, q), SameChip(m, q), NEW p,
             NEW d, d = esp_transfer_done(q, p)
      PROVE  Turned(q, p, d)
  <2>1. Connected(q)
    BY <1>2, FollowsPhase
  <2>2. /\ Shaped(q) /\ q.chip.counter \in Nat /\ ~q.chip.irq /\ q.chip.inprogress
        /\ q.event = {} /\ q.chip.io = "transfering"
    BY <1>2 DEF Typed, SameChip
  <2>3. /\ Shaped(d) /\ d.chip.counter \in Nat /\ d.chip.state = q.chip.state /\ SameData(q, d)
        /\ d.chip.io = q.chip.io /\ Connected(d)
        /\ ~Moving(d) => Ctl(d)
        /\ Ended(q, p) => d.event = q.event \cup {"interrupt"}
        /\ ~Ended(q, p) => d.event = q.event
        /\ ~d.chip.irq /\ d.chip.inprogress
    BY <1>2, <2>1, <2>2, DoneSound
  <2>4. ~Moving(d)
    BY <2>2, <2>3 DEF Moving
  <2> QED
    BY <2>2, <2>3, <2>4
<1> HIDE DEF Turned
<1>3. CASE m.phase = "data in"
  <2> DEFINE moved == dma_esp_write_memory(m)
             done == esp_transfer_done(moved, "data in")
             last == [done EXCEPT !.chip.io = IF Ended(moved, "data in") THEN "flushing" ELSE @]
             n == Soon(last, "io")
  <2>1. Transfer(m) = n
    BY <1>3, Zenon DEF Transfer
  <2>2. In(m)
    <3>1. DataIn(m)
      BY <1>3 DEF DataIn
    <3> QED
      BY <1>1, <3>1 DEF In, Ordered, WriteOrder
  <2>3. In(moved) /\ Follows(m, moved) /\ SameChip(m, moved) /\ Typed(moved)
    BY <1>1, <2>2, ToMemoryIn, DmaSameChip DEF In
  <2> HIDE DEF moved
  <2>4. /\ Shaped(done) /\ done.chip.counter \in Nat /\ done.chip.state = moved.chip.state
        /\ SameData(moved, done) /\ done.chip.io = "transfering" /\ Connected(done)
        /\ Ended(moved, "data in") => done.event = {"interrupt"}
        /\ ~Ended(moved, "data in") => done.event = {}
        /\ ~done.chip.irq /\ done.chip.inprogress
    <3>1. Turned(moved, "data in", done)
      BY <1>2, <2>3
    <3> HIDE DEF done
    <3> QED
      BY <3>1 DEF Turned
  <2> HIDE DEF done
  <2>5. /\ Shaped(n) /\ SameData(done, n) /\ n.event = done.event \cup {"io"}
        /\ n.chip.counter = done.chip.counter /\ n.chip.state = done.chip.state
        /\ n.chip.irq = done.chip.irq /\ n.chip.inprogress = done.chip.inprogress
        /\ Ended(moved, "data in") => n.chip.io = "flushing"
    BY <2>4 DEF Shaped, Parts, Registers, Soon, SameData
  <2> HIDE DEF n
  <2>6. SameData(moved, n)
    BY <2>4, <2>5 DEF SameData
  <2>7. Held(n)
    BY <2>3, <2>4, <2>5, <2>6, InHeld
  <2>8. Connected(n)
    BY <2>4, <2>5 DEF Connected
  <2>9. Ctl(n)
    BY <2>4, <2>5, <2>8 DEF Ctl, Moving
  <2> QED
    BY <2>1, <2>7, <2>9 DEF Sound
<1>4. CASE m.phase = "data out"
  <2> DEFINE moved == dma_esp_read_memory(m)
             done == esp_transfer_done(moved, "data out")
             n == Soon(done, "io")
  <2>1. Transfer(m) = IF Ended(moved, "data out") THEN done ELSE n
    BY <1>4, Zenon DEF Transfer
  <2>2. Out(m)
    <3>1. DataOut(m)
      BY <1>4 DEF DataOut
    <3> QED
      BY <1>1, <3>1 DEF Out, Ordered, ReadOrder, WriteOrder
  <2>3. Out(moved) /\ Follows(m, moved) /\ SameChip(m, moved) /\ Typed(moved)
    BY <1>1, <2>2, ToDeviceOut, DmaSameChip DEF Out
  <2> HIDE DEF moved
  <2>4. /\ Shaped(done) /\ done.chip.counter \in Nat /\ done.chip.state = moved.chip.state
        /\ SameData(moved, done) /\ done.chip.io = "transfering" /\ Connected(done)
        /\ Ended(moved, "data out") => Ctl(done)
        /\ ~Ended(moved, "data out") => done.event = {}
        /\ ~done.chip.irq /\ done.chip.inprogress
    <3>1. Turned(moved, "data out", done)
      BY <1>2, <2>3
    <3> HIDE DEF done
    <3> QED
      BY <3>1 DEF Turned
  <2> HIDE DEF done
  <2>5. Held(done)
    BY <2>3, <2>4, OutHeld
  <2>6. /\ Shaped(n) /\ SameData(done, n) /\ n.event = done.event \cup {"io"}
        /\ n.chip = done.chip
    BY <2>4 DEF Shaped, Parts, Soon, SameData
  <2> HIDE DEF n
  <2>7. SameData(moved, n)
    BY <2>4, <2>6 DEF SameData
  <2>8. Held(n)
    BY <2>3, <2>4, <2>6, <2>7, OutHeld
  <2>9. Connected(n)
    BY <2>4, <2>6 DEF Connected
  <2>10. ~Ended(moved, "data out") => Ctl(n)
    BY <2>4, <2>6, <2>9 DEF Ctl, Moving
  <2> QED
    BY <2>1, <2>4, <2>5, <2>8, <2>10 DEF Sound
<1>5. CASE m.phase \notin {"data in", "data out"}
  <2> DEFINE done == esp_transfer_done(m, "data in")
  <2>1. Transfer(m) = done
    BY <1>5, Zenon DEF Transfer
  <2>2. Ended(m, "data in") /\ Follows(m, m) /\ SameChip(m, m)
    BY <1>5 DEF Ended, Follows, SameChip
  <2>3. /\ Shaped(done) /\ done.chip.counter \in Nat /\ done.chip.state = m.chip.state
        /\ SameData(m, done) /\ done.chip.io = "transfering" /\ Connected(done) /\ Ctl(done)
    <3>1. Turned(m, "data in", done)
      BY <1>1, <1>2, <2>2
    <3> HIDE DEF done
    <3> QED
      BY <2>2, <3>1 DEF Turned
  <2> HIDE DEF done
  <2>4. ~DataIn(done) /\ ~DataOut(done)
    BY <1>5, <2>3 DEF DataIn, DataOut, SameData
  <2>5. Quiet(m, done)
    BY <1>1, <2>3, <2>4 DEF Quiet, SameData, Typed
  <2> QED
    BY <2>1, <2>3, <2>5, QuietHeld DEF Sound
<1> QED
  BY <1>3, <1>4, <1>5

-----------------------------------------------------------------------------
(* The machine stays sound. *)

DInv == Sound(Machine)

(* The same machine, with another interrupt line or as another record.     *)
LEMMA SameSound ==
  ASSUME NEW m, Sound(m), NEW n, Shaped(n), n.chip = m.chip, n.event = m.event, SameData(m, n)
  PROVE  Sound(n)
<1>1. /\ DataIn(n) <=> DataIn(m)
      /\ DataOut(n) <=> DataOut(m)
      /\ Connected(n) <=> Connected(m)
      /\ Moving(n) <=> Moving(m)
      /\ EmptyChannel(n) <=> EmptyChannel(m)
  BY DEF DataIn, DataOut, Connected, Moving, EmptyChannel, SameData
<1>2. Quiet(m, n)
  BY <1>1 DEF Quiet, SameData, Sound, Held, Typed
<1>3. Ctl(n)
  BY <1>1 DEF Sound, Ctl
<1> QED
  BY <1>2, <1>3, QuietHeld DEF Sound

(* A handler that makes a sound machine.                                   *)
LEMMA BecomesSound ==
  ASSUME NEW n, Sound(n), Becomes(n)
  PROVE  DInv'
<1>1. /\ chip' = n.chip /\ event' = n.event /\ phase' = n.phase
      /\ disk' = n.disk /\ dma' = n.dma /\ log' = n.log
  BY DEF Becomes
<1>2. /\ DOMAIN Machine' = Parts /\ Machine'.chip = chip' /\ Machine'.event = event'
      /\ Machine'.phase = phase' /\ Machine'.disk = disk' /\ Machine'.dma = dma'
      /\ Machine'.log = log'
  BY DEF Machine, Parts
<1> HIDE DEF Machine
<1>3. Shaped(Machine') /\ SameData(n, Machine') /\ Machine'.chip = n.chip
      /\ Machine'.event = n.event
  BY <1>1, <1>2 DEF Shaped, SameData, Sound, Held, Typed
<1> QED
  BY <1>3, SameSound DEF DInv

(* Steps of the channel alone.                                             *)
LEMMA ChannelSound ==
  ASSUME NEW m, Sound(m), NEW n, Shaped(n), n.chip = m.chip, n.event = m.event,
         n.disk = m.disk, n.phase = m.phase, n.log = m.log, n.dma.buf = m.dma.buf, DmaOK(n.dma),
         Connected(m) \/ (n.dma.enable = m.dma.enable /\ n.dma.filled = m.dma.filled)
  PROVE  Sound(n)
<1>1. DOMAIN n = Parts /\ Held(m) /\ Ctl(m)
  BY DEF Shaped, Sound
<1>2. /\ DataIn(n) <=> DataIn(m)
      /\ Connected(n) <=> Connected(m)
      /\ Skipped(n) <=> Skipped(m)
      /\ Moving(n) <=> Moving(m)
      /\ EmptyChannel(m) => EmptyChannel(n) \/ Connected(m)
  BY DEF DataIn, Connected, Moving, EmptyChannel, Skipped
<1>3. /\ ReadOrder(m) => ReadOrder(n)
      /\ WriteOrder(m) => WriteOrder(n)
      /\ Positioned(m) => Positioned(n)
      /\ Typed(m) => Typed(n)
  BY <1>1, ChannelSame
<1>4. Held(n)
  BY <1>1, <1>2, <1>3 DEF Held, Ordered
<1>5. Ctl(n)
  BY <1>1, <1>2 DEF Ctl
<1> QED
  BY <1>4, <1>5 DEF Sound

(* After ESP_Reset.                                                        *)
LEMMA InitSound == Init => DInv
<1> SUFFICES ASSUME Init PROVE DInv
  OBVIOUS
<1>1. /\ DOMAIN Machine = Parts /\ Machine.chip = chip /\ Machine.event = event
      /\ Machine.phase = phase /\ Machine.disk = disk /\ Machine.dma = dma
      /\ Machine.log = log
  BY DEF Machine, Parts
<1> DEFINE m == Machine
<1>2. /\ DOMAIN chip = Registers /\ chip.state = "disconnected" /\ chip.waiting = FALSE
      /\ chip.irq = FALSE /\ chip.counter = 0 /\ chip.io = "done" /\ event = {}
      /\ phase = "data out"
  BY DEF Init, Registers
<1>3. /\ DOMAIN disk = DiskFields /\ disk.size = 0 /\ disk.limit = 0 /\ disk.from = 0
      /\ disk.data = <<>> /\ disk.lba = 0 /\ disk.blockcounter = 0 /\ MediaOK(disk.media)
  <2>1. PICK p \in Protections :
          disk = [disk |-> FALSE, size |-> 0, limit |-> 0, from |-> 0, data |-> <<>>, lba |-> 0,
                  blockcounter |-> 0, status |-> "good", stale |-> FALSE,
                  media |-> [readonly |-> p.readonly, overlay |-> p.overlay, table |-> FALSE,
                             copies |-> {}, written |-> {}, blocks |-> 0, lost |-> {}]]
    BY DEF Init
  <2>2. p.overlay \in BOOLEAN
    BY EspAssumption
  <2>3. /\ DOMAIN disk.media = MediaFields /\ disk.media.overlay = p.overlay
        /\ disk.media.table = FALSE /\ disk.media.copies = {} /\ disk.media.written = {}
        /\ disk.media.blocks = 0 /\ disk.media.lost = {}
    BY <2>1 DEF MediaFields
  <2>5. MediaOK(disk.media)
    BY <2>2, <2>3, FreshMedia
  <2> QED
    BY <2>1, <2>5 DEF DiskFields
<1>4. /\ DOMAIN dma = DmaFields /\ dma.left = 0 /\ dma.after = 0 /\ dma.buf = <<>>
      /\ dma.filled = 0
  BY DEF Init, DmaFields
<1>5. /\ DOMAIN log = LogFields /\ log.memory = <<>> /\ log.loaded = 0 /\ log.platter = <<>>
      /\ log.base = 0
  BY DEF Init, LogFields
<1>6. /\ <<>> \in Seq(Int) /\ <<>> \in Seq(Int \X Int) /\ Len(<<>>) = 0 /\ 0 \in Nat
      /\ 0 \in 0 .. DMA_BURST_SIZE
  BY EspAssumption
<1>7. DiskOK(disk) /\ DmaOK(dma) /\ LogOK(log)
  <2>1. DiskOK(disk)
    BY <1>3, <1>6 DEF DiskOK
  <2>2. DmaOK(dma)
    BY <1>4, <1>6 DEF DmaOK
  <2>3. LogOK(log)
    BY <1>5, <1>6 DEF LogOK
  <2> QED
    BY <2>1, <2>2, <2>3
<1> HIDE DEF m
<1>8. /\ DOMAIN m = Parts /\ m.chip = chip /\ m.event = event /\ m.phase = phase
      /\ m.disk = disk /\ m.dma = dma /\ m.log = log
  BY <1>1 DEF m
<1>9. Typed(m)
  BY <1>2, <1>6, <1>7, <1>8 DEF Typed, Shaped
<1>10. ~DataIn(m) /\ ~Connected(m)
  BY <1>2, <1>8 DEF DataIn, Connected
<1>11. ToMemory(m.dma, m.log)
  <2>1. \A b : From(<<>>, b)
    BY DEF From
  <2> QED
    BY <1>4, <1>5, <1>8, <2>1 DEF ToMemory
<1>12. ReadOrder(m) /\ Positioned(m)
  BY <1>3, <1>8, <1>10, <1>11 DEF ReadOrder, Positioned
<1>13. Ctl(m)
  BY <1>2, <1>8, <1>10 DEF Ctl, Moving
<1> QED
  BY <1>9, <1>12, <1>13 DEF DInv, m, Sound, Held, Ordered

(* The two events.                                                         *)
LEMMA EventsSound == IInv /\ DInv /\ Events => DInv'
<1> SUFFICES ASSUME IInv, DInv, Events PROVE DInv'
  OBVIOUS
<1>1. Sound(Machine) /\ Good(Machine) /\ Shaped(Machine) /\ Held(Machine) /\ Ctl(Machine)
  BY DEF IInv, DInv, Good, Sound
<1>2. Machine.chip = chip /\ Machine.event = event
  BY DEF Machine
<1> HIDE DEF Machine
<1>3. ASSUME NEW e, NEW m, m = Happens(e)
      PROVE  /\ Shaped(m) /\ SameData(Machine, m) /\ m.chip = chip /\ m.event = event \ {e}
             /\ Held(m) /\ (DataIn(m) <=> DataIn(Machine)) /\ (Connected(m) <=> Connected(Machine))
             /\ EmptyChannel(m) <=> EmptyChannel(Machine)
  <2>1. /\ Shaped(m) /\ SameData(Machine, m) /\ m.chip = chip /\ m.event = event \ {e}
    BY <1>1, <1>2, <1>3 DEF Happens, Shaped, Parts, SameData
  <2>2. /\ DataIn(m) <=> DataIn(Machine)
        /\ DataOut(m) <=> DataOut(Machine)
        /\ Connected(m) <=> Connected(Machine)
        /\ EmptyChannel(m) <=> EmptyChannel(Machine)
    BY <1>2, <2>1 DEF DataIn, DataOut, Connected, EmptyChannel, SameData
  <2>3. Quiet(Machine, m)
    BY <1>1, <1>2, <2>1, <2>2 DEF Quiet, SameData, Held, Typed
  <2> QED
    BY <1>1, <2>1, <2>2, <2>3, QuietHeld
<1>4. CASE ESP_Interrupt_Handler
  <2> DEFINE m == Happens("interrupt")
             raised == [m EXCEPT !.chip.irq = TRUE]
             shown == set_interrupt(raised, TRUE)
  <2>1. "interrupt" \in event /\ Becomes(esp_raise_irq(m))
    BY <1>4, Zenon DEF ESP_Interrupt_Handler
  <2>2. /\ Shaped(m) /\ SameData(Machine, m) /\ m.chip = chip /\ m.event = event \ {"interrupt"}
        /\ Held(m) /\ (DataIn(m) <=> DataIn(Machine)) /\ (Connected(m) <=> Connected(Machine))
        /\ EmptyChannel(m) <=> EmptyChannel(Machine)
    BY <1>3
  <2>3. ~chip.irq /\ chip.inprogress /\ ~Moving(Machine)
    BY <1>1, <1>2, <2>1 DEF Ctl
  <2>4. esp_raise_irq(m) = IF m.line.enable THEN shown ELSE raised
    BY <2>2, <2>3, Zenon DEF esp_raise_irq
  <2> HIDE DEF m
  <2>5. /\ Shaped(raised) /\ SameData(m, raised) /\ raised.event = m.event
        /\ raised.chip.state = chip.state /\ raised.chip.io = chip.io
        /\ raised.chip.counter = chip.counter /\ raised.chip.inprogress
        /\ raised.chip.next = chip.next /\ raised.chip.waiting = chip.waiting
    BY <2>2, <2>3 DEF Shaped, Parts, Registers, SameData
  <2> HIDE DEF raised
  <2>6. /\ Shaped(shown) /\ SameData(raised, shown) /\ shown.event = raised.event
        /\ shown.chip = raised.chip
    BY <2>5 DEF Shaped, Parts, SameData, set_interrupt
  <2> HIDE DEF shown
  <2>7. Sound(raised)
    <3>1. /\ DataIn(raised) <=> DataIn(m)
          /\ DataOut(raised) <=> DataOut(m)
          /\ Connected(raised) <=> Connected(m)
          /\ EmptyChannel(raised) <=> EmptyChannel(m)
      BY <2>2, <2>5 DEF DataIn, DataOut, Connected, EmptyChannel, SameData
    <3>2. Quiet(m, raised)
      BY <2>2, <2>5, <3>1 DEF Quiet, SameData, Held, Typed
    <3>3. ~Moving(raised)
      BY <1>2, <2>2, <2>3, <2>5 DEF Moving
    <3>4. Ctl(raised)
      BY <1>1, <1>2, <2>2, <2>5, <3>1, <3>3 DEF Ctl
    <3> QED
      BY <2>2, <3>2, <3>4, QuietHeld DEF Sound
  <2>8. Sound(shown)
    BY <2>6, <2>7, SameSound
  <2> QED
    BY <2>1, <2>4, <2>7, <2>8, BecomesSound
<1>5. CASE ESP_IO_Handler
  <2> DEFINE m == Happens("io")
             n == CASE chip.io = "transfering" -> Transfer(m)
                    [] chip.io = "flushing" -> dma_esp_write_memory(m)
                    [] chip.io = "done" -> m
  <2>1. "io" \in event /\ Becomes(n)
    BY <1>5, Zenon DEF ESP_IO_Handler
  <2>2. chip.io \in {"transfering", "flushing", "done"}
    BY <1>1, <1>2 DEF Good, IoStates
  <2>3. /\ Shaped(m) /\ SameData(Machine, m) /\ m.chip = chip /\ m.event = event \ {"io"}
        /\ Held(m) /\ (DataIn(m) <=> DataIn(Machine)) /\ (Connected(m) <=> Connected(Machine))
        /\ EmptyChannel(m) <=> EmptyChannel(Machine)
    BY <1>3
  <2> HIDE DEF m
  <2>4. ~Moving(m) /\ Ctl(m)
    <3>1. ~Moving(m)
      BY <2>3 DEF Moving
    <3> QED
      BY <1>1, <1>2, <2>3, <3>1 DEF Ctl
  <2>5. CASE chip.io = "transfering"
    <3>1. n = Transfer(m)
      BY <2>5
    <3>2. Connected(m) /\ ~m.chip.irq /\ m.chip.inprogress /\ "interrupt" \notin m.event
      BY <1>1, <1>2, <2>1, <2>3, <2>5 DEF Ctl, Moving
    <3>3. m.event = {}
      <4>1. event \subseteq {"interrupt", "io"}
        BY <1>1, <1>2 DEF Good
      <4> QED
        BY <2>3, <3>2, <4>1
    <3>4. Sound(Transfer(m))
      BY <2>3, <2>5, <3>2, <3>3, TransferSound
    <3> QED
      BY <2>1, <3>1, <3>4, BecomesSound, Zenon
  <2>6. CASE chip.io = "flushing"
    <3> DEFINE w == dma_esp_write_memory(m)
    <3>1. n = w
      BY <2>6
    <3>2. DataIn(m) => Connected(m)
      BY <2>3, <2>4, <2>6 DEF Ctl
    <3>3. In(m) /\ Typed(m)
      BY <2>3, <2>6, <3>2 DEF In, Held, Ordered
    <3>4. In(w) /\ Follows(m, w) /\ SameChip(m, w)
      BY <2>3, <3>3, ToMemoryIn, DmaSameChip
    <3>5. ~m.dma.enable => w = m
      BY DEF dma_esp_write_memory
    <3> HIDE DEF w
    <3>6. Shaped(w) /\ w.chip.counter \in Nat /\ SameData(w, w) /\ w.chip.state = w.chip.state
      BY <3>4 DEF In, Typed, SameData
    <3>7. Held(w)
      BY <3>4, <3>6, InHeld
    <3>8. (DataIn(w) => DataIn(m)) /\ (Connected(w) <=> Connected(m))
      BY <3>4, FollowsPhase
    <3>9. ~Moving(w)
      BY <2>4, <3>4 DEF SameChip, Moving
    <3>10. EmptyChannel(m) => EmptyChannel(w)
      BY <3>5 DEF EmptyChannel
    <3>11. Ctl(w)
      BY <2>4, <3>2, <3>4, <3>8, <3>9, <3>10 DEF Ctl, SameChip
    <3> QED
      BY <2>1, <3>1, <3>7, <3>11, BecomesSound, Zenon DEF Sound
  <2>7. CASE chip.io = "done"
    <3>1. n = m
      BY <2>7
    <3> QED
      BY <2>1, <2>3, <2>4, <3>1, BecomesSound, Zenon DEF Sound
  <2> QED
    BY <2>2, <2>5, <2>6, <2>7
<1> QED
  BY <1>4, <1>5 DEF Events

(* The resets of the chip and of the machine.                              *)
LEMMA ResetSound ==
  ASSUME IInv, DInv, ChipReset \/ CtrlReset \/ MachineReset
  PROVE  DInv'
<1>1. Sound(Machine) /\ Good(Machine) /\ Shaped(Machine) /\ Held(Machine) /\ Ctl(Machine)
  BY DEF IInv, DInv, Good, Sound
<1> HIDE DEF Machine
<1>2. CASE ChipReset
  <2> DEFINE c == [op |-> "reset", count |-> 0]
  <2>1. Becomes(esp_command_write(Machine, c))
    BY <1>2, Zenon DEF ChipReset, Reset
  <2>2. c \in Command /\ c.op = "reset"
    BY DEF Command, SimpleOps
  <2> HIDE DEF c
  <2>3. Sound(esp_command_write(Machine, c))
    BY <1>1, <2>2, WriteSound
  <2> QED
    BY <2>1, <2>3, BecomesSound
<1>3. CASE CtrlReset
  <2> DEFINE h == esp_reset_hard(Machine)
  <2>1. Becomes(h)
    BY <1>3, Zenon DEF CtrlReset
  <2>2. /\ SameData(Machine, h) /\ Shaped(h) /\ h.chip.state = "disconnected"
        /\ h.chip.counter = 0 /\ h.chip.io = "done" /\ Ctl(h)
    BY <1>1, HardHeld
  <2> HIDE DEF h
  <2>3. Quiet(Machine, h)
    BY <2>2, ResetQuiet DEF SameData, DataIn
  <2> QED
    BY <1>1, <2>1, <2>2, <2>3, QuietHeld, BecomesSound DEF Sound
<1>4. CASE MachineReset
  <2> DEFINE m == [Machine EXCEPT !.dma = Initialized(@)]
             h == esp_reset_hard(m)
             d == SCSI_Reset(Machine.disk)
             n == [h EXCEPT !.disk = SCSI_Reset(@)]
  <2>1. Becomes(n)
    BY <1>4, Zenon DEF MachineReset
  <2>2. Good(m)
    BY <1>1 DEF Good, Shaped, Parts, Registers
  <2>3. /\ m.disk = Machine.disk /\ m.log = Machine.log /\ m.phase = Machine.phase
        /\ m.dma = Initialized(Machine.dma)
    BY <1>1 DEF Shaped, Parts
  <2> HIDE DEF m
  <2>4. /\ SameData(m, h) /\ Shaped(h) /\ h.chip.state = "disconnected"
        /\ h.chip.counter = 0 /\ h.chip.io = "done" /\ Ctl(h)
    BY <2>2, HardHeld
  <2>9. Clean(h)
    BY <2>2, HardOK
  <2> HIDE DEF h
  <2> DEFINE media == Inserted(Machine.disk.media)
  <2>10. h.disk = Machine.disk /\ h.log = Machine.log /\ h.phase = Machine.phase
         /\ h.dma = Initialized(Machine.dma)
    BY <2>3, <2>4 DEF SameData
  <2>12. n = [h EXCEPT !.disk = d]
    BY <2>10
  <2> HIDE DEF n, d
  <2>5. /\ Shaped(n) /\ n.chip = h.chip /\ n.event = h.event /\ n.phase = Machine.phase
        /\ n.log = Machine.log /\ n.dma = Initialized(Machine.dma) /\ n.disk = d
    BY <2>4, <2>10, <2>12 DEF Shaped, Parts
  <2>6. DiskOK(n.disk) /\ n.disk.data = Machine.disk.data
    <3>1. DiskOK(Machine.disk)
      BY <1>1 DEF Held, Typed
    <3>2. DOMAIN Machine.disk = DiskFields /\ MediaOK(Machine.disk.media)
      BY <3>1 DEF DiskOK
    <3>3. /\ DOMAIN n.disk = DiskFields /\ n.disk.lba = 0 /\ n.disk.blockcounter = 0
          /\ n.disk.size = Machine.disk.size /\ n.disk.limit = Machine.disk.limit
          /\ n.disk.from = Machine.disk.from /\ n.disk.data = Machine.disk.data
          /\ n.disk.media = media
      BY <2>5, <3>2 DEF DiskFields, d, SCSI_Reset
    <3>4. MediaOK(media)
      <4>1. DOMAIN media = MediaFields /\ media.overlay = Machine.disk.media.overlay
            /\ media.overlay \in BOOLEAN /\ media.written = {} /\ media.blocks = 0
            /\ media.lost = {}
        BY <3>2 DEF MediaOK, MediaFields, Inserted
      <4>2. media.table = FALSE
        BY <3>2 DEF MediaOK, MediaFields, Inserted
      <4> HIDE DEF media
      <4> QED
        BY <4>1, <4>2, FreshMedia
    <3> HIDE DEF media
    <3> QED
      BY <3>1, <3>3, <3>4 DEF DiskOK
  <2>7. Held(n)
    <3>1. n.chip.counter \in Nat /\ n.chip.state = "disconnected"
      BY <2>4, <2>5
    <3> QED
      BY <1>1, <2>5, <2>6, <3>1, DroppedHeld
  <2>8. Ctl(n)
    BY <2>4, <2>5, <2>9 DEF Clean, Ctl, Moving
  <2> QED
    BY <2>1, <2>7, <2>8, BecomesSound DEF Sound
<1> QED
  BY <1>2, <1>3, <1>4

(* DMA_CSR_Write: the channel is initialised, started, chained or ended.   *)
LEMMA ChannelStepSound ==
  ASSUME IInv, DInv, DmaInit \/ DmaStart \/ DmaChain \/ DmaEnd
  PROVE  DInv'
<1>1. Sound(Machine) /\ Good(Machine) /\ Shaped(Machine) /\ Held(Machine) /\ Ctl(Machine)
      /\ DmaOK(Machine.dma)
  BY DEF IInv, DInv, Good, Sound, Held, Typed
<1>2. /\ Machine.chip = chip /\ Machine.event = event /\ Machine.phase = phase
      /\ Machine.disk = disk /\ Machine.dma = dma /\ Machine.log = log
  BY DEF Machine
<1>3. /\ DOMAIN Machine' = Parts /\ Machine'.chip = chip' /\ Machine'.event = event'
      /\ Machine'.phase = phase' /\ Machine'.disk = disk' /\ Machine'.dma = dma'
      /\ Machine'.log = log'
  BY DEF Machine, Parts
<1> HIDE DEF Machine
<1>4. UNCHANGED <<chip, event, phase, disk, log>>
  BY DEF DmaInit, DmaStart, DmaChain, DmaEnd, DmaChannel
<1>5. /\ Shaped(Machine') /\ Machine'.chip = Machine.chip /\ Machine'.event = Machine.event
      /\ Machine'.disk = Machine.disk /\ Machine'.phase = Machine.phase
      /\ Machine'.log = Machine.log /\ Machine'.dma = dma'
  BY <1>1, <1>2, <1>3, <1>4 DEF Shaped
<1>6. ASSUME dma'.buf = dma.buf, DmaOK(dma'),
             Connected(Machine) \/ (dma'.enable = dma.enable /\ dma'.filled = dma.filled)
      PROVE  DInv'
  BY <1>1, <1>2, <1>5, <1>6, ChannelSound DEF DInv
<1>7. CASE DmaInit
  <2>1. dma' = Initialized(dma) /\ chip.state = "disconnected" /\ ~chip.inprogress
    BY <1>7, Zenon DEF DmaInit, DmaChannel
  <2>2. Machine'.chip.counter \in Nat
    BY <1>1, <1>5 DEF Held, Typed
  <2>3. Held(Machine')
    BY <1>1, <1>2, <1>5, <2>1, <2>2, DroppedHeld DEF Held, Typed
  <2>4. /\ DataIn(Machine') <=> DataIn(Machine)
        /\ Connected(Machine') <=> Connected(Machine)
        /\ Moving(Machine') <=> Moving(Machine)
    BY <1>5 DEF DataIn, Connected, Moving
  <2>5. ~Machine.chip.waiting
    BY <1>1, <1>2, <2>1 DEF Good
  <2>6. Ctl(Machine')
    BY <1>1, <1>5, <2>4, <2>5 DEF Ctl
  <2> QED
    BY <2>3, <2>6 DEF DInv, Sound
<1>8. CASE DmaStart
  <2>1. Connected(Machine)
    BY <1>2, <1>8 DEF DmaStart, Connected
  <2>2. dma'.buf = dma.buf /\ DmaOK(dma')
    <3>1. PICK length \in Segments, next \in Segments \cup {0} :
            dma' = [dma EXCEPT !.enable = TRUE, !.complete = FALSE, !.left = length,
                               !.after = next, !.supdate = next # 0]
      BY <1>8, Zenon DEF DmaStart, DmaChannel
    <3>2. length \in Nat /\ next \in Nat
      <4>1. Segments \subseteq Nat
        BY EspAssumption, Zenon
      <4> QED
        BY <4>1
    <3> QED
      BY <1>1, <1>2, <3>1, <3>2 DEF DmaOK, DmaFields
  <2> QED
    BY <1>6, <2>1, <2>2
<1>9. CASE DmaChain
  <2>1. PICK next \in Segments :
          dma' = [dma EXCEPT !.complete = FALSE, !.after = next, !.supdate = TRUE]
    BY <1>9, Zenon DEF DmaChain, DmaChannel
  <2>2. next \in Nat
    <3>1. Segments \subseteq Nat
      BY EspAssumption, Zenon
    <3> QED
      BY <3>1
  <2>3. dma'.buf = dma.buf /\ DmaOK(dma') /\ dma'.enable = dma.enable /\ dma'.filled = dma.filled
    BY <1>1, <1>2, <2>1, <2>2 DEF DmaOK, DmaFields
  <2> QED
    BY <1>6, <2>3
<1>10. CASE DmaEnd
  <2>1. dma' = [dma EXCEPT !.complete = FALSE]
    BY <1>10, Zenon DEF DmaEnd, DmaChannel
  <2>2. dma'.buf = dma.buf /\ DmaOK(dma') /\ dma'.enable = dma.enable /\ dma'.filled = dma.filled
    BY <1>1, <1>2, <2>1 DEF DmaOK, DmaFields
  <2> QED
    BY <1>6, <2>2
<1> QED
  BY <1>7, <1>8, <1>9, <1>10

(* The guest's driver.                                                     *)
LEMMA GuestSound == IInv /\ DInv /\ Guest => DInv'
<1> SUFFICES ASSUME IInv, DInv, Guest PROVE DInv'
  OBVIOUS
<1>1. Sound(Machine) /\ Good(Machine) /\ Shaped(Machine) /\ Held(Machine) /\ Ctl(Machine)
  BY DEF IInv, DInv, Good, Sound
<1>2. /\ Machine.chip = chip /\ Machine.event = event /\ Machine.dma = dma
  BY DEF Machine
<1> HIDE DEF Machine
<1>3. CASE ESP_Command_Write
  <2>1. PICK c \in Command :
          /\ c.op \notin {"reset", "busreset", "busreset_quiet"} /\ Sensible(c)
          /\ Becomes(esp_command_write(Machine, c))
    BY <1>3, Zenon DEF ESP_Command_Write
  <2>2. c.op = "sel" => EmptyChannel(Machine)
    BY <1>2, <2>1 DEF Sensible, EmptyChannel
  <2>3. Sound(esp_command_write(Machine, c))
    BY <1>1, <2>1, <2>2, WriteSound
  <2> QED
    BY <2>1, <2>3, BecomesSound
<1>4. CASE ChipReset \/ CtrlReset
  BY <1>4, ResetSound
<1>5. CASE BusReset
  <2>1. \A op \in {"busreset", "busreset_quiet"} :
          [op |-> op, count |-> 0] \in Command /\ [op |-> op, count |-> 0].op = op
    BY DEF Command, SimpleOps
  <2>2. PICK op \in {"busreset", "busreset_quiet"} :
          /\ Becomes(esp_command_write(Machine, [op |-> op, count |-> 0]))
          /\ op = "busreset" \/ "interrupt" \notin event
    BY <1>5, Zenon DEF BusReset, Reset
  <2> DEFINE c == [op |-> op, count |-> 0]
  <2>3. c \in Command /\ c.op = op
    BY <2>1
  <2>4. ~chip.irq
    BY <1>5 DEF BusReset
  <2> HIDE DEF c
  <2>5. Sound(esp_command_write(Machine, c))
    BY <1>1, <1>2, <2>2, <2>3, <2>4, WriteSound
  <2> QED
    BY <2>2, <2>5, BecomesSound DEF c
<1>6. CASE ESP_IntStatus_Read
  <2> DEFINE m == [Machine EXCEPT !.chip.intstatus = {}]
             n == set_interrupt([m EXCEPT !.chip.irq = FALSE], FALSE)
  <2>1. Becomes(esp_lower_irq(m)) /\ chip.irq
    BY <1>6, Zenon DEF ESP_IntStatus_Read
  <2>2. esp_lower_irq(m) = esp_finish_command(n)
    BY Zenon DEF esp_lower_irq
  <2>3. Good(m)
    BY <1>1 DEF Good, Shaped, Parts, Registers
  <2>4. /\ SameData(Machine, m) /\ m.event = event /\ m.chip.state = chip.state
        /\ m.chip.io = chip.io /\ m.chip.counter = chip.counter
        /\ m.chip.next = chip.next /\ m.chip.waiting = chip.waiting
    BY <1>1, <1>2 DEF Shaped, Parts, Registers, SameData
  <2> HIDE DEF m
  <2>5. Good(n)
    BY <2>3 DEF Good, Shaped, Parts, Registers, set_interrupt
  <2>6. /\ SameData(m, n) /\ n.event = m.event /\ n.chip.state = m.chip.state
        /\ n.chip.io = m.chip.io /\ n.chip.counter = m.chip.counter
        /\ n.chip.next = m.chip.next /\ n.chip.waiting = m.chip.waiting /\ ~n.chip.irq
    BY <2>3 DEF Good, Shaped, Parts, Registers, SameData, set_interrupt
  <2> HIDE DEF n
  <2>7. SameData(Machine, n)
    BY <2>4, <2>6 DEF SameData
  <2>8. /\ DataIn(n) <=> DataIn(Machine)
        /\ DataOut(n) <=> DataOut(Machine)
        /\ Connected(n) <=> Connected(Machine)
        /\ Moving(n) <=> Moving(Machine)
        /\ EmptyChannel(n) <=> EmptyChannel(Machine)
    BY <1>2, <2>4, <2>6, <2>7
       DEF DataIn, DataOut, Connected, Moving, EmptyChannel, SameData
  <2>9. Quiet(Machine, n)
    BY <1>1, <1>2, <2>4, <2>5, <2>6, <2>7, <2>8 DEF Quiet, SameData, Held, Typed, Good
  <2>10. Held(n)
    BY <1>1, <2>9, QuietHeld
  <2>11. /\ "interrupt" \notin n.event /\ ~Moving(n)
         /\ DataIn(n) /\ n.chip.io # "done" => Connected(n)
         /\ n.chip.waiting /\ n.chip.next.op = "sel" => Connected(n) \/ EmptyChannel(n)
    BY <1>1, <1>2, <2>1, <2>4, <2>6, <2>8 DEF Ctl
  <2>12. Sound(esp_finish_command(n))
    BY <2>5, <2>6, <2>10, <2>11, FinishSound
  <2> QED
    BY <2>1, <2>2, <2>12, BecomesSound, Zenon
<1>7. CASE CtrlFlush
  <2> DEFINE w == dma_esp_flush_buffer(Machine)
  <2>1. chip.io = "flushing" /\ dma.buf # <<>> /\ Becomes(w)
    BY <1>7, Zenon DEF CtrlFlush
  <2>2. DataIn(Machine) => Connected(Machine)
    BY <1>1, <1>2, <2>1 DEF Ctl
  <2>3. In(Machine)
    BY <1>1, <1>2, <2>1, <2>2 DEF In, Held, Ordered
  <2>4. In(w) /\ Follows(Machine, w) /\ SameChip(Machine, w)
    BY <1>1, <1>2, <2>1, <2>3, FlushIn, DmaSameChip
  <2> HIDE DEF w
  <2>5. Shaped(w) /\ w.chip.counter \in Nat /\ SameData(w, w) /\ w.chip.state = w.chip.state
    BY <2>4 DEF In, Typed, SameData
  <2>6. Held(w)
    BY <2>4, <2>5, InHeld
  <2>7. (DataIn(w) => DataIn(Machine)) /\ (Connected(w) <=> Connected(Machine))
    BY <2>4, FollowsPhase
  <2>8. Moving(w) <=> Moving(Machine)
    BY <2>4 DEF SameChip, Moving
  <2>9. ~EmptyChannel(Machine)
    BY <1>2, <2>1 DEF EmptyChannel
  <2>10. Ctl(w)
    BY <1>1, <2>2, <2>4, <2>7, <2>8, <2>9 DEF Ctl, SameChip
  <2> QED
    BY <2>1, <2>6, <2>10, BecomesSound DEF Sound
<1>8. CASE CtrlEnable
  <2> DEFINE off == set_interrupt([Machine EXCEPT !.line.enable = FALSE], FALSE)
             on  == [Machine EXCEPT !.line = [enable |-> TRUE, scsi |-> chip.irq]]
  <2>1. Becomes(off) \/ Becomes(on)
    BY <1>8, Zenon DEF CtrlEnable
  <2>2. /\ Shaped(off) /\ off.chip = Machine.chip /\ off.event = Machine.event
        /\ SameData(Machine, off)
    BY <1>1 DEF Shaped, Parts, Registers, set_interrupt, SameData
  <2>3. /\ Shaped(on) /\ on.chip = Machine.chip /\ on.event = Machine.event
        /\ SameData(Machine, on)
    BY <1>1 DEF Shaped, Parts, Registers, SameData
  <2> HIDE DEF off, on
  <2>4. Sound(off) /\ Sound(on)
    BY <1>1, <2>2, <2>3, SameSound
  <2> QED
    BY <2>1, <2>4, BecomesSound
<1>9. CASE DmaInit \/ DmaStart \/ DmaChain \/ DmaEnd
  BY <1>9, ChannelStepSound
<1> QED
  BY <1>3, <1>4, <1>5, <1>6, <1>7, <1>8, <1>9 DEF Guest

(* Every step.                                                             *)
LEMMA NextSound == IInv /\ DInv /\ [Next]_vars => DInv'
<1> SUFFICES ASSUME IInv, DInv, [Next]_vars PROVE DInv'
  OBVIOUS
<1>1. CASE UNCHANGED vars
  <2>1. Machine' = Machine
    BY <1>1 DEF vars, Machine
  <2> QED
    BY <2>1 DEF DInv
<1> QED
  BY <1>1, EventsSound, GuestSound, ResetSound DEF Next

(* Words that follow one another, joined.                                  *)
LEMMA JoinedTwo ==
  ASSUME NEW s \in Seq(Int), NEW t \in Seq(Int), NEW b \in Int, From(s, b), From(t, b + Len(s))
  PROVE  \A words \in {s \o t} : \A i \in 1 .. Len(words) : words[i] = b + i
<1>1. From(s \o t, b)
  BY FromConcat
<1> QED
  BY <1>1 DEF From

(* Three of them.                                                          *)
LEMMA JoinedThree ==
  ASSUME NEW s \in Seq(Int), NEW t \in Seq(Int), NEW u \in Seq(Int),
         From(s, 0), From(t, Len(s)), From(u, Len(s) + Len(t))
  PROVE  \A words \in {s \o t \o u} : \A i \in 1 .. Len(words) : words[i] = i
<1> DEFINE st == s \o t
<1>1. Len(s) \in Nat /\ Len(t) \in Nat /\ 0 \in Int
  OBVIOUS
<1>2. From(t, 0 + Len(s)) /\ From(u, 0 + (Len(s) + Len(t)))
  BY <1>1
<1>3. st \in Seq(Int) /\ Len(st) = Len(s) + Len(t) /\ From(st, 0)
  BY <1>1, <1>2, FromConcat
<1> HIDE DEF st
<1>4. From(u, 0 + Len(st))
  BY <1>2, <1>3
<1>5. \A words \in {st \o u} : \A i \in 1 .. Len(words) : words[i] = 0 + i
  BY <1>1, <1>3, <1>4, JoinedTwo
<1>6. \A words \in {st \o u} : \A i \in 1 .. Len(words) : words[i] = i
  <2>1. st \o u \in Seq(Int) /\ Len(st \o u) \in Nat
    BY <1>3
  <2> TAKE words \in {st \o u}
  <2>2. Len(words) \in Nat
    BY <2>1
  <2> TAKE i \in 1 .. Len(words)
  <2>3. words[i] = 0 + i
    BY <1>5, Zenon
  <2>4. 0 + i = i
    BY <2>2
  <2> QED
    BY <2>3, <2>4
<1> QED
  BY <1>6 DEF st

(* What the order says of a machine: the words moved are those of the disk *)
(* or of the memory, each once and in its place.                           *)
LEMMA HeldInOrder ==
  ASSUME DInv
  PROVE  DataInOrder
<1>1. /\ Machine.chip = chip /\ Machine.phase = phase /\ Machine.disk = disk
      /\ Machine.dma = dma /\ Machine.log = log
  BY DEF Machine
<1> HIDE DEF Machine
<1>2. /\ DiskOK(disk) /\ DmaOK(dma) /\ LogOK(log) /\ Ordered(Machine)
  BY <1>1 DEF DInv, Sound, Held, Typed
<1>3. /\ disk.data \in Seq(Int) /\ dma.buf \in Seq(Int) /\ log.memory \in Seq(Int)
      /\ log.platter \in Seq(Int \X Int) /\ log.base \in Nat /\ log.loaded \in Nat
  BY <1>2 DEF DiskOK, DmaOK, LogOK
<1> SUFFICES ASSUME ~log.skipped PROVE
       /\ log.loaded = 0 =>
            \A words \in {log.memory \o dma.buf} :
              \A i \in 1 .. Len(words) : words[i] = log.base + i
       /\ log.loaded # 0 =>
            \A words \in {[i \in 1 .. Len(log.platter) |-> log.platter[i][2]]
                         \o disk.data \o dma.buf} :
              \A i \in 1 .. Len(words) : words[i] = i
       /\ \A i \in 1 .. Len(log.platter) : log.platter[i][1] = log.base + i
  <2>1. disk.media.lost \subseteq IF disk.media.overlay THEN {1} ELSE {}
    BY <1>2 DEF DiskOK, MediaOK
  <2> QED
    BY <2>1, Zenon DEF DataInOrder
<1>4. ReadOrder(Machine) \/ WriteOrder(Machine)
  BY <1>1, <1>2 DEF Ordered, Skipped
<1> DEFINE out == [i \in 1 .. Len(log.platter) |-> log.platter[i][2]]
<1>5. log.base \in Int /\ Len(log.memory) \in Nat /\ Len(log.platter) \in Nat
      /\ Len(disk.data) \in Nat /\ Len(dma.buf) \in Nat
  BY <1>3
<1>6. CASE ReadOrder(Machine)
  <2>1. ToMemory(dma, log)
    BY <1>1, <1>6 DEF ReadOrder
  <2>2. log.loaded = 0 /\ log.platter = <<>> /\ From(log.memory, log.base)
        /\ From(dma.buf, log.base + Len(log.memory))
    BY <2>1 DEF ToMemory
  <2>3. \A words \in {log.memory \o dma.buf} :
          \A i \in 1 .. Len(words) : words[i] = log.base + i
    BY <1>3, <1>5, <2>2, JoinedTwo
  <2>4. 1 .. Len(log.platter) = {}
    BY <2>2
  <2> QED
    BY <2>2, <2>3, <2>4, Zenon
<1>7. CASE WriteOrder(Machine)
  <2>1. ToDisk(disk.data, dma, log) /\ Stored(disk.data, dma, log) <= log.loaded
    BY <1>1, <1>7 DEF WriteOrder
  <2>2. /\ log.memory = <<>> /\ OnDisk(log.platter, log.base)
        /\ From(disk.data, Len(log.platter))
        /\ From(dma.buf, Len(log.platter) + Len(disk.data))
        /\ Len(log.platter) + Len(disk.data) + Len(dma.buf) <= log.loaded
    BY <2>1 DEF ToDisk, Stored
  <2>3. \A i \in 1 .. Len(log.platter) : log.platter[i] = <<log.base + i, i>>
    BY <2>2 DEF OnDisk
  <2>4. out \in Seq(Int) /\ Len(out) = Len(log.platter) /\ From(out, 0)
    <3>1. \A i \in 1 .. Len(log.platter) : log.platter[i][2] = i
      BY <2>3
    <3>2. out = [i \in 1 .. Len(log.platter) |-> i]
      BY <3>1
    <3> HIDE DEF out
    <3>3. out \in Seq(Int) /\ Len(out) = Len(log.platter)
      BY <1>5, <3>2
    <3>4. \A i \in 1 .. Len(out) : out[i] = 0 + i
      BY <1>5, <3>2, <3>3
    <3> QED
      BY <3>3, <3>4 DEF From
  <2> HIDE DEF out
  <2>5. \A words \in {out \o disk.data \o dma.buf} : \A i \in 1 .. Len(words) : words[i] = i
    BY <1>3, <2>2, <2>4, JoinedThree
  <2>6. ASSUME log.loaded = 0
        PROVE  \A words \in {log.memory \o dma.buf} :
                 \A i \in 1 .. Len(words) : words[i] = log.base + i
    <3>1. \A x, y, z \in Nat : x + y + z <= 0 => z = 0
      OBVIOUS
    <3>2. Len(dma.buf) = 0
      BY <1>5, <2>2, <2>6, <3>1
    <3>3. Len(log.memory) = 0
      BY <2>2
    <3>4. Len(log.memory \o dma.buf) = 0
      <4>1. Len(log.memory \o dma.buf) = Len(log.memory) + Len(dma.buf)
        BY <1>3
      <4> QED
        BY <3>2, <3>3, <4>1
    <3>5. 1 .. Len(log.memory \o dma.buf) = {}
      BY <3>4
    <3> QED
      BY <3>5, Zenon
  <2>7. \A i \in 1 .. Len(log.platter) : log.platter[i][1] = log.base + i
    BY <2>3
  <2> QED
    BY <2>5, <2>6, <2>7 DEF out
<1> QED
  BY <1>4, <1>6, <1>7

(* No word is lost, doubled or moved between disk and memory, however a    *)
(* transfer is cut into counts, blocks, bursts and buffers.                *)
THEOREM DataIsOrdered == Spec => []DataInOrder
<1>1. Init => IInv /\ DInv
  BY InitOK, InitSound
<1>2. IInv /\ DInv /\ [Next]_vars => IInv' /\ DInv'
  BY NextOK, NextSound
<1>3. DInv => DataInOrder
  BY HeldInOrder
<1> QED
  BY <1>1, <1>2, <1>3, PTL DEF Spec

(* An overlay misses at most one of the blocks the guest has written since *)
(* the machine was reset, whatever it writes and wherever it is cut off    *)
(* (scsi_write_sector).                                                    *)
THEOREM OverlayIsKept == Spec => []OverlayKeeps
<1>1. Init => IInv /\ DInv
  BY InitOK, InitSound
<1>2. IInv /\ DInv /\ [Next]_vars => IInv' /\ DInv'
  BY NextOK, NextSound
<1>3. DInv => OverlayKeeps
  <2>1. Machine.disk = disk
    BY DEF Machine
  <2> HIDE DEF Machine
  <2>2. DInv => MediaOK(disk.media)
    BY <2>1 DEF DInv, Sound, Held, Typed, DiskOK
  <2> QED
    BY <2>2 DEF MediaOK, OverlayKeeps
<1> QED
  BY <1>1, <1>2, <1>3, PTL DEF Spec
=============================================================================
