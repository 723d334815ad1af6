-------------------------------- MODULE Esp --------------------------------
(***************************************************************************)
(* The SCSI controller of src/src/esp.c with the disk on its bus (scsi.c)  *)
(* and its DMA channel (dma.c).  A command starts at once or waits in the  *)
(* second rank of the command register; it ends when the guest reads the   *)
(* interrupt status.  Interrupts and transfers are delayed events, and a   *)
(* reset or the next command may come between any two of them.             *)
(*                                                                         *)
(* Abstractions: one disk, whose words are numbered; a word is the unit of *)
(* every count, so a burst is whole words.  The command block travels with *)
(* the select command and the transfer count with the command that loads   *)
(* it; the chip's FIFO, which the guest fills and drains in between, is    *)
(* left out and with it programmed I/O, as are sequence step, timing, the  *)
(* floppy drive that shares the channel and bus errors.  Commands on which *)
(* the emulator aborts are never given.                                    *)
(***************************************************************************)
EXTENDS Integers, Sequences

CONSTANTS
  DMA_BURST_SIZE, BLOCK, Blocks,   \* words of a burst and of a block; blocks of the disk
  Cdbs,                            \* command blocks the guest sends: [op, lba, count]
  Counts,                          \* transfer counts
  Segments,                        \* lengths of the DMA buffers
  Protections,                     \* what may protect the image: [readonly, overlay]
  MaxCommands,                     \* bound: commands the guest writes
  MaxFaults                        \* bound: resets, toggles of the interrupt enable

ASSUME EspAssumption ==
  /\ {DMA_BURST_SIZE, BLOCK, Blocks} \subseteq Nat \ {0}
  /\ Cdbs \subseteq [op : {"read", "write", "inquiry", "test"}, lba : Nat, count : Nat]
  /\ Counts \subseteq Nat \ {0} /\ Segments \subseteq Nat \ {0}
  /\ Protections \subseteq [readonly : BOOLEAN, overlay : BOOLEAN]
  /\ MaxCommands \in Nat /\ MaxFaults \in Nat

VARIABLES
  chip,      \* registers and state of the controller
  line,      \* ESPCTRL_ENABLE_INT and INT_SCSI
  event,     \* the pending events among "interrupt" and "io"
  phase,     \* SCSIbus.phase
  disk,      \* scsi_buffer and SCSIdisk with its media: whether the image is read-only,
             \* or WRITEPROT_ON keeps it clean (overlay); whether the overlay has its table
             \* (shadow), and the blocks the table has copies of.
             \* History: whether the buffer's block is older than what was written (stale);
             \* the blocks written since the machine's reset that the image did not get;
             \* how many blocks the command wrote, and which of them were not kept (lost)
  dma,       \* the SCSI channel and espdma_buf
  log,       \* what the last command moved: the words stored in memory; the number
             \* loaded from it; <<address, word>> for each the disk was given to write; the
             \* address it started at, 0 for data that is not the disk's; whether words
             \* were skipped
  commands, faults

vars == <<chip, line, event, phase, disk, dma, log, commands, faults>>

None == [op |-> "none", count |-> 0]
SimpleOps == {"nop", "flush", "iccs", "msgacc", "reset", "busreset", "busreset_quiet"}
Command == {[op |-> o, count |-> 0] : o \in SimpleOps}
           \cup [op : {"ti", "pad"}, count : Counts]
           \cup [op : {"sel"}, cdb : Cdbs] \cup {[op |-> "sel_absent"]}

(* What an operation may change, as one value: operations call each other. *)
Machine == [chip |-> chip, line |-> line, event |-> event, phase |-> phase, disk |-> disk,
            dma |-> dma, log |-> log]

Becomes(m) ==
  /\ chip' = m.chip /\ line' = m.line /\ event' = m.event /\ phase' = m.phase
  /\ disk' = m.disk /\ dma' = m.dma /\ log' = m.log

(* What a transfer moves: data, with its counters and the bus phase.       *)
Moved(m, r) ==
  [m EXCEPT !.chip.counter = r.chip.counter, !.phase = r.phase, !.disk = r.disk,
            !.dma = r.dma, !.log = r.log]

(* A loop of a transfer: n rounds of Body, which changes nothing at the end. *)
Rounds(Body(_), n, m) ==
  LET after[k \in 0 .. n] == IF k = 0 THEN m ELSE Body(after[k - 1])
  IN Moved(m, after[n])

----------------------------------------------------------------------------
(* The disk.                                                               *)

(* Where a block begins: the words before it. *)
Offset(lba) == lba * BLOCK

CheckCondition(m) == [m EXCEPT !.disk.status = "check", !.phase = "status"]

(* The next block comes into the buffer, of the overlay if it has it.      *)
SectorRead(d) ==
  [d EXCEPT !.size = BLOCK, !.limit = BLOCK, !.from = Offset(d.lba), !.lba = @ + 1,
            !.blockcounter = @ - 1, !.stale = d.lba \in d.media.written \ d.media.copies]

scsi_read_sector(m) ==
  IF m.disk.blockcounter = 0 THEN [m EXCEPT !.phase = "status"]
  ELSE IF m.disk.lba >= Blocks THEN CheckCondition(m)
  ELSE [m EXCEPT !.disk = SectorRead(@)]

(* Mutant: every block makes the overlay's table anew. *)
OverlaidAnew(d, lba) ==
  LET next == [d EXCEPT !.blocks = @ + 1]
  IN IF ~d.overlay THEN next
     ELSE [next EXCEPT !.table = TRUE, !.copies = {}, !.written = @ \cup {lba},
                       !.lost = @ \cup {next.blocks}]

(* What becomes of a block that is written.  An overlay keeps a copy, but   *)
(* the first block only makes the table of the copies, and is lost.        *)
Overlaid(d, lba) ==
  LET next == [d EXCEPT !.blocks = @ + 1]
  IN CASE ~d.overlay -> next
       [] d.overlay /\ ~d.table -> [next EXCEPT !.table = TRUE, !.written = @ \cup {lba},
                                                !.lost = @ \cup {next.blocks}]
       [] d.overlay /\ d.table -> [next EXCEPT !.copies = @ \cup {lba},
                                               !.written = @ \cup {lba}]

SectorWritten(d) ==
  [d EXCEPT !.media = Overlaid(@, d.lba), !.size = 0, !.data = <<>>, !.lba = @ + 1,
            !.blockcounter = @ - 1]

scsi_write_sector(m) ==
  IF m.disk.lba >= Blocks THEN CheckCondition(m)
  ELSE [m EXCEPT
    !.log.platter = @ \o [i \in 1 .. BLOCK |-> <<Offset(m.disk.lba) + i, m.disk.data[i]>>],
    !.disk = SectorWritten(@),
    !.phase = IF m.disk.blockcounter = 1 THEN "status" ELSE @]

(* SCSIdisk_Send_Data: the next word of the buffer, and what the phase is  *)
(* after it.                                                               *)
SentWord(m) == m.disk.from + m.disk.limit - m.disk.size + 1

SCSIdisk_Send_Data(m) ==
  LET sent == [m EXCEPT !.disk.size = @ - 1]
  IN IF sent.disk.size # 0 THEN sent
     ELSE IF m.disk.disk THEN scsi_read_sector(sent) ELSE [sent EXCEPT !.phase = "status"]

(* SCSIdisk_Receive_Data                                                   *)
SCSIdisk_Receive_Data(m, word) ==
  LET got == [m EXCEPT !.disk.data = Append(@, word), !.disk.size = @ + 1]
  IN IF got.disk.size = got.disk.limit THEN scsi_write_sector(got) ELSE got

(* What every command sets up.  One that opens no data phase leaves the    *)
(* buffer alone, which nothing reads before the next command.              *)
Commanded(d, cdb) ==
  [d EXCEPT !.status = "good", !.lba = cdb.lba, !.blockcounter = cdb.count, !.size = 0,
            !.data = <<>>, !.from = 0, !.disk = TRUE, !.stale = FALSE,
            !.media = [@ EXCEPT !.blocks = 0, !.lost = {}]]

(* SCSIdisk_Receive_Command: which data phase a command opens.             *)
SCSIdisk_Receive_Command(m, cdb) ==
  LET good == [m EXCEPT !.disk = Commanded(@, cdb),
                        !.log = [memory |-> <<>>, loaded |-> 0, platter |-> <<>>,
                                 base |-> IF cdb.op = "inquiry" THEN 0 ELSE Offset(cdb.lba),
                                 skipped |-> FALSE]]
      Opened(p) == IF cdb.count = 0 THEN "status" ELSE p
  IN CASE cdb.op = "read" -> scsi_read_sector([good EXCEPT !.phase = Opened("data in")])
       [] cdb.op = "write" ->
            IF m.disk.media.readonly THEN CheckCondition(good)
            ELSE [good EXCEPT !.disk.limit = BLOCK, !.phase = Opened("data out")]
       [] cdb.op = "inquiry" -> [good EXCEPT !.disk.size = cdb.count, !.disk.limit = cdb.count,
                                             !.disk.disk = FALSE, !.phase = Opened("data in")]
       [] cdb.op = "test" -> [good EXCEPT !.phase = "status"]

----------------------------------------------------------------------------
(* The command register and the chip's commands.                           *)

Soon(m, e) == [m EXCEPT !.event = @ \cup {e}]

set_interrupt(m, on) == [m EXCEPT !.line.scsi = on]

esp_command_clear(m) ==
  IF m.chip.next.op = "reset" THEN m ELSE [m EXCEPT !.chip.next = None, !.chip.waiting = FALSE]

(* Ends a command after which none can be waiting.                         *)
Idle(m) == [m EXCEPT !.chip.inprogress = FALSE]

(* Mutant: a reset of the bus or the chip leaves the transfer's event. *)
esp_reset_softKeepsEvent(m) ==
  esp_command_clear([m EXCEPT !.chip.tc = FALSE, !.chip.counter = 0,
                              !.chip.state = "disconnected", !.chip.io = "done"])

esp_reset_soft(m) ==
  esp_command_clear([m EXCEPT !.chip.tc = FALSE, !.chip.counter = 0,
                              !.chip.state = "disconnected", !.chip.io = "done",
                              !.event = @ \ {"io"}])

(* A reset that was waiting itself is done a second time, to the same end. *)
esp_reset_hard(m) ==
  LET clean == set_interrupt([m EXCEPT !.chip.irq = FALSE, !.chip.intstatus = {}], FALSE)
      soft == Idle(esp_reset_soft(clean))
  IN [soft EXCEPT !.event = @ \ {"interrupt"}, !.chip.waiting = FALSE,
                  !.chip.next = IF soft.chip.waiting THEN None ELSE @]

esp_bus_reset(m, quiet) ==
  LET soft == esp_reset_soft(m)
  IN IF quiet THEN Idle(soft)
     ELSE Soon([soft EXCEPT !.chip.intstatus = {"rst"}, !.phase = "data out"], "interrupt")

esp_select(m, cdb) ==
  Soon(esp_command_clear(
         [SCSIdisk_Receive_Command(m, cdb) EXCEPT !.chip.intstatus = {"bs", "fc"},
                                                  !.chip.state = "initiator"]), "interrupt")

SelectTimeout(m) ==
  Soon(esp_command_clear([m EXCEPT !.chip.intstatus = {"dc"}, !.chip.state = "disconnected",
                                   !.phase = "status"]), "interrupt")

(* Does the transfer end here?                                             *)
Ended(m, p) == m.chip.counter = 0 \/ m.phase # p

esp_transfer_done(m, p) ==
  IF m.chip.counter = 0
  THEN Soon([m EXCEPT !.chip.intstatus = {"bs"}, !.chip.tc = TRUE], "interrupt")
  ELSE IF Ended(m, p)
       THEN Soon([esp_command_clear(m) EXCEPT !.chip.intstatus = {"bs"}], "interrupt")
       ELSE m

esp_transfer_info(m) == Soon([m EXCEPT !.chip.io = "transfering"], "io")

(* Words for nothing: taken from the disk and dropped, or zeros for it.    *)
Counted(m) == [m EXCEPT !.chip.counter = @ - 1]
Skip(m) == IF m.phase # "data in" THEN m ELSE SCSIdisk_Send_Data(Counted(m))
Zero(m) == IF m.phase # "data out" THEN m ELSE SCSIdisk_Receive_Data(Counted(m), 0)

esp_transfer_pad(m) ==
  LET noted == [m EXCEPT !.log.skipped = TRUE]
  IN IF m.phase = "data in"
     THEN esp_transfer_done(Rounds(Skip, m.chip.counter, noted), "data in")
     ELSE esp_transfer_done(Rounds(Zero, m.chip.counter, noted), "data out")

esp_initiator_command_complete(m) ==
  Soon([m EXCEPT !.phase = "message in", !.chip.intstatus = {"fc"}], "interrupt")

esp_message_accepted(m) ==
  Soon([m EXCEPT !.phase = "data out", !.chip.intstatus = {"dc"},
                 !.chip.state = "disconnected"], "interrupt")

(* Commands the chip's state does not allow.                               *)
Illegal(m, c) ==
  \/ c.op \in {"ti", "pad", "iccs", "msgacc"} /\ m.chip.state = "disconnected"
  \/ c.op \in {"sel", "sel_absent"} /\ m.chip.state = "initiator"

esp_start_command(m, c) ==
  LET begun == [m EXCEPT !.chip.inprogress = TRUE]
      counted == IF c.op \in {"ti", "pad"}
                 THEN [begun EXCEPT !.chip.counter = c.count, !.chip.tc = FALSE] ELSE begun
  IN CASE Illegal(m, c) -> Soon([esp_command_clear(begun) EXCEPT
                                   !.chip.intstatus = @ \cup {"ill"}], "interrupt")
       [] c.op = "reset" -> esp_reset_hard(begun)
       [] c.op = "busreset" -> esp_bus_reset(begun, FALSE)
       [] c.op = "busreset_quiet" -> esp_bus_reset(begun, TRUE)
       [] c.op \in {"nop", "flush"} -> Idle(begun)
       [] ~Illegal(m, c) /\ c.op = "sel" -> esp_select(begun, c.cdb)
       [] ~Illegal(m, c) /\ c.op = "sel_absent" -> SelectTimeout(begun)
       [] ~Illegal(m, c) /\ c.op = "ti" -> esp_transfer_info(counted)
       [] ~Illegal(m, c) /\ c.op = "pad" -> esp_transfer_pad(counted)
       [] ~Illegal(m, c) /\ c.op = "iccs" -> esp_initiator_command_complete(begun)
       [] ~Illegal(m, c) /\ c.op = "msgacc" -> esp_message_accepted(begun)

esp_finish_command(m) ==
  IF ~m.chip.waiting THEN Idle(m)
  ELSE esp_start_command([m EXCEPT !.chip.inprogress = FALSE, !.chip.waiting = FALSE,
                                   !.chip.next = None], m.chip.next)

(* A chip reset stays in the register until a NOP follows it.              *)
esp_command_write(m, c) ==
  LET next == IF m.chip.next.op = "reset" /\ c.op # "nop" THEN m.chip.next ELSE c
      written == [m EXCEPT !.chip.next = next]
  IN IF next.op \in {"reset", "busreset", "busreset_quiet"}
     THEN esp_start_command(written, next)
     ELSE IF m.chip.inprogress THEN [written EXCEPT !.chip.waiting = TRUE]
     ELSE esp_start_command([written EXCEPT !.chip.next = None], next)

esp_raise_irq(m) ==
  IF m.chip.irq THEN m
  ELSE LET raised == [m EXCEPT !.chip.irq = TRUE]
       IN IF m.line.enable THEN set_interrupt(raised, TRUE) ELSE raised

esp_lower_irq(m) == esp_finish_command(set_interrupt([m EXCEPT !.chip.irq = FALSE], FALSE))

----------------------------------------------------------------------------
(* The DMA channel.  The burst buffer holds what was filled into it and    *)
(* not yet emptied; filled is how far it was filled.                       *)

(* Mutant: the channel stays enabled at its end. *)
dma_interruptEnabled(m) ==
  IF m.dma.left # 0 THEN m
  ELSE IF m.dma.supdate
       THEN [m EXCEPT !.dma.complete = TRUE, !.dma.left = m.dma.after, !.dma.supdate = FALSE]
       ELSE [m EXCEPT !.dma.complete = TRUE]

dma_interrupt(m) ==
  IF m.dma.left # 0 THEN m
  ELSE IF m.dma.supdate
       THEN [m EXCEPT !.dma.complete = TRUE, !.dma.left = m.dma.after, !.dma.supdate = FALSE]
       ELSE [m EXCEPT !.dma.complete = TRUE, !.dma.enable = FALSE]

(* As many of the buffer's words as the memory buffer still takes.         *)
Emptied(m) ==
  LET n == IF m.dma.left < Len(m.dma.buf) THEN m.dma.left ELSE Len(m.dma.buf)
  IN [m EXCEPT !.log.memory = @ \o SubSeq(m.dma.buf, 1, n), !.dma.left = @ - n,
               !.dma.buf = SubSeq(@, n + 1, Len(@)),
               !.dma.filled = IF n = Len(m.dma.buf) THEN 0 ELSE @]

Full(m) == m.dma.filled = DMA_BURST_SIZE

ESP_Send_Ready(m) == m.chip.counter > 0 /\ m.phase = "data in"

ESP_Send_Data(m) ==
  SCSIdisk_Send_Data([m EXCEPT !.chip.counter = @ - 1, !.dma.filled = @ + 1,
                               !.dma.buf = Append(@, SentWord(m))])

(* Device to memory: fill the buffer, empty it once it is full, and so on; *)
(* a round in which nothing moves ends it.                                 *)
Fill(m) == IF ~Full(m) /\ ESP_Send_Ready(m) THEN ESP_Send_Data(m) ELSE m

WriteRound(m) ==
  LET filled == Rounds(Fill, DMA_BURST_SIZE, m)
  IN IF Full(filled) THEN Emptied(filled) ELSE filled

dma_esp_write_memory(m) ==
  IF ~m.dma.enable THEN m
  ELSE dma_interrupt(Rounds(WriteRound, m.dma.left \div DMA_BURST_SIZE + 2, m))

(* Memory to device: the same the other way round.  What the memory holds  *)
(* goes into the buffer; a full buffer goes to the device as far as that   *)
(* takes it.                                                               *)
Fetched(m) ==
  LET room == DMA_BURST_SIZE - m.dma.filled
      n == IF m.dma.left < room THEN m.dma.left ELSE room
  IN [m EXCEPT !.dma.buf = @ \o [i \in 1 .. n |-> m.log.loaded + i], !.dma.left = @ - n,
               !.dma.filled = @ + n, !.log.loaded = @ + n]

Give(m) ==
  IF m.dma.buf # <<>> /\ m.chip.counter > 0 /\ m.phase = "data out"
  THEN SCSIdisk_Receive_Data([Counted(m) EXCEPT !.dma.buf = Tail(@)], Head(m.dma.buf))
  ELSE m

(* Mutant: what the device did not take is dropped with the burst. *)
LoadedDrops(m) ==
  LET given == IF Full(m) THEN Rounds(Give, DMA_BURST_SIZE, m) ELSE m
  IN IF Full(m) THEN [given EXCEPT !.dma.filled = 0, !.dma.buf = <<>>] ELSE given

Loaded(m) ==
  LET given == IF Full(m) THEN Rounds(Give, DMA_BURST_SIZE, m) ELSE m
  IN IF Full(m) /\ given.dma.buf = <<>> THEN [given EXCEPT !.dma.filled = 0] ELSE given

ReadRound(m) == IF m.dma.left = 0 THEN m ELSE Loaded(Fetched(m))

dma_esp_read_memory(m) ==
  IF ~m.dma.enable THEN m
  ELSE dma_interrupt(Rounds(ReadRound, m.dma.left \div DMA_BURST_SIZE + 2, m))

(* One word of a rest smaller than a burst.                                *)
dma_esp_flush_buffer(m) ==
  IF ~m.dma.enable THEN m
  ELSE IF m.dma.left = 0 THEN dma_interrupt(m)
  ELSE dma_interrupt([m EXCEPT !.log.memory = Append(@, Head(m.dma.buf)), !.dma.left = @ - 1,
                               !.dma.buf = Tail(@),
                               !.dma.filled = IF Len(m.dma.buf) = 1 THEN 0 ELSE @])

----------------------------------------------------------------------------
(* After ESP_Reset and SCSI_Reset; the driver has enabled the interrupt or has not yet.   *)
Init ==
  /\ chip = [state |-> "disconnected", next |-> None, waiting |-> FALSE, inprogress |-> FALSE,
             irq |-> FALSE, tc |-> FALSE, intstatus |-> {}, counter |-> 0, io |-> "done"]
  /\ line \in [enable : BOOLEAN, scsi : {FALSE}]
  /\ event = {} /\ phase = "data out"
  /\ disk \in {[disk |-> FALSE, size |-> 0, limit |-> 0, from |-> 0, data |-> <<>>, lba |-> 0,
                blockcounter |-> 0, status |-> "good", stale |-> FALSE,
                media |-> [readonly |-> p.readonly, overlay |-> p.overlay, table |-> FALSE,
                           copies |-> {}, written |-> {}, blocks |-> 0, lost |-> {}]]
              : p \in Protections}
  /\ dma = [enable |-> FALSE, supdate |-> FALSE, complete |-> FALSE, left |-> 0, after |-> 0,
            buf |-> <<>>, filled |-> 0]
  /\ log = [memory |-> <<>>, loaded |-> 0, platter |-> <<>>, base |-> 0, skipped |-> FALSE]
  /\ commands = 0 /\ faults = 0

(* The events the scheduler runs.                                          *)
Happens(e) == [Machine EXCEPT !.event = @ \ {e}]

ESP_Interrupt_Handler ==
  /\ "interrupt" \in event
  /\ Becomes(esp_raise_irq(Happens("interrupt")))
  /\ UNCHANGED <<commands, faults>>

(* One turn of a transfer.  While it goes on the event comes again; after  *)
(* the last word from the disk it comes once more, to flush the buffer.    *)
Transfer(m) ==
  CASE m.phase = "data in" ->
         LET moved == dma_esp_write_memory(m)
             done == esp_transfer_done(moved, "data in")
         IN Soon([done EXCEPT !.chip.io = IF Ended(moved, "data in") THEN "flushing" ELSE @],
                 "io")
    [] m.phase = "data out" ->
         LET moved == dma_esp_read_memory(m)
             done == esp_transfer_done(moved, "data out")
         IN IF Ended(moved, "data out") THEN done ELSE Soon(done, "io")
    [] m.phase \notin {"data in", "data out"} -> esp_transfer_done(m, "data in")

ESP_IO_Handler ==
  /\ "io" \in event
  /\ Becomes(CASE chip.io = "transfering" -> Transfer(Happens("io"))
               [] chip.io = "flushing" -> dma_esp_write_memory(Happens("io"))
               [] chip.io = "done" -> Happens("io"))
  /\ UNCHANGED <<commands, faults>>

----------------------------------------------------------------------------
(* The guest's driver.                                                     *)

(* It selects with the DMA buffer initialised, asks for padding only in a  *)
(* data phase, and moves no data after it has skipped some.                *)
Sensible(c) ==
  /\ c.op = "sel" => dma.buf = <<>> /\ dma.filled = 0 /\ ~dma.enable
  /\ c.op = "pad" => ~chip.inprogress /\ phase \in {"data in", "data out"}
  /\ c.op = "ti" => ~log.skipped
  /\ c.op = "nop" => chip.next.op = "reset"

ESP_Command_Write ==
  /\ commands < MaxCommands /\ commands' = commands + 1
  /\ \E c \in Command :
       /\ c.op \notin {"reset", "busreset", "busreset_quiet"} /\ Sensible(c)
       /\ Becomes(esp_command_write(Machine, c))
  /\ UNCHANGED faults

Reset(op) ==
  /\ faults < MaxFaults /\ faults' = faults + 1
  /\ Becomes(esp_command_write(Machine, [op |-> op, count |-> 0]))
  /\ UNCHANGED commands

ChipReset == Reset("reset")

(* Given while no interrupt is unread or, if the reset is to be a quiet    *)
(* one, on its way: the reset drops neither, and its reading would end the *)
(* next command early.                                                     *)
BusReset ==
  /\ ~chip.irq
  /\ \/ Reset("busreset")
     \/ "interrupt" \notin event /\ Reset("busreset_quiet")

ESP_IntStatus_Read ==
  /\ chip.irq
  /\ Becomes(esp_lower_irq([Machine EXCEPT !.chip.intstatus = {}]))
  /\ UNCHANGED <<commands, faults>>

(* ESP_DMA_CTRL_Write, bit by bit: ESPCTRL_FLUSH, _RESET and _ENABLE_INT.  *)
CtrlFlush ==
  /\ chip.io = "flushing" /\ dma.enable /\ dma.buf # <<>>
  /\ Becomes(dma_esp_flush_buffer(Machine))
  /\ UNCHANGED <<commands, faults>>

CtrlReset ==
  /\ faults < MaxFaults /\ faults' = faults + 1
  /\ Becomes(esp_reset_hard(Machine))
  /\ UNCHANGED commands

(* Mutant: an interrupt that came while blocked is not shown afterwards. *)
CtrlEnableForgets ==
  /\ faults < MaxFaults /\ faults' = faults + 1
  /\ Becomes(IF line.enable THEN set_interrupt([Machine EXCEPT !.line.enable = FALSE], FALSE)
             ELSE [Machine EXCEPT !.line.enable = TRUE])
  /\ UNCHANGED commands

CtrlEnable ==
  /\ faults < MaxFaults /\ faults' = faults + 1
  /\ Becomes(IF line.enable THEN set_interrupt([Machine EXCEPT !.line.enable = FALSE], FALSE)
             ELSE [Machine EXCEPT !.line = [enable |-> TRUE, scsi |-> chip.irq]])
  /\ UNCHANGED commands

(* DMA_CSR_Write: reset and initialise; start with a buffer and perhaps a  *)
(* next one; name a next one while running.                                *)
Initialized(d) == [d EXCEPT !.complete = FALSE, !.supdate = FALSE, !.enable = FALSE,
                            !.buf = <<>>, !.filled = 0]

DmaChannel(d) ==
  /\ dma' = d
  /\ UNCHANGED <<chip, line, event, phase, disk, log, commands, faults>>

DmaInit ==
  /\ chip.state = "disconnected" /\ ~chip.inprogress
  /\ DmaChannel(Initialized(dma))

DmaStart ==
  /\ chip.state = "initiator" /\ ~dma.enable
  /\ \E length \in Segments, next \in Segments \cup {0} :
       DmaChannel([dma EXCEPT !.enable = TRUE, !.complete = FALSE, !.left = length,
                              !.after = next, !.supdate = next # 0])

DmaChain ==
  /\ dma.enable /\ dma.complete /\ ~dma.supdate
  /\ \E next \in Segments :
       DmaChannel([dma EXCEPT !.complete = FALSE, !.after = next, !.supdate = TRUE])

DmaEnd ==
  /\ dma.complete
  /\ DmaChannel([dma EXCEPT !.complete = FALSE])

(* DMA_Reset, ESP_Reset and SCSI_Reset of a reset of the machine.  The disk *)
(* is inserted again: its overlay, a temporary one, is empty.              *)
Inserted(d) == [d EXCEPT !.table = FALSE, !.copies = {}, !.written = {}, !.blocks = 0,
                         !.lost = {}]

SCSI_Reset(d) ==
  [d EXCEPT !.lba = 0, !.blockcounter = 0, !.status = "good", !.media = Inserted(@)]

MachineReset ==
  /\ faults < MaxFaults /\ faults' = faults + 1
  /\ Becomes([esp_reset_hard([Machine EXCEPT !.dma = Initialized(@)]) EXCEPT
                !.disk = SCSI_Reset(@)])
  /\ UNCHANGED commands

Events == ESP_Interrupt_Handler \/ ESP_IO_Handler

Guest ==
  \/ ESP_Command_Write \/ ChipReset \/ BusReset \/ ESP_IntStatus_Read
  \/ CtrlFlush \/ CtrlReset \/ CtrlEnable
  \/ DmaInit \/ DmaStart \/ DmaChain \/ DmaEnd

Next == Events \/ Guest \/ MachineReset

Spec == Init /\ [][Next]_vars

(* The scheduler runs its events, and the driver reads the status of every *)
(* interrupt and names a buffer whenever the channel has stopped: weak     *)
(* fairness, with the condition under which each step is enabled.          *)
FairSpec ==
  /\ Spec
  /\ []<>("interrupt" \notin event) \/ []<><<ESP_Interrupt_Handler>>_vars
  /\ []<>("io" \notin event) \/ []<><<ESP_IO_Handler>>_vars
  /\ []<>(~chip.irq) \/ []<><<ESP_IntStatus_Read>>_vars
  /\ WF_vars(DmaStart)

----------------------------------------------------------------------------
(* Registers, events and buffers stay in their ranges: no count runs below *)
(* zero, no buffer of the disk or of the channel past its end, and what is *)
(* waiting in the command register is what the flag says.                  *)
TypeOK ==
  /\ chip \in [state : {"disconnected", "initiator"}, next : Command \cup {None},
               waiting : BOOLEAN, inprogress : BOOLEAN, irq : BOOLEAN, tc : BOOLEAN,
               intstatus : SUBSET {"fc", "bs", "dc", "ill", "rst"}, counter : Nat,
               io : {"transfering", "flushing", "done"}]
  /\ line \in [enable : BOOLEAN, scsi : BOOLEAN]
  /\ event \subseteq {"interrupt", "io"}
  /\ phase \in {"data out", "data in", "status", "message in"}
  /\ disk.size \in 0 .. disk.limit /\ Len(disk.data) \in {0, disk.size}
  /\ disk.blockcounter \in Nat /\ disk.lba \in Nat /\ disk.status \in {"good", "check"}
  /\ dma.left \in Nat /\ dma.filled \in 0 .. DMA_BURST_SIZE /\ Len(dma.buf) <= dma.filled
  /\ chip.waiting => chip.inprogress /\ chip.next # None

(* The interrupt line of the system follows the chip's: it is up while an  *)
(* interrupt is there and not blocked, whichever came first, and down      *)
(* otherwise, a reset included (ESP_DMA_CTRL_Write, esp_raise_irq).        *)
LineFollows == line.scsi = (chip.irq /\ line.enable)

(* No word is lost, doubled or moved between disk and memory, whatever     *)
(* count, block, burst and buffer a transfer is cut at and however often   *)
(* it is resumed: what the memory and the burst buffer hold is what the    *)
(* disk holds from the address the command named, and what the disk and    *)
(* the buffers hold is what the memory held, each word at its address.     *)
(* Only an overlay may lose one, the first block of a command              *)
(* (scsi.c:500-505; ReadsBack).                                            *)
DataInOrder ==
  ~log.skipped =>
    /\ log.loaded = 0 =>
         \A words \in {log.memory \o dma.buf} :
           \A i \in 1 .. Len(words) : words[i] = log.base + i
    /\ log.loaded # 0 =>
         \A words \in {[i \in 1 .. Len(log.platter) |-> log.platter[i][2]]
                      \o disk.data \o dma.buf} :
           \A i \in 1 .. Len(words) : words[i] = i
    /\ \A i \in 1 .. Len(log.platter) : log.platter[i][1] = log.base + i
    /\ disk.media.lost \subseteq IF disk.media.overlay THEN {1} ELSE {}

(* An overlay misses at most one of the blocks the guest has written since *)
(* the machine was reset, whatever it writes and however often transfers   *)
(* are cut off, and none before it has a table: what is read from the      *)
(* image instead is what is there (scsi_write_sector, scsi_read_sector).   *)
OverlayKeeps ==
  /\ \A a, b \in disk.media.written \ disk.media.copies : a = b
  /\ ~disk.media.table => disk.media.written = {}
  /\ disk.media.table => disk.media.overlay

(* "Don't write to disk images, use temporary overlay" (dlgSCSI.c:98): a    *)
(* block that is read is the one that was written last, the overlay's copy *)
(* of it if the image was not to get it.                                   *)
ReadsBack == ~disk.stale

(* After a reset of the chip nothing of the interrupted command is left:   *)
(* no event, interrupt or waiting command reaches the next (esp_reset_hard). *)
ResetIsClean ==
  [][ChipReset \/ CtrlReset \/ MachineReset =>
       /\ event' = {} /\ ~line'.scsi
       /\ ~chip'.irq /\ ~chip'.inprogress /\ ~chip'.waiting /\ chip'.io = "done"]_vars

(* Every command comes to an end: the transfer is moved on until it is     *)
(* done, its interrupt comes, and a command that waited is started.        *)
CommandEnds == chip.inprogress ~> ~chip.inprogress
=============================================================================
