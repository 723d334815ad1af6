# Verification of Previous: scheduler, threads and the bridges to the host

This directory holds TLA+ models of parts of the NeXT emulator in `src/`, the
TLC runs that check them on small instances, and proofs of central invariants
for all instances. Line numbers refer to `src/src/`. `PROJECT.json` maps every
definition that models code to its lines.

## 1. The system

### Threads and shared state

The emulator is one process. Its threads, as far as they matter here:

* the **emulation thread** (`Main_Thread`) runs the CPU (`m68k_go`), all
  devices, and the scheduler's handlers, among them `Main_EventHandler` 200
  times a second;
* the **main thread** (`Main_Loop`) waits for SDL events, runs the dialogs and
  the shortcuts, pauses, resets and quits;
* the **control socket's reader thread** (`ctl_thread_main`) accepts a client
  and queues its verbs;
* the **tick thread** of the user-mode network (`tick_func`) moves packets from
  the host into a queue the emulation thread polls;
* the **repaint thread** blits the guest's screen and publishes it in a shared
  file mapping, which **another process** reads without a lock;
* the **i860 thread** of each NeXTdimension board runs a second processor.

What they share, and how it is protected:

| shared | by | protection |
|---|---|---|
| `bEmulationActive`, `bQuitProgram`, `regs.spcflags` | main, emulation | none |
| semaphore `pauseFlag`, the clock's origins | main, emulation | the pause handshake |
| ring of verbs, descriptor `ctl_conn_fd` | reader, emulation, main | spin lock; atomic |
| ring of input events | main, emulation | one writer and one reader |
| packet queue | tick, emulation | a mutex that comes and goes with the backend |
| exported frame buffer | repaint, another process | a sequence counter |
| message port of a board; its CSR0 | i860, emulation, main | compare-and-swap; none |
| sound pipe | main opens and closes, emulation writes | none |

Everything else is touched by another thread only while the emulation thread is
asleep in `Main_EventHandler`; that it sleeps is therefore the property most of
the program rests on.

### Components

| component | files | state | operations | hard behaviour | correct when |
|---|---|---|---|---|---|
| event scheduler | cycInt.c | table of events, two list heads, three clocks | schedule, reschedule, cancel, dispatch, reset | handlers that reschedule while the dispatch loop runs; a reset in a handler | each due event fires once, in order; none is lost |
| guest clock | timing.c | two origins, pause stamp, mode | read, sync, pause, continue, reset | change of counters, wrap-around, reset while paused | never goes back; pauses do not count |
| main and emulation threads | main.c, m68000.c, newcpu.c's loop | flags, semaphore, 200 Hz event | pause, continue, reset, halt, quit | time-outs, unlocked flags, reset in a handler | asleep while paused; poll never lost; quitting ends |
| control socket | ctlsock.c | ring, pointer, held inputs, floors, connection | accept, parse, queue, apply, answer, release, shut down | two threads, reconnects, full ring, slow guest | answers are true; nothing stays pressed; clicks land |
| keyboard and mouse | kms.c, adb.c | one report register, poll mask | report, read, reset | overrun | the guest's keyboard is the user's |
| SDL event bridge | gui-sdl/sdlevent.c, shortcut.c | 16-slot ring | put, take, pause | overflow; dropped while paused; swallowed by a shortcut | keys let go of come up |
| tablet | tablet.c | enabled, position, pen | command, packet | switches the pointer's route | position follows |
| frame buffer plane | gui-sdl/sdlscreen.c | counter, mapping, private copy | blit, publish, resynchronise | readers while it is written; checkpoints | no torn frame; the last one is shown |
| Ethernet | ethernet.c, enet_slirp.c, enet_pcap.c, queue.c | packet queue, receiver, DMA channels | put, poll, receive, send, start, stop, reset | stop while ticking; packets cut by missing buffers | nothing freed is used; packets whole and in order |
| SCSI and DMA | esp.c, scsi.c, dma.c | command, second rank, phase, channel, burst buffer | command, transfer, interrupt, reset | delayed events and resets overtaking each other | no word lost; what was written is read; commands end; resets are clean |
| sound output | snd.c, kms.c, dma.c | last piece, DMA channel, host queue | request, play, start, stop, pause, reset | the end of a piece is noticed one event later | played once; completion reported |
| audio pipe | sndfifo.c | phase, last frame, descriptor | write, emit, close | partial and failed writes | no seam; nothing missing |
| NeXTdimension | dimension/*.cpp | message port, CSR0, thread | send, take, blank, interrupt, pause, make, remove | lock-free messages; a thread that must end | no message lost; nothing runs before its reset |
| system registers, RTC | sysReg.c, rtcnvram.c | masks, hardclock | interrupts | lost interrupt | level = sources and mask |
| floppy, MO | floppy.c, mo.c | command, seek | command, reset | delayed events | commands end |
| SCC, printer, NBIC, DSP, memory controllers | | registers | | mostly sequential data paths | |
| configuration, dialogs, debugger, grab, CPU, softfloat, slirp | | | | sequential, vendored or data | |

Who calls whom: the CPU loop calls the scheduler after each instruction; the
scheduler reads the clock and calls handlers; one of them is
`Main_EventHandler`, which parks for a pause, then drains the control socket and
takes an event from the SDL ring, synchronises the clock and schedules itself
again. The devices' handlers (SCSI, Ethernet, sound, blanks) come from the same
scheduler. A cold reset is made by the main thread while `Main_EventHandler` is
parked: it restarts the clock, empties the scheduler's table under the handler's
feet, resets every device and replaces the NeXTdimension boards.

## 2. The modules

| module | models | built on |
|---|---|---|
| `EventQueue` | abstract: what the scheduler promises its callers | |
| `CycInt` | cycInt.c, all operations | implements `EventQueue` |
| `Timing` | timing.c: the microsecond clock | assumes that a paused clock is not read |
| `MainLoop` | main.c, the CPU loop's flags, dialogs and shortcuts | the scheduler is one event |
| `Machine` | threads and clock together | extends `MainLoop`, `Timing` |
| `CtlInput` | ctlsock.c's drain; the registers of kms.c and tablet.c it meets | |
| `CtlSock` | clients, reader thread, ring, drain, answers, shutdown | extends `CtlInput` |
| `KeyPath` | a key's way: SDL, shortcuts, ring, key map, register, guest | |
| `FbShm` | the exported frame buffer, its reader, checkpoints | |
| `Enet` | packet queue, tick thread, backends, both controllers | |
| `Esp` | SCSI controller, disk and DMA channel | |
| `SndFifo` | sndfifo.c | |
| `Sound` | sound output: event, KMS commands, DMA channel, host queue | |
| `Dimension` | one NeXTdimension board: messages, CSR0, its thread's life | |
| `MachineProofs` | proofs about `MainLoop`, `Timing` and `Machine` | extends `MCMachine` |
| `CtlInputProofs` | proofs about `CtlInput` and `CtlSock` | extends `MCCtlInput` |
| `DeviceProofs` | proofs about `SndFifo`, `Sound` and `Dimension` | extends all three |
| `CycIntProofs`, `EnetProofs`, `EspProofs`, `FbShmProofs`, `KeyPathProofs` | proofs | the module named |
| `MCMachine`, `MCCtlInput`, `MCDevices` | several instances in one run, one "scenario" each | |
| other `MC*` | one instance each | |

A definition introduced by a "Mutant:" comment is an altered copy of the one
after it and not part of the specification; it records, for a property, a
mistake in the code that the property detects.

### CycInt

Variables are the C fields and globals by name. One action per exported
function; `CycInt_AddCycles` is a loop, so `AddCycles`, `PopCycles`,
`CyclesDone`, `PopTime`, `TimeDone` and `HandlerReturn` are its iterations,
with `pc` the loop we are in and `running` the handler that runs. While a
handler runs, any operation may be called. `Reset` happens in a handler, as it
does in the program, and is where the setting `bRealtime` may change
(`Change_DoNeedReset`, change.c:104). The search through a list is replaced by
its result (`LastBefore`: the last event due before t).

Bounds: clocks stand still at `Horizon`, no deadline lies beyond it, and the
`Update` forms are called by the event's own handler, for the clock it was
called for (all callers in the source do so).

### Timing and Machine

`counter` is the host's performance counter, `nCyclesMainCounter` the cycles of
`CycInt`. `Timing_GetTime`, `Timing_Sync`, `Timing_Pause`, `Timing_UnPause` and
`Timing_Reset` are the functions of these names; `Cpu` executes instructions and
enters or leaves user mode, which is what selects the counter. 64-bit words wrap
(`Word`). A change-over from cycles to the host's counter waits for it inside the
step (a choice of a later counter value). `Timing_Sync` is two steps: it
publishes `saveTime` for other threads and sleeps (`asleep`), and
`Timing_Awake` ends the sleep when the host's clock is there. In between the
other threads go on, and what they read is a time the host's clock has not
reached. `ran` and `reading` are history.

`Machine` puts the clock where the threads use it: `PauseEmulation` stops it
when the wait ends, `UnPauseEmulation` starts it, a cold reset restarts it, the
handler synchronises (`Synchronise`, and `SleepOrBound` at the end of the
handler, with the main thread and the user at work in between), and any
instruction may read it. `Timing` by itself takes
no step while paused; in `Machine` that is a consequence of the handshake, up to
the program's end: `Main_UnInit` wakes a parked emulation thread to let it leave
(main.c:371-376) and does not start the clock, so `ClockStopsAsleep` speaks of
the time before.

### MainLoop

`spcflags` is changed by a load and a later store in both threads
(`newcpu.h:414-423`): `emuFlags` and `uiFlags` hold what is about to be stored.
The emulation thread's place `emu` runs from `start` over the top of `m68k_go`
(`go`) to instructions (`cpu`) and `Main_EventHandler` (`pausing`, `parked`,
`handler`). The main thread's place `ui` follows an operation `op` of the user
through pause, wait, what is done on the paused machine, and continuation.
`Slow` says whether the emulation thread may need more than the one second that
`Main_PauseEmulation` waits; `MaxTokens` bounds the semaphore.

### CtlInput and CtlSock

`CtlInput` is a pass of `CtlSock_Drain`: `DrainBegin`, one `DrainApply` per
verb that no floor holds, `DrainEnd` with `ctl_ptr_tick`. `Apply` has one
action per verb. Time stamps are kept as ages; each saturates at the floor it
is compared with. The register of kms.c holds one report; a second one makes it
`Overrun`. The guest is external: it reads the register between passes and may
start or stop its tablet driver. `InputNext` has one client, which waits for
each acknowledgement (`PushAcked`). `CtlSock` adds clients that do not wait,
the reader thread at the grain of its accesses to shared state, `ctl_reply` as
two steps (read the descriptor; send), and `CtlSock_UnInit` in its five steps.
A closed descriptor's number may be given out again, as the kernel does.

Abstractions: one screen axis; a slam carries `SLAM` counts; guest polling is
enabled; `PREVIOUS_CTL_PTR_RATE` is 0, its default; parsing is the choice
between a verb and `BAD`; FBSYNC, NET and PING are queued and acknowledged
without an effect (`FbShm` and `Enet` have the effect of the first two).

### KeyPath

The user presses and releases (`Press`, `Release`); SDL queues; the main thread's
`GuiEvent_EventHandler` turns an event into a shortcut, a place in the ring or
nothing; `GuiEvent_ResetKeys` runs before a pause; the emulation thread takes
one event per poll, across pauses, and reports it to the register the guest
reads. The variable `lost` collects the keys of which the code gives up an event
(a full ring, a paused machine, a register that is not polled or overrun): the
properties except them, and nothing else.

### FbShm

The repaint thread's `pc` is its place in `fbshm_publish`: blit row by row,
compare with the private copy, store the odd counter, copy, write the rectangle,
store the even counter. The reader process polls, copies row by row and checks
the counter. A checkpoint holds the process and not the mapping; `Restore` brings
the process of a checkpoint back to a mapping that went on, and FBSYNC is owed to
it; `Restart` is a fresh process on an old mapping.

### Enet

`tick` is the place of the tick thread in its loop, `emu` that of the emulation
thread in a stop. `IoReceive` is a call of `enet_io`: it polls the queue, moves a
packet to the guest's DMA buffers one at a time, or drops what does not fit.
`enet_stop` clears the flag, waits for the tick thread and frees mutex and queue;
using them afterwards sets `undefined`. Three causes of a stop: a reset of the
guest's or of the machine, a change of the cable in the dialog, NETDOWN.

### Esp

A step takes the state as one record (`Machine`) through the functions of esp.c,
scsi.c and dma.c, which call each other (`esp_command_write` to
`esp_start_command` to `scsi_read_sector`). Steps are the guest's register
accesses, the two delayed events, and the reset. The loops that move data
(`Rounds`) are recursive functions from the number of the round to the state;
`Moved` takes from their last state the data, the counters and the phase, and
leaves everything else as it was. `disk.media` is what protects the image: a
read-only one refuses writes; with `WRITEPROT_ON` a block goes to the overlay's
table of copies (`shadow`), which the first such block only makes and a reset of
the machine, which inserts the disk again, drops. `log` is history: which word came from where.
Words are numbered, so the data says where it belongs.

### SndFifo and Sound

`Write` begins a block; `Stage`, `Flush` and `Advance` are the loop of
`SndFifo_Write`, `Finish` its end. An input frame is its number, an output frame
is what it is interpolated from, `<<left, right, fraction>>`. `Emit` offers the
staged bytes to a pipe that takes any multiple of `Quantum` bytes, nothing, or
all, and keeps `partial` as the code does.

`Sound` is the source of those blocks: `SND_Out_Handler` asks the KMS for the
next piece of the guest's buffer (`Request`: complete what was sent last, read
on), sends it to the host or reports an underrun. The guest starts and stops the
output, starts, chains, acknowledges and resets its DMA channel, and turns the
KMS off and on; a pause closes the host's device, a reset takes everything back.
A word's address is its place in the sound, which makes `PlayedOnce` a statement
about an increasing sequence.

### Dimension

`where` is the place of each of three threads. `send_msg` is a load of the port
and a compare-and-swap that may fail; a store to CSR0 with the reset bit, a blank
and `check_interrupt` are loads and stores of their own. The i860 thread takes
all messages at once, changes CSR0 for a blank, then acts on kill, reset or
interrupt in the code's order, and runs a burst of instructions, which may write
CSR0. The main thread makes a board, pauses, resumes, and removes the board by
sending the kill message and joining.

## 3. The runs

| run | instance | checks |
|---|---|---|
| `cycint_queue` | 3 events, delays 1 and 2, horizon 2, both modes, fairness | `TypeOK`, `ListsOK`, `PollInTime`, refinement of `EventQueue` (`ImplementsEventQueue`), `EveryEventLeaves` |
| `machine_pause` | "threads": `Slow = FALSE`, a clock of 3 ticks and 2 cycles; "clock": 6-bit words, 7 ticks, 6 cycles, 2 cycles and 2 ticks per microsecond | `ParkedWhenPaused`, `PollScheduled`, `ReadingsAreReal`, `ThreadsStopClock`, `TimeNeverGoesBack` |
| `main_quit` | `MainLoop`, `Slow = FALSE`, fairness | `QuitCompletes` — **violated** |
| `ctl_hold` | "hold": 2 pipelining connections with press, modifier and key, a ring of 3 entries, fairness; "pointer": one client that waits for its acks, 4 positions; the constants are the same | `HeldReleased`, `HeldNoOverrun`, `SocketEnds`; `PointerClicks`, `PointerAgrees` |
| `ctlsock_answer` | 1 client, good and bad verbs, a ring with one slot, moves and a guest that switches its tablet; fairness | `EveryVerbAnswered` |
| `ctlsock_ack` | 2 connections with buttons | `AckMeansApplied` — **violated** |
| `keypath_keys` | one key with the modifier, ring of 3, 3 presses, 2 other events | `GuestAgrees`, `KeysComeUp` |
| `fbshm_publish` | 2 x 2 pixels drawn on a diagonal, 2 events, 1 restore or restart | `WholeFrame`, `SkipIsSound`, `DirtyCovers`, `MapCatchesUp`, `ReaderCatchesUp` |
| `enet_backend` | 3 machines, queue of 2, 3 arrivals, 1 transmission, 1 fault | `NoUseAfterStop`, `InOrder`, `QueueDrains`, `StopEnds` |
| `enet_netdown` | the same with 2 arrivals | `SilentWhenDown` — **violated** |
| `esp_scsi` | bursts of 2, blocks of 4, 2 blocks, counts and buffers of 3 and 8, an image that is open, read-only or under an overlay, 4 commands, 1 fault | `LineFollows`, `DataInOrder`, `OverlayKeeps`, `ResetIsClean`, `CommandEnds` |
| `devices_helpers` | "pipe": 4 input frames for 5 output frames, staging of 3, pipe of 4 frames, blocks up to 4; "sound": pieces of 2, buffers of 1 and 3, 7 words, 2 stops; "board": 2 writes of CSR0, 1 pause, 2 boards | `NoSeam`, `KeepsUp`; `PlayedOnce`, `BufferCompletes`; `NeverRunsUnreset`, `NoMessageLost`, `BoardIntCatchesUp`, `BoardRemoved` |

The scenarios of a run never meet: `scenario` is chosen at the start and kept.
A property named after one scenario (`HeldReleased`, `ThreadsStopClock`,
`BoardRemoved`, ...) is the module's own property where that scenario runs.

Why these bounds are enough.

* Three events give an insertion at the front, in the middle and at the end,
  equal deadlines, and a removal next to each; the proof covers any number. A
  horizon of 2 with delays of 1 and 2 lets an event be rescheduled, be late by
  more than half its period, and meet another clock; an instruction of two
  cycles jumps over a deadline.
* The clock by itself counts far enough for both modes, a pause and a reset to
  meet in one behaviour, and for cycle origins before zero to wrap. With the
  threads it ticks three times, which puts a tick before, in and after a pause.
  `MainLoop` is finite but for the semaphore, and with `Slow = FALSE` its count
  never passes one.
* Two connections are the fewest in which a descriptor is used again; a ring of
  one usable slot is the smallest that is full. In "hold" the ring has three
  entries and each connection at most one verb and three releases, so the ring
  may or may not be full when a client leaves, the first one included.
  Positions 0 to 3 with slams of two counts and steps of one need four slams and up to three steps; the settle
  window of seven units is exactly as long as `ClicksLand` needs it
  (section 4).
* A ring of three slots is full with two events, so three presses and releases
  fill, empty and wrap it.
* On two by two pixels drawn on a diagonal the region of one pixel is a corner
  and the region of both is the whole screen, so a region can be too small in
  each direction. One restore or restart meets a mapping that went on.
* A queue of two wraps with the third packet; packets are one or two DMA buffers
  long, so one can be cut. One fault at any point of each behaviour is what the
  stop has to survive; two faults in a row add no state a stop leaves behind.
* Counts of 3 and 8 words against bursts of 2 and blocks of 4 end a transfer in
  the middle of a burst, in the middle of a block, at both, and behind the data;
  a transfer of 8 with buffers of 3 takes three.
* Four commands are two writes with their transfers and a reset in between, or a
  write and a read: of an overlaid image's two blocks the first makes the table,
  the second is kept, and the next write finds a table, or none after a reset of
  the machine.
* Three staged frames make a block of four overflow. Pieces of two divide a
  buffer of three unevenly; a third buffer follows a chained one.
* Two writes of CSR0 are the fewest in which both processors are between a store
  and its message; two boards the fewest in which one is made after another.

Deadlock checking is off where the system stops by design: after a quit, at the
end of the bounded input, and when the users, guests and clients have used up
what the bounds give them.

### Fairness

* `CycInt`: instructions and the dispatch loop are weakly fair (the CPU thread
  runs, handlers return), and so is the host's clock.
* `MainLoop` (`main_quit`): both threads are weakly fair. `do_specialties` and a
  due 200 Hz event are strongly fair: the CPU loop looks at both after every
  instruction, and the loads and stores of an interrupt in between disable them
  only for a moment. Nothing makes the user act.
* `CtlSock`: reader, emulation thread and shutdown are weakly fair, so is the
  guest's reading. The clock is strongly fair, because a pass, during which no
  unit of time goes by, is shorter than any floor. No client must connect, send
  or leave; `SocketEnds` has the peers' departure as its premise.
* `KeyPath`: main thread, emulation thread and the guest's driver are weakly
  fair; the user is not. `KeysComeUp` has as its premise that the user lets go
  and the emulation runs.
* `FbShm`: repaints and the reader go on (the repaint thread is periodic), and a
  restored process is sent the FBSYNC it is owed; the guest need not draw.
* `Enet`: the tick thread and the I/O event are weakly fair while nothing freed
  was used; the guest need not give buffers.
* `Esp`: a pending event is run, a raised interrupt has its status read, and a
  stopped channel is given a buffer, which is what a driver does that waits for
  its transfer. No command must be given.
* `Sound`: the event comes and the host plays; the guest does nothing it does not
  want to.
* `Dimension`: each of the three threads runs. The emulation thread's weak
  fairness includes the blank, an event that schedules itself 136 times a second.
  No pause need end: `IntCatchesUp` has the running machine as its premise.

Fairness is of whole threads, events and drivers, never of a single choice of a
user. The violated `QuitCompletes` is a counterexample of the fair specification.

## 4. What is proved

TLAPS checks these for every value of the constants that satisfies the named
assumption of each module. Each theorem's invariant is inductive by itself, so
it names what the property alone does not say.

**Scheduler** (`CycIntProofs`). `ListsCorrect` (`Spec => []ListsOK`) and
`TypesCorrect`. Assumption: delays are positive, `Horizon < UINT64_MAX`,
`CHECK_INTERVAL` and the frequency are positive. The lists are described without
recursion: a total order `ord` on the events of a list exists in which deadlines
do not fall, the head is first, `next` leads to the successor and `prev` back
(`Chained`). `ListsOK` needs `TypeOK` (the sentinel's time is `UINT64_MAX`) to
be inductive: `IInv == TypeOK /\ ListsOK /\ nTimeNow <= clock`. `ChainedUnlink`
and `ChainedInsert` show what unlinking and insertion do to any such chain (the
witness is the order without, or with, the event); `EnqueueOK` combines them,
and every scheduling action is an instance of `ScheduleOK`.
* `Refinement` (`Spec => ImplementsEventQueue`): every step of cycInt.c is an
  operation of the abstract `EventQueue` or changes nothing a caller sees. What
  it takes from the invariant is `HeadOK`: the head of a list is the earliest of
  its events, so the loop that pops heads fires what the abstract queue allows.
* `PollsInTime` (`PollInTime`): the clock of the host is looked at no later than
  the first event of the time list needs. `Polled` is the same with the head of
  the list in place of "every event", outside the dispatch of time events.

**Threads and clock** (`MachineProofs`), assuming `~Slow` wherever the threads
take part, and that no counter comes near half the word.
* `PauseIsSafe` (`ParkedWhenPaused`) and `PollIsSafe` (`PollScheduled`). The
  invariant adds `Handshake` (a token, or a handler on its way to sleep, exists
  only while the main thread waits), `Working` (while it acts, the other thread
  is asleep) and `Quitting`. Without `Handshake` a left-over token would end the
  next wait at once: with `Slow = TRUE` that is what happens (section 6).
* `PausesDoNotCount` (`ReadingsAreReal`) and `ClockGoesOn`
  (`TimeNeverGoesBack`) for `Timing` alone. The invariant, `At(shown)`, is about
  a moment `shown`: the counter as it is, or, in a pause, as it was when the
  pause began. Both clocks are at or ahead of the last reading there, no
  difference of the wrapping counters is larger than the bound allows, and
  `shown` less the origin is the time run. The time told to other threads is
  never ahead of the last reading; in the sleep of `Timing_Sync` it is that
  reading, and out of it the host's clock has reached it.
* `MachineTimeIsReal` and `MachineTimeGoesOn` are the same two for the threads'
  clock, where nothing forbids a reading in a pause but the handshake.
  They hold in the sleep too (`SleepsInHandler`: nobody but the event handler
  sleeps there). `ClockStops` and `RunStopsClock` (`ThreadsStopClock`) say what
  does: until the
  end of the program the clock is paused exactly while the main thread works on
  a paused machine, and then the emulation thread sleeps.

**Control socket** (`CtlInputProofs`), each about its scenario of `MCSpec`.
* `ClicksLand` (`PointerClicks`) and `ReckoningAgrees` (`PointerAgrees`), for
  every screen, slam and step, assuming `Patient`: the clients move to a place
  and click and wait for their acks, the route is fixed (finding 10), and the
  settle window lasts for all slams and steps there can be
  (`PTR_STEP * (PTR_SETTLE - HomingSlams) >= Width - 1`; the defaults, 240 passes
  of 16 counts on 1120 pixels after 19 slams, satisfy it three times over). The
  invariant has two parts. `Reckoned`: while slams are left the pointer is at
  most that many slams from the corner, and from then on where the drain
  believes it is. `InTime`: each pass takes as much from the way that is left as
  from the window, so the window never closes before the pointer has arrived.
  Without it a click that gave up would report in the same pass as the motion,
  overrun it, and leave the reckoning wrong.
* `NoneOverruns` (`HeldNoOverrun`), for any number of clients that send keys,
  modifiers and buttons without waiting, assuming `Spacing`: no verb moves the
  pointer (findings 8 and 10) and no gap is 0. The invariant is that a report of
  this pass has age 0 (`Spaced`), and that the ring and the connections hold
  only what clients send and the reader releases (`Queued`).
* `NothingStaysHeld` (`HeldReleased`), assuming `Spacing` too, for a ring of any
  size: when the last client has gone and all is read, a modifier the guest holds
  is one whose RELEASE met a full ring, and a button on a fixed route (finding 10)
  one whose own release did. `dropped` names those releases; a later one that is
  queued takes the name away. Two facts are inductive together. `Following`:
  once the reader has released a thing, either the release was dropped or every
  press of it in the ring has a release behind it, and so has the thing itself
  if it is held (`BehindAppend` and `BehindTail` say how a ring keeps that).
  `Reported`: what the drain believes to be held is what the guest was told, but
  for the report in the register; for modifiers on every route, for buttons on a
  fixed one. That nothing at all stays held is false (finding 4).

**NeXTdimension** (`DeviceProofs`). `MessagesArrive` (`NoMessageLost`) and
`ResetComesFirst` (`NeverRunsUnreset`), for any number of writes, pauses and
boards. Messages only join the port between the i860's exchanges, because a
compare-and-swap succeeds on the value that was loaded; the reset is followed
from the constructor through the port into the batch that is handled.

**Ethernet** (`EnetProofs`), for any size of the queue and any number of packets
and faults. `BackendIsSafe` (`NoUseAfterStop`): `Guarded` says where the tick
thread can be for each place of a stop, and that a stopped backend of a
connected machine is a detached one. `PacketsInOrder` (`InOrder`) and
`NoneOverwritten` (`NoOverwrite`, which is proved only and part of no run):
`Ordered` numbers the packets from the one the guest has got, over the receiver
and the ring, to the latest that arrived; `EnterOK` and `DeleteOK` are the ring's
two operations.

**Frame buffer** (`FbShmProofs`), for every geometry, any number of colours,
pixels drawn and restores. `FramesAreWhole` (`WholeFrame`): outside the region
the mapping, the private copy and the blitted frame agree; inside, the pixels
behind the place of the copy do. `SkippingIsSound` (`SkipIsSound`) and
`RectangleCovers` (`DirtyCovers`), for the first start of the process (finding
13): `Followed` relates the reader's counter, copy and picture to the process's.

**Sound** (`DeviceProofs`).
* `Seamless` (`NoSeam`) and `Complete` (`KeepsUp`) of the pipe, for every ratio
  `STEP < ONE`, block size and staging buffer. The invariant is the law of the
  accumulator, `made * STEP = passed * ONE + phase`, with the range of the
  phase, and the fact that `prev` is the frame before the current one.
* `WordsPlayedOnce` (`PlayedOnce`) of the sound output, for all pieces and
  buffers. The invariant (`Followed`) is the place of the DMA channel in the
  sound: of its buffer the host was sent what the channel has read and nothing
  beyond, and a chained buffer begins where the last one ends, or later.

**Keyboard** (`KeyPathProofs`), for every set of keys and length of the ring.
`KeyboardAgrees` (`GuestAgrees`). The invariant is an account of each key, and
of the modifiers: the last event about it in SDL's queue says what SDL believes;
if there is none, and the code has not given the key's latest event up, the last
in the ring says it; if there is none there either, the register; then the
guest. The ring is read as the queue it stands for (`Backlog`).

**SCSI** (`EspProofs`), for every disk, command block, count, burst and buffer.
`LineIsRight` (`LineFollows`) and `ResetLeavesNothing` (`ResetIsClean`). A step
of this module is a function from one state of the machine to the next, so the
invariant (`Good`) is one of such a record, and each function has a lemma: most
only `Keep` what concerns the interrupt, whatever data they move. The invariant
adds that only a real command waits, and only while one is in progress; without
it a reset could start a command that is none.

`DataIsOrdered` (`DataInOrder`): between disk and memory no word is lost, doubled
or moved, wherever count, block, burst and DMA buffer end and whatever reset or
second command comes between. Its invariant (`Sound`, with `Good`) has two halves.
* `Held`: after a read (`ReadOrder`) the words in memory and in the burst buffer
  are consecutive and, while the data phase lasts, the disk goes on where they
  end; after a write (`WriteOrder`) those on the disk, in its block and in the
  burst buffer are the ones loaded, and the block at hand belongs behind the last
  one written. `Positioned` keeps the disk's block counter, its address and the
  words of the block together; words skipped by padding lift the order but not
  the types.
* `Ctl`: while a transfer goes on, the controller is connected, a command is in
  progress, and no interrupt is up or on its way; and a select waits in the
  second rank only with an empty channel or while the chip is connected, where
  it is illegal. Without this half `Held` is not inductive: a second select
  would open a new transfer on the old one's words.

`DataInOrder` also says which blocks of a command were not kept: the first one
under an overlay, or none. `OverlayIsKept` (`OverlayKeeps`) says the same over any
number of commands: of all blocks written since the last reset of the machine at
most one is missing from the overlay, and none as long as it has no table.
`MediaOK` is what both take from the disk: a table belongs to an overlay, and
without one nothing was written there yet. That a block which was written is the
one that is read is false (finding 5).

The proof goes from sequences (`FetchWords`, `StoreBlock`, ...: what one
operation does to consecutive words) over the operations of disk, chip and
channel to the loops, and then to each command. A loop is a recursive function
of the round, so what any number of rounds keeps (`Loop`) is proved by induction.
The library's induction theorem takes an operator, which no installed prover can
instantiate; `NatInduct` states induction for a set of numbers instead and gets it
from the well-foundedness of `<`. `RoundsExist` shows that the recursive function
is defined.

The proof corrected the model: an inquiry with no length to allocate opens no
data phase (scsi.c:687), and the words of one are counted from its beginning, not
from the address of the block a read would have had.

### What is only model-checked

* Every liveness property (`EveryEventLeaves`, `QuitCompletes`, `SocketEnds`,
  `EveryVerbAnswered`, `KeysComeUp`, `MapCatchesUp`, `ReaderCatchesUp`,
  `QueueDrains`, `StopEnds`, `CommandEnds`, `BufferCompletes`,
  `BoardIntCatchesUp`, `BoardRemoved`): fairness and `ENABLED` are beyond the
  prover.
* The three properties expected to be violated, of course, and that no run
  deadlocks where its configuration checks it.

Each module states its type invariant (`TypeOK`, `InputTypeOK`). Only that of
`CycInt` is part of a run and of a theorem; the proofs of the other modules state
the types they need in their own invariant (`BoardTypeOK`, `Typed`, `Queues`,
`Shows`, ...).

## 5. How the models fit together

* `Machine` composes `MainLoop` and `Timing`: what `Timing` takes for granted, a
  paused clock that nobody reads, is checked there (`ThreadsStopClock`).
* `CycInt` takes from `Timing` that its clock does not go back
  (`TimeNeverGoesBack`), and allows a reset only inside a handler, as `MainLoop`
  shows it to happen. The "time" clock of the Esp, Sound and Dimension models'
  events is `CycInt`'s: that a pending event is dispatched is `EveryEventLeaves`.
* `MainLoop` has one event of the scheduler's table, and `PollScheduled` says it
  is there whenever the CPU runs; together with `EveryEventLeaves` the poll keeps
  coming. `CtlInput` and `KeyPath` rest on it.
* `CtlSock` extends `CtlInput`. What its FBSYNC and NET verbs do is in `FbShm`
  (`Screen_ShmResync`) and `Enet` (`Ethernet_HostDetach`, `Ethernet_HostAttach`).
* `Dimension`'s pause is `MainLoop`'s: it happens while the emulation thread is
  parked, between two of its operations (`ParkedWhenPaused`).
* `Sound` produces the blocks `SndFifo` resamples (`snd_send_samples`).

## 6. Disagreements between the code and what it says

Shown by a run (see "findings" in `PROJECT.json`):

1. `main_quit`: the request to leave the CPU loop is a plain read-modify-write
   of `regs.spcflags`, made after the emulation was continued. An interrupt that
   the emulation thread raises at that moment stores the old value over it;
   `m68k_run` never returns and `Main_UnInit` waits for ever.
2. `ctlsock_ack`: `ctl_reply` answers whatever connection `ctl_conn_fd` names
   when it runs; after a reconnect the new client can receive an OK for a verb it
   has not seen applied.
3. `enet_netdown`: after NETDOWN with SLiRP the I/O event still polls the queue:
   `enet_slirp_queue_poll` does not look at `slirp_started`, so it locks a
   destroyed mutex and reads a freed queue. `enet_pcap.c:77-90` has the guard.

Met while modelling, without a run of their own. What properties of section 3
except, and except alone:

4. When a peer goes away while the ring is full, the releases that
   ctl_thread_main queues for it are dropped (ctlsock.c:594-596), against
   ctlsock.c:223, "drop everything the guest is holding". The guest then holds a
   modifier or a button until another client comes and goes. `HeldReleased` is
   about the rest; `EverythingReleased` of `CtlSock` excepts nothing and fails.
5. With `WRITEPROT_ON` the first block that is written makes the overlay's table
   and is not stored in it (scsi.c:500-505), with GOOD status; reading it gives
   the image's old block, against "use temporary overlay" (gui-sdl/dlgSCSI.c:98).
   `DataInOrder` and `OverlayKeeps` are about all other blocks; `ReadsBack` of
   `Esp` excepts nothing and fails. The dialog has the setting only in builds with
   `ENABLE_TESTING`; the configuration file has it in all (configuration.c:222).

Threads and clock:

6. `Main_PauseEmulation` (main.c:109-118): if its wait times out and the user
   continues, the late signal stays on the semaphore; the next pause takes it
   and returns, "paused", while the emulation thread runs. The model has this
   behaviour with `Slow = TRUE`, where `ParkedWhenPaused` already fails at the
   time-out itself.
7. `SndFifo_UnInit` closes the pipe before the emulation thread is joined
   (main.c:374-376), so a block may be in the middle of `SndFifo_Write`.

Control socket and keyboard:

8. Keys and modifiers do not wait for the pointer, and the pass that sends their
   report ends with a motion report (ctlsock.c:946): both are lost, also for a
   client that waits for every acknowledgement (`NoOverrun` of `CtlInput`, in an
   instance of `InputSpec` with keys).
9. A disconnect releases modifiers and buttons, but no ordinary key: RELEASE
   reports modifiers and clears the records of held keys (ctlsock.c:785-801),
   against ctlsock.c:223. A button pressed on the mouse route is released on the
   tablet's if the guest enabled it meanwhile (`PTR_MODE = "auto"`). Hence
   `HeldReleased` is about modifiers, and about buttons on a fixed route.
10. A click can land at a stale position when the guest enables its tablet
    between the MOVEA and the click (`PTR_MODE = "auto"` for the "pointer"
    scenario), and a button report and the first motion of the same pass overrun
    each other for a client that does not wait.
11. `CtlSock_UnInit` reads `ctl_conn_fd` between `accept` and its store in the
    reader: the new connection is not shut down, and the join lasts until its
    peer leaves (hence the premise of `SocketEnds`).
12. A key-up that meets a full SDL ring (sdlevent.c:64), a register the guest
    does not poll, or an overrun is gone, and nothing makes up for it: the guest
    keeps the key pressed (`lost` in `KeyPath`).

Frame buffer, Ethernet, SCSI:

13. A process that starts again on the same mapping counts from the beginning
    (sdlscreen.c:243): its counter may reach the value a reader holds, with
    another picture under it, and the reader skips the frame. Hence `lives = 0`
    in `SkipIsSound` and `ReaderCatchesUp`.
14. A reset of the machine in the middle of a received packet leaves
    `receiver_state` at RECEIVING (ethernet.c:793), and the queue is not polled
    any more (`cut` in `QueueDrains`); a guest's reset with a packet in the
    buffer lets the next one replace it (ethernet.c:775; `torn` in
    `NoOverwrite`). NETDOWN is not sticky: writing the last byte of the node
    address starts the backend again (ethernet.c:286).
15. A bus reset keeps an interrupt nobody has read (esp.c:750); reading it ends
    the next command early. The model's guest reads it first.

Sound and NeXTdimension:

16. `fifo_emit` skips 4-p bytes of the next buffer after p bytes of a frame.
    That restores the frame boundary for p = 2 only, and is forgotten when the
    next write takes nothing, against sndfifo.c:43-44 (`Framing` of `SndFifo`,
    with `Quantum = 1`).
17. A change of the sound settings calls `Sound_Reset` (change.c:317), which
    forgets the length of the last piece; the channel is then at its limit, the
    next request does not complete it (kms.c:242), and the guest is never told.
    The comment at snd.c:489, "Call do_dma_sndout_intr() a little bit later",
    expects otherwise. `BufferCompletes` is checked with `Settings = FALSE` and
    fails with `TRUE`. Also, a buffer whose last piece was sent is not reported
    complete if the output stops before the next event, and the overrun interrupt
    is one for both directions (kms.c:671-678).
18. CSR0 of a board is changed by two threads with plain loads and stores
    (nd_devs.cpp:295-298, 505-523): one may take back what the other has just
    set, an interrupt mask for instance. `BoardIntCatchesUp` compares the pin
    with the register as it is.
19. A reset message swallows an interrupt that was raised in the same batch
    (i860.cpp:567-572); the next blank raises it again. A reset handled during a
    pause lets the i860 run while the machine is paused (i860dec.cpp:4025 against
    i860dbg.cpp:366).
20. Read but not modelled: `remInter |= 1 << slot` by the threads of several
    boards (nd_nbic.cpp:139-145) can lose a board's bit; `i860_run_no_thread`
    returns at the first halted board instead of going on to the next
    (i860.cpp:42); `i860cycles` has no initial value.

## 7. Not modelled, and the plan

Not modelled and not planned: the instruction sets (68k, i860, DSP56001), MMU,
FPU, softfloat and slirp's TCP/IP (vendored or data paths, more than half of the
repository's lines), memory controllers (combinational), the debugger, dialogs'
widgets, file parsing.

Could be modelled next: the interrupt masks and the hardclock (sysReg.c), the
real-time clock's bit protocol (rtcnvram.c), sound input (snd.c:495 on), the
tablet's packets, the ADB keyboard, the seeks and commands of the floppy and
magneto-optical drives, the DSP's host port.

Every invariant and action property of the passing runs is a theorem; what is
left to the runs alone is liveness (section 4).
