------------------------------ MODULE MainLoop ------------------------------
(***************************************************************************)
(* The two threads of src/src/main.c: the main thread, which shows the     *)
(* user interface, and the emulation thread, which runs the CPU and every  *)
(* device.  The main thread stops the emulation before it touches it:      *)
(* Main_PauseEmulation clears bEmulationActive and waits, for at most one  *)
(* second, for a semaphore that Main_EventHandler signals when it sees the *)
(* flag cleared; the handler then sleeps until the flag is set again.      *)
(*                                                                         *)
(* The CPU looks at regs.spcflags after every instruction.  The flags are  *)
(* a plain word that both threads change by a load and a store of their    *)
(* own (set_special, unset_special), so a store can undo another's change. *)
(*                                                                         *)
(* Abstractions: a dialog is the choice the user makes in it; the events   *)
(* of the scheduler are EVENT_MAIN_EVENT alone, which is pending or not.   *)
(***************************************************************************)
EXTENDS Integers

CONSTANTS
  Slow,             \* may the emulation thread miss the one second of the wait?
  MaxTokens         \* bound on the semaphore's count

ASSUME MainAssumption == Slow \in BOOLEAN /\ MaxTokens \in Nat \ {0}

VARIABLES
  bEmulationActive, bQuitProgram,
  pauseFlag,        \* the semaphore's count
  spcflags,         \* regs.spcflags
  mainEvent,        \* is EVENT_MAIN_EVENT scheduled?
  emu,              \* the emulation thread's place
  emuFlags,         \* what it is about to store in spcflags
  ui, op,           \* the main thread's place, and what the user asked for
  uiFlags,          \* what it is about to store in spcflags
  bWasActive

shared   == <<bEmulationActive, bQuitProgram, spcflags>>
emuVars  == <<mainEvent, emu, emuFlags>>
uiVars   == <<ui, op, uiFlags, bWasActive>>
vars     == <<shared, pauseFlag, emuVars, uiVars>>

Flags == {"BRK", "INT", "MODE_CHANGE"}
NoStore == {"none"}

(* What the user can ask for: pause or continue; something that pauses and *)
(* changes nothing (full screen, debugger, a dialog left by cancel); the   *)
(* options dialog; a cold reset; the answer to a halted CPU; quitting.     *)
Ops == {"toggle", "look", "options", "coldreset", "halt", "quit"}

(* After Main_Init, Main_UnPauseEmulation and the thread's creation. *)
Init ==
  /\ bEmulationActive = TRUE /\ bQuitProgram = FALSE
  /\ pauseFlag = 0
  /\ spcflags = {"MODE_CHANGE"}
  /\ mainEvent = FALSE
  /\ emu = "start" /\ emuFlags = NoStore
  /\ ui = "idle" /\ op = "toggle" /\ uiFlags = NoStore /\ bWasActive = FALSE

-----------------------------------------------------------------------------
(* The emulation thread: Main_Thread, m68k_go, the CPU, Main_EventHandler. *)

EmuFree == emuFlags = NoStore
UiKeeps == UNCHANGED <<bQuitProgram, uiVars>>

(* set_special and unset_special: the load, and later the store. *)
EmuLoad(flags, then) == emuFlags' = flags /\ emu' = then

EmuStore ==
  /\ ~EmuFree
  /\ spcflags' = emuFlags /\ emuFlags' = NoStore
  /\ UNCHANGED <<bEmulationActive, pauseFlag, mainEvent, emu>> /\ UiKeeps

ThreadStart ==
  /\ EmuFree /\ emu = "start" /\ ~bQuitProgram
  /\ mainEvent' = TRUE
  /\ emu' = "go"
  /\ UNCHANGED <<bEmulationActive, spcflags, pauseFlag, emuFlags>> /\ UiKeeps

ThreadEnd ==
  /\ EmuFree /\ emu = "start" /\ bQuitProgram
  /\ bEmulationActive' = FALSE
  /\ emu' = "exited"
  /\ UNCHANGED <<spcflags, pauseFlag, mainEvent, emuFlags>> /\ UiKeeps

(* The top of m68k_go's loop: leave it, or reset the CPU and run it. *)
Go ==
  /\ EmuFree /\ emu = "go"
  /\ IF "BRK" \in spcflags THEN EmuLoad(spcflags \ {"BRK"}, "start")
     ELSE IF bQuitProgram THEN emu' = "start" /\ UNCHANGED emuFlags
     ELSE EmuLoad(spcflags \ {"MODE_CHANGE"}, "cpu")
  /\ UNCHANGED <<bEmulationActive, spcflags, pauseFlag, mainEvent>> /\ UiKeeps

(* A device raises an interrupt: M68000_CheckInterrupt. *)
Raise ==
  /\ EmuFree /\ emu = "cpu" /\ "INT" \notin spcflags
  /\ EmuLoad(spcflags \cup {"INT"}, "cpu")
  /\ UNCHANGED <<bEmulationActive, spcflags, pauseFlag, mainEvent>> /\ UiKeeps

(* do_specialties works on a copy of the flags. *)
Specialties ==
  /\ EmuFree /\ emu = "cpu" /\ spcflags # {}
  /\ LET then == IF "BRK" \in spcflags THEN "go" ELSE "cpu"
     IN  IF "MODE_CHANGE" \in spcflags THEN emu' = "go" /\ UNCHANGED emuFlags
         ELSE IF "INT" \in spcflags THEN EmuLoad(spcflags \ {"INT"}, then)
         ELSE emu' = then /\ UNCHANGED emuFlags
  /\ UNCHANGED <<bEmulationActive, spcflags, pauseFlag, mainEvent>> /\ UiKeeps

(* The scheduler calls Main_EventHandler between two instructions. *)
MainEventDue ==
  /\ EmuFree /\ emu = "cpu" /\ mainEvent
  /\ mainEvent' = FALSE
  /\ emu' = IF bEmulationActive THEN "handler" ELSE "pausing"
  /\ UNCHANGED <<bEmulationActive, spcflags, pauseFlag, emuFlags>> /\ UiKeeps

Signal ==
  /\ emu = "pausing" /\ pauseFlag < MaxTokens
  /\ pauseFlag' = pauseFlag + 1
  /\ emu' = "parked"
  /\ UNCHANGED <<shared, mainEvent, emuFlags>> /\ UiKeeps

(* Mutant: one sleep, then on, whatever the flag says. *)
UnparkBlindly ==
  /\ emu = "parked"
  /\ emu' = "handler"
  /\ UNCHANGED <<shared, pauseFlag, mainEvent, emuFlags>> /\ UiKeeps

(* The handler looks at the flag every 20 ms. *)
Unpark ==
  /\ emu = "parked" /\ bEmulationActive
  /\ emu' = "handler"
  /\ UNCHANGED <<shared, pauseFlag, mainEvent, emuFlags>> /\ UiKeeps

(* Mutant: the handler does not schedule itself again. *)
HandlerEndOnce ==
  /\ emu = "handler"
  /\ emu' = "cpu"
  /\ UNCHANGED <<shared, pauseFlag, mainEvent, emuFlags>> /\ UiKeeps

HandlerEnd ==
  /\ emu = "handler"
  /\ mainEvent' = TRUE
  /\ emu' = "cpu"
  /\ UNCHANGED <<shared, pauseFlag, emuFlags>> /\ UiKeeps

Emu ==
  \/ EmuStore \/ ThreadStart \/ ThreadEnd \/ Go \/ Raise \/ Specialties
  \/ MainEventDue \/ Signal \/ Unpark \/ HandlerEnd

-----------------------------------------------------------------------------
(* The main thread: GuiEvent_EventHandler, the shortcuts and the dialogs.  *)

UiFree == uiFlags = NoStore
EmuKeeps == UNCHANGED <<emu, emuFlags>>

UiStore ==
  /\ ~UiFree
  /\ spcflags' = uiFlags /\ uiFlags' = NoStore
  /\ UNCHANGED <<bEmulationActive, bQuitProgram, pauseFlag, mainEvent, ui, op, bWasActive>>
  /\ EmuKeeps

Ask(o) ==
  /\ UiFree /\ ui = "idle" /\ ~bQuitProgram
  /\ op' = o
  /\ ui' = IF o = "toggle" /\ ~bEmulationActive THEN "resume" ELSE "pause"
  /\ UNCHANGED <<shared, pauseFlag, mainEvent, uiFlags, bWasActive>> /\ EmuKeeps

AfterPause == IF op = "toggle" THEN "idle" ELSE IF op = "quit" THEN "query" ELSE "act"

(* Main_PauseEmulation *)
Pause ==
  /\ UiFree /\ ui = "pause"
  /\ bEmulationActive' = FALSE
  /\ bWasActive' = bEmulationActive
  /\ ui' = IF bEmulationActive THEN "wait" ELSE AfterPause
  /\ UNCHANGED <<bQuitProgram, spcflags, pauseFlag, mainEvent, op, uiFlags>> /\ EmuKeeps

WaitSignalled ==
  /\ UiFree /\ ui = "wait" /\ pauseFlag > 0
  /\ pauseFlag' = pauseFlag - 1
  /\ ui' = AfterPause
  /\ UNCHANGED <<shared, mainEvent, op, uiFlags, bWasActive>> /\ EmuKeeps

(* A second goes by: the thread was asleep and never saw the flag change,   *)
(* or it is slow.                                                          *)
WaitTimeout ==
  /\ UiFree /\ ui = "wait" /\ pauseFlag = 0
  /\ Slow \/ emu \in {"parked", "exited"}
  /\ ui' = AfterPause
  /\ UNCHANGED <<shared, pauseFlag, mainEvent, op, uiFlags, bWasActive>> /\ EmuKeeps

(* Nothing was changed, or the user agreed to the halted CPU's restart. *)
ActNothing ==
  /\ UiFree /\ ui = "act" /\ op # "coldreset"
  /\ ui' = "resume"
  /\ UNCHANGED <<shared, pauseFlag, mainEvent, op, uiFlags, bWasActive>> /\ EmuKeeps

(* Reset_Cold: CycInt_Reset forgets every event, M68000_Reset asks the CPU  *)
(* to leave its loop.                                                      *)
ActReset ==
  /\ UiFree /\ ui = "act" /\ op \in {"options", "coldreset"}
  /\ mainEvent' = FALSE
  /\ uiFlags' = spcflags \cup {"MODE_CHANGE"}
  /\ ui' = "resume"
  /\ UNCHANGED <<shared, pauseFlag, op, bWasActive>> /\ EmuKeeps

(* A reset that fails, or a halted CPU that is not restarted. *)
ActQuit ==
  /\ UiFree /\ ui = "act" /\ op \in {"coldreset", "halt"}
  /\ bQuitProgram' = TRUE
  /\ ui' = "stop"
  /\ UNCHANGED <<bEmulationActive, spcflags, pauseFlag, mainEvent, op, uiFlags, bWasActive>>
  /\ EmuKeeps

(* Closing the program inside the options dialog: it asks once more. *)
ActClose ==
  /\ UiFree /\ ui = "act" /\ op = "options"
  /\ bQuitProgram' = TRUE
  /\ ui' = "query"
  /\ UNCHANGED <<bEmulationActive, spcflags, pauseFlag, mainEvent, op, uiFlags, bWasActive>>
  /\ EmuKeeps

(* Main_RequestQuit(true) continues the emulation before it stops the CPU; *)
(* inside a dialog the emulation was paused before, and stays so.          *)
Query ==
  /\ UiFree /\ ui = "query"
  /\ bQuitProgram' \in BOOLEAN
  /\ ui' = IF op = "quit" \/ ~bQuitProgram' THEN "resume" ELSE "stop"
  /\ UNCHANGED <<bEmulationActive, spcflags, pauseFlag, mainEvent, op, uiFlags, bWasActive>>
  /\ EmuKeeps

(* Main_UnPauseEmulation, or nothing if the caller found it paused. *)
Resume ==
  /\ UiFree /\ ui = "resume"
  /\ bEmulationActive' = (bEmulationActive \/ bWasActive \/ op \in {"toggle", "coldreset", "halt"})
  /\ ui' = IF op = "quit" /\ bQuitProgram THEN "stop" ELSE "idle"
  /\ UNCHANGED <<bQuitProgram, spcflags, pauseFlag, mainEvent, op, uiFlags, bWasActive>>
  /\ EmuKeeps

(* M68000_Stop *)
Stop ==
  /\ UiFree /\ ui = "stop"
  /\ uiFlags' = spcflags \cup {"BRK"}
  /\ ui' = IF op = "quit" THEN "idle" ELSE "resume"
  /\ UNCHANGED <<shared, pauseFlag, mainEvent, op, bWasActive>> /\ EmuKeeps

(* Main_UnInit lets the thread go on and waits for its end. *)
UnInit ==
  /\ UiFree /\ ui = "idle" /\ bQuitProgram
  /\ bEmulationActive' = TRUE
  /\ ui' = "join"
  /\ UNCHANGED <<bQuitProgram, spcflags, pauseFlag, mainEvent, op, uiFlags, bWasActive>>
  /\ EmuKeeps

Join ==
  /\ ui = "join" /\ emu = "exited"
  /\ ui' = "done"
  /\ UNCHANGED <<shared, pauseFlag, mainEvent, op, uiFlags, bWasActive>> /\ EmuKeeps

(* The user asks for something; everything else the thread does by itself. *)
User == \E o \in Ops : Ask(o)

Ui ==
  \/ UiStore \/ Pause \/ WaitSignalled \/ WaitTimeout
  \/ ActNothing \/ ActReset \/ ActQuit \/ ActClose \/ Query
  \/ Resume \/ Stop \/ UnInit \/ Join

Next == Emu \/ User \/ Ui

Spec == Init /\ [][Next]_vars

(* Both threads keep running.  The CPU looks at its flags and runs the due  *)
(* events after every instruction (SF: the loads and stores in between only *)
(* disable them for a moment).  Nothing makes the user act.                *)
Fairness ==
  /\ WF_vars(Emu) /\ SF_vars(Specialties) /\ SF_vars(MainEventDue)
  /\ WF_vars(Ui)

FairSpec == Spec /\ Fairness

-----------------------------------------------------------------------------
(* Properties. *)

TypeOK ==
  /\ bEmulationActive \in BOOLEAN /\ bQuitProgram \in BOOLEAN
  /\ pauseFlag \in 0 .. MaxTokens
  /\ spcflags \in SUBSET Flags /\ mainEvent \in BOOLEAN
  /\ emu \in {"start", "go", "cpu", "pausing", "parked", "handler", "exited"}
  /\ emuFlags \in SUBSET Flags \cup {NoStore}
  /\ ui \in {"idle", "pause", "wait", "act", "query", "resume", "stop", "join", "done"}
  /\ op \in Ops
  /\ uiFlags \in SUBSET Flags \cup {NoStore}
  /\ bWasActive \in BOOLEAN

(* The main thread works with the emulation paused. *)
Paused == ~bEmulationActive /\ ui # "wait" /\ emu # "exited"

(* "Wait until 68k thread is paused" (main.c:117): when Main_PauseEmulation *)
(* has returned, and until the emulation continues, the emulation thread   *)
(* is asleep in Main_EventHandler and touches nothing.                     *)
ParkedWhenPaused == Paused => emu = "parked"

(* "Poll events at 200 Hz" (main.c:255): a cold reset empties the event    *)
(* table, and still the CPU never runs without the next poll scheduled.    *)
PollScheduled == emu \in {"go", "cpu"} => mainEvent \/ bQuitProgram

(* "Assure that CPU core shuts down" (main.c:206), "Make sure emulator     *)
(* thread exits" (main.c:376): once the program quits, it ends.            *)
QuitCompletes == ui = "join" ~> ui = "done"
=============================================================================
