------------------------------ MODULE Machine -------------------------------
(***************************************************************************)
(* The two threads of src/src/main.c (MainLoop) and the guest's clock of   *)
(* src/src/timing.c (Timing) together.  Main_PauseEmulation stops the      *)
(* clock after its wait for the emulation thread, Main_UnPauseEmulation    *)
(* starts it again, a cold reset restarts it, and Main_EventHandler, the   *)
(* devices and the CPU read it and let it run.  Timing by itself assumes   *)
(* that nobody reads a clock that is stopped; here the threads must see to *)
(* it, until Main_UnInit lets the emulation thread run to its end without  *)
(* a word to the clock.                                                    *)
(***************************************************************************)
EXTENDS MainLoop, Timing

machineVars == <<vars, timingVars>>

(* Main_Init has reset the clock, and Main_UnPauseEmulation started it. *)
MachineInit == Init /\ TimingReady /\ paused = FALSE

(* The emulation thread is neither asleep nor gone. *)
Executing == EmuFree /\ ~asleep /\ emu \notin {"pausing", "parked", "exited"}

(* Any code the CPU calls reads the clock. *)
EmuClock == Executing /\ (Timing_GetTime \/ Cpu) /\ UNCHANGED vars

(* The handler publishes the time; the other thread goes on in the sleep.   *)
Synchronise == emu = "handler" /\ ~asleep /\ Timing_Sync /\ UNCHANGED vars

(* The sleep is over; a host counter at its bound cannot be waited for. *)
SleepOrBound ==
  \/ Timing_Awake
  \/ ~asleep /\ Waited(HostTime) = {} /\ UNCHANGED timingVars

EmuStep ==
  \/ Synchronise
  \/ HandlerEnd /\ SleepOrBound
  \/ (EmuStore \/ ThreadStart \/ ThreadEnd \/ Go \/ Raise \/ Specialties
        \/ MainEventDue \/ Signal \/ Unpark) /\ UNCHANGED timingVars

(* Mutant: the clock stops first, and the wait comes afterwards. *)
PauseStopsEarly ==
  \/ Pause /\ (IF bEmulationActive THEN Timing_Pause ELSE UNCHANGED timingVars)
  \/ (WaitSignalled \/ WaitTimeout) /\ UNCHANGED timingVars

(* Main_PauseEmulation: the clock stops once the wait is over. *)
PauseEmulation ==
  \/ Pause /\ UNCHANGED timingVars
  \/ (WaitSignalled \/ WaitTimeout) /\ Timing_Pause

(* Main_UnPauseEmulation does nothing if the emulation is active. *)
UnPauseEmulation ==
  /\ Resume
  /\ IF bEmulationActive' /\ ~bEmulationActive THEN Timing_UnPause ELSE UNCHANGED timingVars

UiStep ==
  \/ PauseEmulation \/ UnPauseEmulation
  \/ ActReset /\ Timing_Reset
  \/ (UiStore \/ ActNothing \/ ActQuit \/ ActClose \/ Query \/ Stop \/ UnInit \/ Join)
       /\ UNCHANGED timingVars

MachineNext ==
  \/ EmuStep \/ EmuClock \/ UiStep
  \/ User /\ UNCHANGED timingVars
  \/ Tick /\ UNCHANGED vars

MachineSpec == MachineInit /\ [][MachineNext]_machineVars

-----------------------------------------------------------------------------
(* Properties. *)

(* The clock stands still exactly while the main thread has the emulation  *)
(* paused, and the emulation thread is asleep all that time: no reading    *)
(* falls into a pause, so none is taken back when the origin moves on      *)
(* (main.c:111-164, timing.c:59-66).  Once Main_UnInit waits for the       *)
(* thread's end the clock is never started again.                          *)
ClockStopsAsleep ==
  ui \notin {"join", "done"} => (paused <=> Paused) /\ (paused => emu = "parked")
=============================================================================
