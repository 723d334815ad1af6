----------------------------- MODULE MCMachine ------------------------------
(***************************************************************************)
(* Machine on small instances, in two scenarios of one run; "scenario"     *)
(* never changes.                                                          *)
(*   "threads"  Machine: both threads and a clock of a few ticks.          *)
(*   "clock"    Timing alone, which pauses at any moment and counts        *)
(*             further, with two cycles per microsecond; cycle origins     *)
(*             before zero wrap.                                           *)
(* The constants in the configuration are those of "threads".              *)
(***************************************************************************)
EXTENDS Machine

VARIABLE scenario

Clock == INSTANCE Timing WITH
           nCpuFreq <- 2, MaxCounter <- 7, MaxCycles <- 6

MCInit ==
  \/ scenario = "threads" /\ MachineInit
  \/ scenario = "clock" /\ Clock!TimingInit /\ Init

MCNext ==
  /\ \/ scenario = "threads" /\ MachineNext
     \/ scenario = "clock" /\ Clock!TimingNext /\ UNCHANGED vars
  /\ UNCHANGED scenario

MCSpec == MCInit /\ [][MCNext]_<<machineVars, scenario>>

-----------------------------------------------------------------------------
(* The clock stands still exactly while the emulation thread is asleep in  *)
(* a pause (main.c:111-164).                                               *)
ThreadsStopClock == scenario = "threads" => ClockStopsAsleep
=============================================================================
