------------------------------- MODULE Timing -------------------------------
(***************************************************************************)
(* The guest's microsecond clock of src/src/timing.c.  Timing_GetTime      *)
(* reads one of two counters, emulated CPU cycles or the host's            *)
(* performance counter, and changes over between them as the guest enters  *)
(* and leaves user mode; Timing_Pause and Timing_Reset move their origins. *)
(*                                                                         *)
(* The two counters are 64-bit words: differences wrap, and a cycle origin *)
(* may lie before zero.  Here nothing runs or reads the clock while the    *)
(* emulation is paused; Machine shows that the threads see to it.          *)
(*                                                                         *)
(* Timing_Sync publishes the guest's time for other threads and then       *)
(* sleeps: they can read it in the sleep, before the host's clock is there *)
(* (Timing_Awake).                                                         *)
(*                                                                         *)
(* Abstractions: the two ways of waiting (sleeping, spinning) end when the *)
(* host's counter has come far enough; hardclock statistics and reports.   *)
(***************************************************************************)
EXTENDS Integers

CONSTANTS
  Word,             \* 2^64: the size of a counter
  nCpuFreq,         \* cycles per microsecond
  perfDivisor,      \* ticks of the host's counter per microsecond
  MaxCounter, MaxCycles     \* bounds on the two counters

ASSUME TimingAssumption ==
  /\ Word \in Nat \ {0} /\ nCpuFreq \in Nat \ {0} /\ perfDivisor \in Nat \ {0}
  /\ MaxCounter \in Nat \ {0} /\ MaxCycles \in Nat
  /\ 2 * (MaxCycles + MaxCounter * nCpuFreq) < Word

VARIABLES
  counter,              \* host_get_counter()
  nCyclesMainCounter,
  perfCounterStart, cycleCounterStart, pauseTimeStamp,
  enableRealtime, currentIsRealtime,
  userMode, osDarkmatter,   \* ~regs.s; the guest runs darkmatter
  saveTime,             \* what other threads are told (Timing_GetSaveTime)
  asleep,               \* is the emulation thread in Timing_Sync's sleep?
  paused,               \* is the emulation paused?
  reading,              \* history: what Timing_GetTime returned last
  ran                   \* history: host ticks since the reset, pauses left out

origins == <<perfCounterStart, cycleCounterStart, pauseTimeStamp>>
modes   == <<enableRealtime, currentIsRealtime, userMode, osDarkmatter>>
saved   == <<saveTime, asleep>>
timingVars ==
  <<counter, nCyclesMainCounter, origins, modes, saved, paused, reading, ran>>

Diff(a, b) == (a - b) % Word
(* As an int64_t. *)
Signed(w) == IF 2 * w >= Word THEN w - Word ELSE w

(* After Timing_Reset; Main_Init then continues the emulation. *)
TimingReady ==
  /\ counter \in {0, 1} /\ nCyclesMainCounter = 0
  /\ perfCounterStart = counter /\ pauseTimeStamp = counter
  /\ cycleCounterStart = 0
  /\ enableRealtime \in BOOLEAN /\ currentIsRealtime = FALSE
  /\ userMode = FALSE /\ osDarkmatter = FALSE
  /\ saveTime = 0 /\ asleep = FALSE
  /\ reading = 0 /\ ran = 0

TimingInit == TimingReady /\ paused = TRUE

-----------------------------------------------------------------------------
(* Timing_GetRealTime at the host's counter c. *)
RealTimeAt(c) == Diff(c, perfCounterStart) \div perfDivisor

HostTime ==
  IF currentIsRealtime THEN RealTimeAt(counter)
  ELSE Diff(nCyclesMainCounter, cycleCounterStart) \div nCpuFreq

Realtime == (osDarkmatter \/ userMode) /\ enableRealtime

(* The counter once the host's clock is no longer behind t. *)
Waited(t) ==
  {c \in counter .. MaxCounter : Signed(Diff(t, RealTimeAt(c))) <= 0}

(* Mutant: the cycles start at zero again. *)
CycleOriginZero(t) == nCyclesMainCounter

(* Cycle time goes on from t. *)
CycleOrigin(t) == Diff(nCyclesMainCounter, t * nCpuFreq)

(* Timing_GetTime: before the host's counter is read instead of the cycles *)
(* it has to get there.                                                    *)
ReadTime ==
  /\ reading' = HostTime
  /\ currentIsRealtime' = Realtime
  /\ cycleCounterStart' = IF currentIsRealtime /\ ~Realtime
                          THEN CycleOrigin(HostTime) ELSE cycleCounterStart
  /\ counter' \in IF Realtime /\ ~currentIsRealtime
                  THEN Waited(HostTime) ELSE {counter}
  /\ ran' = ran + counter' - counter

TimeKeeps ==
  UNCHANGED <<nCyclesMainCounter, perfCounterStart, pauseTimeStamp,
              enableRealtime, userMode, osDarkmatter, paused>>

Timing_GetTime == ReadTime /\ TimeKeeps /\ UNCHANGED saved

(* Timing_Sync, 200 times a second: the guest's time is published, and then *)
(* the thread sleeps for as long as the host's clock is behind.            *)
Timing_Sync == ReadTime /\ TimeKeeps /\ saveTime' = reading' /\ asleep' = TRUE

(* Mutant: the time left is not slept. *)
AwakeAtOnce ==
  /\ asleep /\ asleep' = FALSE
  /\ UNCHANGED <<counter, nCyclesMainCounter, origins, modes, saveTime, paused, reading, ran>>

Timing_Awake ==
  /\ asleep /\ counter \in Waited(saveTime)
  /\ asleep' = FALSE
  /\ UNCHANGED <<counter, nCyclesMainCounter, origins, modes, saveTime, paused, reading, ran>>

-----------------------------------------------------------------------------
Timing_Pause ==
  /\ ~paused
  /\ paused' = TRUE
  /\ pauseTimeStamp' = counter
  /\ UNCHANGED <<counter, nCyclesMainCounter, perfCounterStart, cycleCounterStart,
                 modes, saved, reading, ran>>

Timing_UnPause ==
  /\ paused
  /\ paused' = FALSE
  /\ perfCounterStart' = (perfCounterStart + Diff(counter, pauseTimeStamp)) % Word
  /\ UNCHANGED <<counter, nCyclesMainCounter, cycleCounterStart, pauseTimeStamp,
                 modes, saved, reading, ran>>

(* Mutant: the stamp of the pause that is going on is kept. *)
ResetKeepsStamp ==
  /\ paused
  /\ perfCounterStart' = counter
  /\ cycleCounterStart' = 0 /\ nCyclesMainCounter' = 0
  /\ enableRealtime' \in BOOLEAN
  /\ osDarkmatter' = FALSE
  /\ currentIsRealtime' = (userMode /\ enableRealtime')
  /\ saveTime' = 0
  /\ reading' = 0 /\ ran' = 0
  /\ UNCHANGED <<counter, pauseTimeStamp, userMode, asleep, paused>>

(* A cold reset in a pause: Timing_Reset and CycInt_Reset, then             *)
(* Main_SpeedReset reads the clock before the CPU leaves user mode.        *)
Timing_Reset ==
  /\ paused
  /\ perfCounterStart' = counter /\ pauseTimeStamp' = counter
  /\ cycleCounterStart' = 0 /\ nCyclesMainCounter' = 0
  /\ enableRealtime' \in BOOLEAN
  /\ osDarkmatter' = FALSE
  /\ currentIsRealtime' = (userMode /\ enableRealtime')
  /\ saveTime' = 0
  /\ reading' = 0 /\ ran' = 0
  /\ UNCHANGED <<counter, userMode, asleep, paused>>

-----------------------------------------------------------------------------
(* The CPU runs an instruction, or enters or leaves user mode; a vertical  *)
(* blank looks at the guest's kernel (Timing_BlankCount).                  *)
Cpu ==
  /\ \/ /\ nCyclesMainCounter < MaxCycles
        /\ nCyclesMainCounter' = nCyclesMainCounter + 1
        /\ UNCHANGED <<userMode, osDarkmatter>>
     \/ /\ userMode' = ~userMode
        /\ UNCHANGED <<nCyclesMainCounter, osDarkmatter>>
     \/ /\ osDarkmatter' \in BOOLEAN
        /\ UNCHANGED <<nCyclesMainCounter, userMode>>
  /\ UNCHANGED <<counter, origins, enableRealtime, currentIsRealtime, saved,
                 paused, reading, ran>>

(* Time goes by on the host. *)
Tick ==
  /\ counter < MaxCounter
  /\ counter' = counter + 1
  /\ ran' = IF paused THEN ran ELSE ran + 1
  /\ UNCHANGED <<nCyclesMainCounter, origins, modes, saved, paused, reading>>

TimingNext ==
  \/ ~paused /\ ~asleep /\ (Timing_GetTime \/ Timing_Sync \/ Cpu \/ Timing_Pause)
  \/ Timing_Awake
  \/ Timing_UnPause \/ Timing_Reset
  \/ Tick

TimingSpec == TimingInit /\ [][TimingNext]_timingVars

-----------------------------------------------------------------------------
(* Properties. *)

(* The guest's clock never goes back, however the two counters take turns  *)
(* and whatever is paused; only a cold reset starts it again (the deadlines*)
(* of cycInt.c and the guest's hardclock, sysReg.c:626-628, rest on it).   *)
(* Nor does the time other threads are told, in the sleep of Timing_Sync    *)
(* and out of it: tick_func takes a drop for a new start of the clock      *)
(* (enet_slirp.c:106-121).                                                 *)
TimeNeverGoesBack ==
  [][(reading' >= reading /\ saveTime' >= saveTime) \/ Timing_Reset]_timingVars

(* A pause does not count: the host's clock shows the time the emulation    *)
(* has run, also if the machine was reset while it was paused.             *)
RealTimeIsRunTime == ~paused => Diff(counter, perfCounterStart) = ran

(* "This can be used by other threads to read hostTime" (timing.c:123):     *)
(* what they read is the guest's time, ahead of the host's clock only       *)
(* while the emulation thread sleeps the difference off, and then it is     *)
(* the guest's present time; once it runs on, what they read has passed.    *)
SavedIsReached ==
  ~paused => saveTime <= RealTimeAt(counter) \/ (asleep /\ saveTime = reading)

ReadingsAreReal == RealTimeIsRunTime /\ SavedIsReached
=============================================================================
