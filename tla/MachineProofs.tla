--------------------------- MODULE MachineProofs ----------------------------
(***************************************************************************)
(* The two threads (MainLoop) and the guest's clock (Timing), each alone   *)
(* and both together (Machine).                                            *)
(*                                                                         *)
(* MainLoop: while the main thread works, the emulation thread sleeps, and *)
(* no cold reset loses the 200 Hz poll, as long as the emulation thread is *)
(* never slower than the wait (~Slow).  The invariant says where the other *)
(* thread can be for each place of the main thread: a token on the         *)
(* semaphore and the handler on its way to sleep exist only while the main *)
(* thread waits for them.                                                  *)
(*                                                                         *)
(* Timing: the clock never goes back, shows the time that was run, and is  *)
(* ahead of the host's only in Timing_Sync's sleep, although its counters  *)
(* are words that wrap.                                                    *)
(* The invariant names what the clock shows: the host's counter, or where  *)
(* it was when the pause began, less the origin.  That difference is the   *)
(* time run, no difference of two counters wraps, and neither the last     *)
(* reading nor, out of the sleep, the saved time is ahead of the counter   *)
(* in use; in the sleep the saved time is the last reading.                *)
(*                                                                         *)
(* Machine: the threads read the clock only while it runs.  MainLoop's     *)
(* invariant is joined to Timing's by "paused exactly while the main       *)
(* thread works", which holds until the program ends.                      *)
(***************************************************************************)
EXTENDS MCMachine, TLAPS

Asleep == ~bEmulationActive /\ emu = "parked"

(* No token is left over, and none comes when nobody waits. *)
Handshake ==
  /\ emu = "pausing" => ui = "wait" /\ ~bEmulationActive /\ pauseFlag = 0
  /\ pauseFlag # 0 => ui = "wait" /\ Asleep /\ pauseFlag = 1
  /\ ui = "wait" => ~bEmulationActive

(* Where the main thread changes things, or is about to continue. *)
Working ==
  /\ ui \in {"act", "query", "resume"} => Asleep
  /\ ui = "stop" /\ op # "quit" => Asleep

Quitting ==
  /\ ui \in {"pause", "wait"} => ~bQuitProgram
  /\ bQuitProgram /\ emu # "parked" => ui \in {"stop", "idle", "join", "done"}
  /\ emu = "exited" => bQuitProgram

IInv ==
  /\ pauseFlag \in Nat
  /\ ui \in {"idle", "pause", "wait", "act", "query", "resume", "stop", "join", "done"}
  /\ Handshake /\ Working /\ Quitting
  /\ ParkedWhenPaused
  /\ PollScheduled

(* The emulation thread starts with the emulation active. *)
LEMMA InitOK == Init => IInv
  BY DEF Init, IInv, Handshake, Working, Quitting, Asleep, ParkedWhenPaused, Paused,
         PollScheduled

(* Each step of the emulation thread preserves the invariant. *)
LEMMA EmuOK == IInv /\ Emu => IInv'
<1> SUFFICES ASSUME IInv, Emu PROVE IInv'
  OBVIOUS
<1> USE DEF IInv, Handshake, Working, Quitting, Asleep, ParkedWhenPaused, Paused,
            PollScheduled, UiKeeps, uiVars, shared, EmuLoad
<1>1. CASE EmuStore
  BY <1>1 DEF EmuStore
<1>2. CASE ThreadStart
  BY <1>2 DEF ThreadStart
<1>3. CASE ThreadEnd
  BY <1>3 DEF ThreadEnd
<1>4. CASE Go
  BY <1>4 DEF Go
<1>5. CASE Raise
  BY <1>5 DEF Raise
<1>6. CASE Specialties
  BY <1>6 DEF Specialties
<1>7. CASE MainEventDue
  BY <1>7 DEF MainEventDue
<1>8. CASE Signal
  BY <1>8 DEF Signal
<1>9. CASE Unpark
  BY <1>9 DEF Unpark
<1>10. CASE HandlerEnd
  BY <1>10 DEF HandlerEnd
<1> QED
  BY <1>1, <1>2, <1>3, <1>4, <1>5, <1>6, <1>7, <1>8, <1>9, <1>10 DEF Emu

(* So does each step of the main thread, if the other thread is not slow. *)
LEMMA UiOK == ASSUME ~Slow PROVE IInv /\ (User \/ Ui) => IInv'
<1> SUFFICES ASSUME IInv, User \/ Ui PROVE IInv'
  OBVIOUS
<1> USE DEF IInv, Handshake, Working, Quitting, Asleep, ParkedWhenPaused, Paused,
            PollScheduled, EmuKeeps, shared
<1>1. CASE User
  BY <1>1 DEF User, Ask, Ops
<1>2. CASE UiStore
  BY <1>2 DEF UiStore
<1>3. CASE Pause
  BY <1>3 DEF Pause, AfterPause
<1>4. CASE WaitSignalled
  BY <1>4 DEF WaitSignalled, AfterPause
<1>5. CASE WaitTimeout
  BY <1>5 DEF WaitTimeout, AfterPause
<1>6. CASE ActNothing \/ ActReset \/ ActQuit \/ ActClose
  BY <1>6 DEF ActNothing, ActReset, ActQuit, ActClose
<1>7. CASE Query
  BY <1>7 DEF Query
<1>8. CASE Resume
  BY <1>8 DEF Resume
<1>9. CASE Stop
  BY <1>9 DEF Stop
<1>10. CASE UnInit \/ Join
  BY <1>10 DEF UnInit, Join
<1> QED
  BY <1>1, <1>2, <1>3, <1>4, <1>5, <1>6, <1>7, <1>8, <1>9, <1>10 DEF Ui

(* The invariant holds in every reachable state. *)
THEOREM Invariance == ASSUME ~Slow PROVE Spec => []IInv
<1>1. IInv /\ UNCHANGED vars => IInv'
  BY DEF IInv, Handshake, Working, Quitting, Asleep, ParkedWhenPaused, Paused,
         PollScheduled, vars, shared, emuVars, uiVars
<1>2. IInv /\ [Next]_vars => IInv'
  BY <1>1, EmuOK, UiOK DEF Next
<1> QED
  BY InitOK, <1>2, PTL DEF Spec

(* "Wait until 68k thread is paused" (main.c:117): whenever the main thread *)
(* works on a paused machine, the emulation thread sleeps in its handler.  *)
THEOREM PauseIsSafe == ASSUME ~Slow PROVE Spec => []ParkedWhenPaused
<1>1. IInv => ParkedWhenPaused
  BY DEF IInv
<1> QED
  BY Invariance, <1>1, PTL

(* "Poll events at 200 Hz" (main.c:255): the CPU never runs without the     *)
(* next poll scheduled, whatever resets the machine.                       *)
THEOREM PollIsSafe == ASSUME ~Slow PROVE Spec => []PollScheduled
<1>1. IInv => PollScheduled
  BY DEF IInv
<1> QED
  BY Invariance, <1>1, PTL

-----------------------------------------------------------------------------
(* Whole division by a positive number: monotone, and undoes a product. *)
LEMMA DivOK ==
  ASSUME NEW d \in Nat \ {0}
  PROVE  /\ \A x \in Nat : x \div d \in Nat /\ x \div d <= x
         /\ \A x, y \in Nat : x <= y => x \div d <= y \div d
         /\ \A t \in Nat : t * d \in Nat /\ (t * d) \div d = t
<1>1. \A x \in Nat : x \div d \in Nat
  BY SMTT(30)
<1>2. \A x \in Nat : x \div d <= x
  BY SMTT(30)
<1>3. \A x, y \in Nat : x <= y => x \div d <= y \div d
  BY SMTT(30)
<1>4. \A t \in Nat : t * d \in Nat
  BY SMTT(30)
<1>5. \A t \in Nat : (t * d) \div d = t
  BY SMTT(30)
<1> QED
  BY <1>1, <1>2, <1>3, <1>4, <1>5

(* A product by a number of Nat is monotone. *)
LEMMA TimesOK ==
  ASSUME NEW d \in Nat, NEW s \in Nat, NEW t \in Nat, s <= t
  PROVE  s * d <= t * d
  BY SMTT(30)

(* Spans from a to b and to a later c. *)
LEMMA SpanOK ==
  ASSUME NEW a \in Nat, NEW b \in Nat, NEW m \in Nat, a <= b, b <= m, NEW c \in b .. m
  PROVE  /\ c - a \in 0 .. m /\ c - a \in Nat /\ b - a \in Nat /\ b - a <= c - a
         /\ b - a \in 0 .. m
  OBVIOUS

(* What is left of a word's worth; "%" is used in the next lemmas only.    *)
Rest(a) == a % Word

(* What the remainder is, and what leaves it alone. *)
LEMMA RestOK ==
  /\ Word \in Nat \ {0}
  /\ \A a \in Int : Rest(a) \in 0 .. Word - 1
  /\ \A a \in Int : \E q \in Int : a = q * Word + Rest(a)
  /\ \A q \in Int, r \in 0 .. Word - 1 : Rest(q * Word + r) = r
  /\ \A a, b : Diff(a, b) = Rest(a - b)
<1>1. Word \in Nat \ {0}
  BY TimingAssumption
<1>2. \A a \in Int : a = (a \div Word) * Word + (a % Word)
  BY <1>1, SMTT(30)
<1>3. \A a \in Int : a \div Word \in Int
  BY <1>1, SMTT(30)
<1>4. \A a \in Int : a % Word \in 0 .. Word - 1
  BY <1>1, SMTT(30)
<1>5. \A q \in Int, r \in 0 .. Word - 1 : (q * Word + r) % Word = r
  BY <1>1, SMTT(30)
<1> QED
  BY <1>1, <1>2, <1>3, <1>4, <1>5 DEF Rest, Diff

(* A difference of two counters is a word. *)
LEMMA DiffType == \A x, y \in Int : Diff(x, y) \in 0 .. Word - 1
<1>1. \A x, y \in Int : x - y \in Int
  OBVIOUS
<1> QED
  BY <1>1, RestOK

(* It is the plain difference if that is one. *)
LEMMA WholeOK ==
  ASSUME NEW x \in Int, NEW y \in Int, 0 <= x - y, x - y < Word
  PROVE  Diff(x, y) = x - y
<1>0. 0 \in Int
  OBVIOUS
<1>1. x - y = 0 * Word + (x - y) /\ x - y \in 0 .. Word - 1
  BY RestOK
<1>2. Rest(0 * Word + (x - y)) = x - y
  BY <1>0, <1>1, RestOK, Zenon
<1>3. Diff(x, y) = Rest(x - y)
  BY RestOK, Zenon
<1> QED
  BY <1>1, <1>2, <1>3, Zenon

(* It grows with the counter. *)
LEMMA DiffStep ==
  ASSUME NEW x \in Int, NEW y \in Int, Diff(x, y) + 1 < Word
  PROVE  Diff(x + 1, y) = Diff(x, y) + 1
<1> DEFINE r == Rest(x - y)
<1>1. Word \in Nat \ {0} /\ r \in 0 .. Word - 1 /\ r + 1 < Word /\ Diff(x, y) = r
  BY RestOK
<1>0. x - y \in Int
  OBVIOUS
<1>2. PICK q \in Int : x - y = q * Word + r
  BY <1>0, RestOK, Zenon
<1> HIDE DEF r
<1>3. q * Word \in Int
  BY <1>1
<1>4. (x + 1) - y = q * Word + (r + 1)
  BY <1>1, <1>2, <1>3
<1>5. Rest(q * Word + (r + 1)) = r + 1
  <2>1. r + 1 \in 0 .. Word - 1
    BY <1>1
  <2> QED
    BY <2>1, RestOK
<1> QED
  BY <1>1, <1>4, <1>5, RestOK

(* An origin that is k before the counter gives k back, also below zero. *)
LEMMA DiffBack ==
  ASSUME NEW x \in Int, NEW k \in Nat, k < Word
  PROVE  Diff(x, k) \in 0 .. Word - 1 /\ Diff(x, Diff(x, k)) = k
<1> DEFINE r == Rest(x - k)
<1>1. Word \in Nat \ {0} /\ r \in 0 .. Word - 1 /\ Diff(x, k) = r
  BY RestOK
<1>0. x - k \in Int
  OBVIOUS
<1>2. PICK q \in Int : x - k = q * Word + r
  BY <1>0, RestOK, Zenon
<1> HIDE DEF r
<1>3. q * Word \in Int
  BY <1>1
<1>4. x - r = q * Word + k
  BY <1>1, <1>2, <1>3
<1>5. Rest(q * Word + k) = k
  <2>1. k \in 0 .. Word - 1
    BY <1>1
  <2> QED
    BY <2>1, RestOK
<1> QED
  BY <1>1, <1>4, <1>5, RestOK

(* A difference of two times that are not far apart keeps its sign. *)
LEMMA SignedOK ==
  ASSUME NEW t \in Nat, NEW r \in Nat, 2 * t < Word, 2 * r < Word, Signed(Diff(t, r)) <= 0
  PROVE  t <= r
<1>1. Word \in Nat \ {0}
  BY TimingAssumption
<1>2. CASE t > r
  <2>1. Diff(t, r) = t - r
    BY <1>1, <1>2, WholeOK
  <2>2. Signed(t - r) = t - r
    BY <1>1, <1>2 DEF Signed
  <2> QED
    BY <1>2, <2>1, <2>2
<1> QED
  BY <1>2

(* Microseconds of the host's ticks, and of cycles; what they bound. *)
Micro(x) == x \div perfDivisor
FromCycles(x) == x \div nCpuFreq
Cycles == Diff(nCyclesMainCounter, cycleCounterStart)
Top == MaxCounter * nCpuFreq

(* The units are monotone, and a time bounded by the host's counter stays so. *)
LEMMA UnitsOK ==
  /\ \A x \in Nat : Micro(x) \in Nat /\ Micro(x) <= x /\ FromCycles(x) \in Nat /\ FromCycles(x) <= x
  /\ \A x, y \in Nat : x <= y => Micro(x) <= Micro(y) /\ FromCycles(x) <= FromCycles(y)
  /\ Top \in Nat /\ MaxCounter \in Nat /\ MaxCounter <= Top /\ 2 * (MaxCycles + Top) < Word
  /\ MaxCycles \in Nat /\ Word \in Nat
  /\ \A t \in 0 .. MaxCounter :
       t * nCpuFreq \in 0 .. Top /\ FromCycles(t * nCpuFreq) = t
<1>1. /\ nCpuFreq \in Nat \ {0} /\ perfDivisor \in Nat \ {0} /\ MaxCounter \in Nat
      /\ MaxCycles \in Nat /\ Word \in Nat /\ 2 * (MaxCycles + Top) < Word
  BY TimingAssumption DEF Top
<1>2. /\ \A x \in Nat : Micro(x) \in Nat /\ Micro(x) <= x /\ FromCycles(x) \in Nat /\ FromCycles(x) <= x
      /\ \A x, y \in Nat : x <= y => Micro(x) <= Micro(y) /\ FromCycles(x) <= FromCycles(y)
  BY <1>1, DivOK DEF Micro, FromCycles
<1>3. \A t \in Nat : t * nCpuFreq \in Nat /\ FromCycles(t * nCpuFreq) = t
  BY <1>1, DivOK, Zenon DEF FromCycles
<1>4. ASSUME NEW t \in 0 .. MaxCounter PROVE t * nCpuFreq <= Top
  BY <1>1, TimesOK DEF Top
<1>5. Top \in Nat
  BY <1>1, <1>3 DEF Top
<1>6. MaxCounter <= Top
  <2>1. FromCycles(Top) = MaxCounter
    BY <1>1, <1>3 DEF Top
  <2> QED
    BY <1>2, <1>5, <2>1
<1>7. ASSUME NEW t \in 0 .. MaxCounter
      PROVE  t * nCpuFreq \in 0 .. Top /\ FromCycles(t * nCpuFreq) = t
  <2>1. t \in Nat
    BY <1>1
  <2>2. t * nCpuFreq \in Nat /\ FromCycles(t * nCpuFreq) = t
    BY <1>3, <2>1, Zenon
  <2>3. t * nCpuFreq <= Top
    BY <1>4
  <2> DEFINE k == t * nCpuFreq
  <2>4. k \in Nat /\ FromCycles(k) = t /\ k <= Top
    BY <2>2, <2>3
  <2> HIDE DEF k
  <2>5. k \in 0 .. Top /\ FromCycles(k) = t
    BY <1>5, <2>4
  <2> QED
    BY <2>5 DEF k
<1> QED
  BY <1>1, <1>2, <1>5, <1>6, <1>7

-----------------------------------------------------------------------------
(* The clock.                                                              *)

(* The guest's time as it is shown with the host's counter at "shown": the *)
(* counter itself, or where it was when the pause began.  No difference    *)
(* wraps, what was read last is not ahead, and what was saved only in the  *)
(* sleep, as the last reading.                                             *)
Shows(shown) ==
  /\ counter \in 0 .. MaxCounter /\ shown \in Nat /\ perfCounterStart \in Nat
  /\ perfCounterStart <= shown /\ shown <= counter
  /\ nCyclesMainCounter \in 0 .. MaxCycles /\ cycleCounterStart \in 0 .. Word - 1
  /\ Cycles <= Top + nCyclesMainCounter
  /\ currentIsRealtime \in BOOLEAN
  /\ asleep \in BOOLEAN /\ saveTime \in Nat /\ saveTime <= reading
  /\ IF asleep THEN saveTime = reading ELSE saveTime <= Micro(shown - perfCounterStart)
  /\ reading \in Nat
  /\ reading <= IF currentIsRealtime THEN Micro(shown - perfCounterStart) ELSE FromCycles(Cycles)

(* The time shown is the time that was run. *)
Counts(shown) == ran = shown - perfCounterStart

(* The host's clock at the counter c or later. *)
LEMMA RealTimeOK ==
  ASSUME NEW shown, Shows(shown), NEW c \in counter .. MaxCounter
  PROVE  RealTimeAt(c) = Micro(c - perfCounterStart)
<1>1. c - perfCounterStart \in 0 .. MaxCounter /\ MaxCounter < Word /\ c \in Int /\ perfCounterStart \in Int
  BY UnitsOK DEF Shows
<1>2. Diff(c, perfCounterStart) = c - perfCounterStart
  BY <1>1, UnitsOK, WholeOK
<1> QED
  BY <1>2 DEF RealTimeAt, Micro

(* What TimeNeverGoesBack asks of a step that is not a reset. *)
GoesOn == reading' >= reading /\ saveTime' >= saveTime

(* Reading the clock never shows less than before and keeps up with the    *)
(* other counter when it changes over.                                     *)
LEMMA ReadOK ==
  ASSUME Shows(counter), ~asleep, ReadTime, TimeKeeps,
         UNCHANGED saved \/ (saveTime' = reading' /\ asleep' = TRUE)
  PROVE  Shows(counter)' /\ GoesOn /\ (Counts(counter) => Counts(counter)')
<1> DEFINE t == HostTime
           p == perfCounterStart
<1>0. MaxCounter \in Nat /\ Word \in Nat /\ MaxCycles \in Nat /\ Top \in Nat
  BY UnitsOK
<1>1. /\ counter \in 0 .. MaxCounter /\ p \in Nat /\ p <= counter
      /\ nCyclesMainCounter \in 0 .. MaxCycles /\ cycleCounterStart \in 0 .. Word - 1
      /\ Cycles \in 0 .. Word - 1 /\ Cycles <= Top + nCyclesMainCounter
      /\ currentIsRealtime \in BOOLEAN /\ saveTime \in Nat /\ saveTime <= Micro(counter - p)
      /\ saveTime <= reading /\ reading \in Nat
      /\ reading <= IF currentIsRealtime THEN Micro(counter - p) ELSE FromCycles(Cycles)
  BY UnitsOK, DiffType DEF Shows, Cycles
<1>11. counter \in Nat /\ counter <= MaxCounter /\ p \in Nat /\ p <= counter
  BY <1>0, <1>1
<1>2. t = IF currentIsRealtime THEN Micro(counter - p) ELSE FromCycles(Cycles)
  <2>1. counter \in counter .. MaxCounter
    BY <1>1, UnitsOK
  <2>2. RealTimeAt(counter) = Micro(counter - p)
    BY <2>1, RealTimeOK
  <2> QED
    BY <2>2, Zenon DEF HostTime, Cycles, FromCycles
<1>3. /\ reading' = t /\ currentIsRealtime' = Realtime
      /\ cycleCounterStart' = IF currentIsRealtime /\ ~Realtime
                              THEN CycleOrigin(t) ELSE cycleCounterStart
      /\ counter' \in IF Realtime /\ ~currentIsRealtime THEN Waited(t) ELSE {counter}
      /\ ran' = ran + counter' - counter
      /\ UNCHANGED <<nCyclesMainCounter, perfCounterStart>>
  BY DEF ReadTime, TimeKeeps
<1> HIDE DEF t
<1>4. t \in Nat /\ 2 * t < Word /\ reading <= t /\ (currentIsRealtime => t \in 0 .. MaxCounter)
  <2>1. counter - p \in 0 .. MaxCounter /\ Cycles \in Nat
    BY <1>0, <1>1
  <2>2. Micro(counter - p) \in Nat /\ Micro(counter - p) <= MaxCounter
    BY <2>1, UnitsOK
  <2>3. FromCycles(Cycles) \in Nat /\ FromCycles(Cycles) <= Cycles
    BY <2>1, UnitsOK
  <2>4. FromCycles(Cycles) <= Top + MaxCycles
    BY <1>1, <2>1, <2>3, UnitsOK
  <2> HIDE DEF p
  <2>5. CASE currentIsRealtime
    BY <1>1, <1>2, <2>2, <2>5, UnitsOK
  <2>6. CASE ~currentIsRealtime
    BY <1>1, <1>2, <2>3, <2>4, <2>6, UnitsOK
  <2> QED
    BY <1>1, <2>5, <2>6
<1>5. /\ counter' \in counter .. MaxCounter
      /\ Realtime /\ ~currentIsRealtime => t <= Micro(counter' - p)
  <2>1. ASSUME counter' \in Waited(t)
        PROVE  counter' \in counter .. MaxCounter /\ t <= Micro(counter' - p)
    <3>1. counter' \in counter .. MaxCounter /\ Signed(Diff(t, RealTimeAt(counter'))) <= 0
      BY <2>1 DEF Waited
    <3>2. RealTimeAt(counter') = Micro(counter' - p)
      BY <3>1, RealTimeOK
    <3>3. counter' - p \in 0 .. MaxCounter
      BY <1>0, <1>11, <3>1, SpanOK
    <3>4. Micro(counter' - p) \in Nat /\ Micro(counter' - p) <= MaxCounter
      BY <3>3, UnitsOK
    <3> QED
      BY <1>4, <3>1, <3>2, <3>4, SignedOK, UnitsOK
  <2>2. ASSUME counter' = counter PROVE counter' \in counter .. MaxCounter
    BY <1>1, <2>2, UnitsOK
  <2> QED
    BY <1>3, <2>1, <2>2
<1>6. Micro(counter - p) <= Micro(counter' - p) /\ Micro(counter' - p) \in Nat
  <2>1. counter - p \in Nat /\ counter' - p \in Nat /\ counter - p <= counter' - p
    BY <1>0, <1>5, <1>11, SpanOK
  <2> QED
    BY <2>1, UnitsOK
<1>7. /\ asleep' \in BOOLEAN /\ saveTime' \in Nat /\ saveTime' <= reading' /\ GoesOn
      /\ IF asleep' THEN saveTime' = reading' ELSE saveTime' <= Micro(counter' - p)
  <2>1. counter - p \in Nat /\ Micro(counter - p) \in Nat
    BY <1>0, <1>1, UnitsOK
  <2>2. CASE UNCHANGED saved
    <3>1. saveTime' = saveTime /\ ~asleep' /\ asleep' \in BOOLEAN
      BY <2>2, Zenon DEF saved, Shows
    <3>2. saveTime' <= Micro(counter' - p)
      BY <1>1, <1>6, <2>1, <3>1
    <3> QED
      BY <1>1, <1>3, <1>4, <3>1, <3>2 DEF GoesOn
  <2>3. CASE saveTime' = reading' /\ asleep' = TRUE
    BY <1>1, <1>3, <1>4, <2>3 DEF GoesOn
  <2> QED
    BY <2>2, <2>3
<1>8. /\ cycleCounterStart' \in 0 .. Word - 1 /\ Cycles' <= Top + nCyclesMainCounter
      /\ reading' <= IF currentIsRealtime' THEN Micro(counter' - p) ELSE FromCycles(Cycles')
  <2>1. CASE currentIsRealtime /\ ~Realtime
    <3> DEFINE k == t * nCpuFreq
    <3>1. k \in 0 .. Top /\ FromCycles(k) = t
      BY <1>4, <2>1, UnitsOK
    <3>2. cycleCounterStart' = Diff(nCyclesMainCounter, k)
      BY <1>3, <2>1 DEF CycleOrigin
    <3> HIDE DEF k
    <3>3. k \in Nat /\ k < Word /\ nCyclesMainCounter \in Int
      BY <1>1, <3>1, UnitsOK
    <3>4. cycleCounterStart' \in 0 .. Word - 1 /\ Diff(nCyclesMainCounter, cycleCounterStart') = k
      BY <3>2, <3>3, DiffBack
    <3>5. Cycles' = k
      BY <1>3, <3>4 DEF Cycles
    <3>6. k <= Top + nCyclesMainCounter
      BY <1>1, <3>1, UnitsOK
    <3> QED
      BY <1>3, <1>4, <2>1, <3>1, <3>4, <3>5, <3>6
  <2>2. CASE ~(currentIsRealtime /\ ~Realtime)
    <3>1. cycleCounterStart' = cycleCounterStart
      BY <1>3, <2>2
    <3>2. Cycles' = Cycles
      BY <1>3, <3>1 DEF Cycles
    <3>3. CASE Realtime /\ currentIsRealtime
      BY <1>1, <1>2, <1>3, <1>4, <1>6, <3>1, <3>2, <3>3
    <3>4. CASE Realtime /\ ~currentIsRealtime
      BY <1>1, <1>3, <1>5, <3>1, <3>2, <3>4
    <3>5. CASE ~Realtime /\ ~currentIsRealtime
      BY <1>1, <1>2, <1>3, <1>4, <3>1, <3>2, <3>5
    <3> QED
      BY <2>2, <3>3, <3>4, <3>5
  <2> QED
    BY <2>1, <2>2
<1>9. currentIsRealtime' \in BOOLEAN
  BY <1>3 DEF Realtime
<1>10. Counts(counter) => Counts(counter)'
  BY <1>1, <1>3, <1>5, UnitsOK DEF Counts
<1> QED
  BY <1>1, <1>3, <1>4, <1>5, <1>7, <1>8, <1>9, <1>10, UnitsOK DEF Shows

(* An instruction adds a cycle to the time shown, and nothing else moves it. *)
LEMMA CpuOK ==
  ASSUME Cpu
  PROVE  /\ Shows(counter) => Shows(counter)'
         /\ Shows(pauseTimeStamp) => Shows(pauseTimeStamp)'
         /\ UNCHANGED <<reading, saveTime, ran, counter, perfCounterStart, pauseTimeStamp>>
         /\ paused' = paused
<1> DEFINE n == nCyclesMainCounter
           Run == /\ n \in 0 .. MaxCycles /\ cycleCounterStart \in 0 .. Word - 1
                  /\ Cycles <= Top + n
                  /\ reading \in Nat
                  /\ ~currentIsRealtime => reading <= FromCycles(Cycles)
<1>1. /\ UNCHANGED <<counter, perfCounterStart, pauseTimeStamp, cycleCounterStart, saveTime, reading, ran>>
      /\ n' = n \/ (n < MaxCycles /\ n' = n + 1)
  BY DEF Cpu, origins, saved
<1>2. currentIsRealtime' = currentIsRealtime /\ paused' = paused /\ asleep' = asleep
  BY Zenon DEF Cpu, saved
<1>3. MaxCounter \in Nat /\ Word \in Nat /\ MaxCycles \in Nat /\ Top \in Nat
      /\ 2 * (MaxCycles + Top) < Word
  BY UnitsOK
<1>4. ASSUME Run PROVE Run'
  <2>1. Cycles \in 0 .. Word - 1
    BY <1>3, <1>4, DiffType DEF Cycles
  <2>2. CASE n' = n
    <3>1. Cycles' = Cycles
      BY <1>1, <2>2 DEF Cycles
    <3> QED
      BY <1>1, <1>2, <1>4, <2>2, <3>1
  <2>3. CASE n < MaxCycles /\ n' = n + 1
    <3>1. Cycles + 1 < Word
      BY <1>3, <1>4, <2>1, <2>3
    <3>2. n \in Int /\ cycleCounterStart \in Int
      BY <1>3, <1>4
    <3>3. Cycles' = Cycles + 1
      BY <1>1, <2>3, <3>1, <3>2, DiffStep DEF Cycles
    <3>4. FromCycles(Cycles) <= FromCycles(Cycles') /\ FromCycles(Cycles') \in Nat
          /\ FromCycles(Cycles) \in Nat
      <4>1. Cycles \in Nat /\ Cycles' \in Nat /\ Cycles <= Cycles'
        BY <1>3, <2>1, <3>3
      <4> QED
        BY <4>1, UnitsOK
    <3>5. n' \in 0 .. MaxCycles /\ Cycles' <= Top + n'
      BY <1>3, <1>4, <2>1, <2>3, <3>3
    <3>6. ~currentIsRealtime' => reading' <= FromCycles(Cycles')
      BY <1>1, <1>2, <1>4, <3>4
    <3> QED
      BY <1>1, <1>4, <3>5, <3>6
  <2> QED
    BY <1>1, <2>2, <2>3
<1>5. ASSUME Shows(counter) PROVE Shows(counter)'
  <2>1. Run'
    BY <1>4, <1>5 DEF Shows
  <2> QED
    BY <1>1, <1>2, <1>5, <2>1 DEF Shows
<1>6. ASSUME Shows(pauseTimeStamp) PROVE Shows(pauseTimeStamp)'
  <2>1. Run'
    BY <1>4, <1>6 DEF Shows
  <2> QED
    BY <1>1, <1>2, <1>6, <2>1 DEF Shows
<1> QED
  BY <1>1, <1>2, <1>5, <1>6

(* Time that goes by on the host is shown later, or not at all. *)
LEMMA TickOK ==
  ASSUME Tick
  PROVE  /\ Shows(counter) => Shows(counter)'
         /\ Shows(pauseTimeStamp) => Shows(pauseTimeStamp)'
         /\ Shows(counter) /\ Counts(counter) /\ ~paused => Counts(counter)'
         /\ Counts(pauseTimeStamp) /\ paused => Counts(pauseTimeStamp)'
         /\ UNCHANGED <<reading, saveTime>> /\ paused' = paused /\ asleep' = asleep
<1>1. /\ counter < MaxCounter /\ counter' = counter + 1
      /\ ran' = IF paused THEN ran ELSE ran + 1
      /\ UNCHANGED <<nCyclesMainCounter, perfCounterStart, pauseTimeStamp, cycleCounterStart,
                     saveTime, reading>>
  BY DEF Tick, origins, saved
<1>2. currentIsRealtime' = currentIsRealtime /\ paused' = paused /\ asleep' = asleep
  BY Zenon DEF Tick, modes, saved
<1>3. MaxCounter \in Nat
  BY UnitsOK
<1>4. Cycles' = Cycles
  BY <1>1 DEF Cycles
<1>5. ASSUME Shows(counter) PROVE Shows(counter)' /\ (Counts(counter) /\ ~paused => Counts(counter)')
  <2> DEFINE a == Micro(counter - perfCounterStart)
             b == Micro(counter' - perfCounterStart)
  <2>1. /\ counter \in Nat /\ perfCounterStart \in Nat /\ perfCounterStart <= counter
        /\ counter <= MaxCounter /\ counter' \in 0 .. MaxCounter /\ counter <= counter' /\ counter' \in counter .. MaxCounter
    BY <1>1, <1>3, <1>5 DEF Shows
  <2>2. counter - perfCounterStart \in Nat /\ counter' - perfCounterStart \in Nat
        /\ counter - perfCounterStart <= counter' - perfCounterStart
    BY <1>3, <2>1, SpanOK
  <2>3. a \in Nat /\ b \in Nat /\ a <= b
    BY <2>2, UnitsOK
  <2>4. saveTime \in Nat /\ IF asleep THEN saveTime = reading ELSE saveTime <= a
    BY <1>5 DEF Shows
  <2>11. reading \in Nat /\ reading <= IF currentIsRealtime THEN a ELSE FromCycles(Cycles)
    BY <1>5 DEF Shows
  <2> HIDE DEF a, b
  <2>5. IF asleep THEN saveTime = reading ELSE saveTime <= b
    BY <2>3, <2>4
  <2>6. reading <= IF currentIsRealtime THEN b ELSE FromCycles(Cycles)
    BY <2>3, <2>11
  <2>7. Counts(counter) /\ ~paused => Counts(counter)'
    BY <1>1, <2>1 DEF Counts
  <2>8. counter' \in Nat /\ perfCounterStart <= counter' /\ counter' <= counter'
    BY <2>1
  <2>9. b = Micro(counter' - perfCounterStart')
    BY <1>1 DEF b
  <2>10. Shows(counter)'
    BY <1>1, <1>2, <1>4, <1>5, <2>1, <2>4, <2>5, <2>6, <2>8, <2>9 DEF Shows
  <2> QED
    BY <2>7, <2>10
<1>6. ASSUME Shows(pauseTimeStamp) PROVE Shows(pauseTimeStamp)'
  <2>1. counter' \in 0 .. MaxCounter /\ pauseTimeStamp <= counter'
    BY <1>1, <1>3, <1>6 DEF Shows
  <2> QED
    BY <1>1, <1>2, <1>4, <1>6, <2>1 DEF Shows
<1>7. Counts(pauseTimeStamp) /\ paused => Counts(pauseTimeStamp)'
  BY <1>1 DEF Counts
<1> QED
  BY <1>1, <1>2, <1>5, <1>6, <1>7

(* A pause fixes the time shown. *)
LEMMA PauseOK ==
  ASSUME Timing_Pause, Shows(counter)
  PROVE  /\ Shows(pauseTimeStamp)' /\ (Counts(counter) => Counts(pauseTimeStamp)')
         /\ UNCHANGED <<reading, saveTime>> /\ paused' = TRUE /\ asleep' = asleep
<1>1. /\ pauseTimeStamp' = counter
      /\ UNCHANGED <<counter, nCyclesMainCounter, perfCounterStart, cycleCounterStart,
                     saveTime, reading, ran>>
  BY DEF Timing_Pause, saved
<1>2. currentIsRealtime' = currentIsRealtime /\ paused' = TRUE /\ asleep' = asleep
  BY Zenon DEF Timing_Pause, modes, saved
<1>3. Cycles' = Cycles
  BY <1>1 DEF Cycles
<1> QED
  BY <1>1, <1>2, <1>3 DEF Shows, Counts

(* Its end moves the origin on by as much. *)
LEMMA UnPauseOK ==
  ASSUME Timing_UnPause, Shows(pauseTimeStamp)
  PROVE  /\ Shows(counter)' /\ (Counts(pauseTimeStamp) => Counts(counter)')
         /\ UNCHANGED <<reading, saveTime>> /\ paused' = FALSE
<1> DEFINE d == counter - pauseTimeStamp
           q == perfCounterStart
<1>1. /\ perfCounterStart' = (perfCounterStart + Diff(counter, pauseTimeStamp)) % Word
      /\ UNCHANGED <<counter, nCyclesMainCounter, cycleCounterStart, saveTime, reading, ran>>
  BY DEF Timing_UnPause, saved
<1>2. currentIsRealtime' = currentIsRealtime /\ paused' = FALSE /\ asleep' = asleep
  BY Zenon DEF Timing_UnPause, modes, saved
<1>3. Cycles' = Cycles
  BY <1>1 DEF Cycles
<1>4. /\ MaxCounter \in Nat /\ MaxCounter < Word /\ Word \in Nat
      /\ counter \in 0 .. MaxCounter /\ pauseTimeStamp \in Nat /\ q \in Nat
      /\ q <= pauseTimeStamp /\ pauseTimeStamp <= counter
  BY UnitsOK DEF Shows
<1>5. d \in 0 .. MaxCounter /\ q + d \in 0 .. MaxCounter
      /\ counter - (q + d) = pauseTimeStamp - q /\ q + d <= counter
  BY <1>4
<1>6. Diff(counter, pauseTimeStamp) = d
  BY <1>4, <1>5, WholeOK
<1>7. (q + d) % Word = q + d
  <2>1. Diff(q + d, 0) = q + d
    BY <1>4, <1>5, WholeOK
  <2>2. (q + d) - 0 = q + d
    BY <1>4, <1>5
  <2> QED
    BY <2>1, <2>2, Zenon DEF Diff
<1>8. perfCounterStart' = q + d
  BY <1>1, <1>6, <1>7
<1>9. counter' - perfCounterStart' = pauseTimeStamp - q /\ perfCounterStart' <= counter'
      /\ perfCounterStart' \in Nat /\ counter' \in Nat
  BY <1>1, <1>4, <1>5, <1>8
<1>10. (Shows(counter))'
  BY <1>1, <1>2, <1>3, <1>4, <1>9 DEF Shows
<1>11. Counts(pauseTimeStamp) => Counts(counter)'
  BY <1>1, <1>9 DEF Counts
<1> QED
  BY <1>1, <1>2, <1>10, <1>11

At(shown) == Shows(shown) /\ Counts(shown)

(* A reset starts the time anew, also the time at which the pause began.    *)
LEMMA ResetOK ==
  ASSUME Timing_Reset, counter \in 0 .. MaxCounter, asleep \in BOOLEAN
  PROVE  At(counter)' /\ At(pauseTimeStamp)' /\ paused /\ paused' /\ asleep' = asleep
<1>1. /\ perfCounterStart' = counter /\ pauseTimeStamp' = counter /\ counter' = counter
      /\ cycleCounterStart' = 0 /\ nCyclesMainCounter' = 0 /\ saveTime' = 0
      /\ reading' = 0 /\ ran' = 0
  BY DEF Timing_Reset
<1>2. currentIsRealtime' \in BOOLEAN /\ asleep' \in BOOLEAN
  BY DEF Timing_Reset
<1>3. paused /\ paused' /\ asleep' = asleep
  BY Zenon DEF Timing_Reset
<1>4. /\ MaxCounter \in Nat /\ MaxCycles \in Nat /\ Word \in Nat \ {0} /\ Top \in Nat
      /\ counter \in Nat
  BY UnitsOK, TimingAssumption
<1>5. counter - counter = 0 /\ 0 \in Nat /\ 0 - 0 = 0
  BY <1>4
<1>6. Micro(0) \in Nat /\ FromCycles(0) \in Nat
  BY <1>5, UnitsOK, Zenon
<1>7. Cycles' = 0
  <2>1. Diff(0, 0) = 0
    BY <1>4, WholeOK
  <2> QED
    BY <1>1, <2>1 DEF Cycles
<1>8. Shows(counter)' /\ Shows(pauseTimeStamp)'
  BY <1>1, <1>2, <1>4, <1>5, <1>6, <1>7 DEF Shows
<1>9. Counts(counter)' /\ Counts(pauseTimeStamp)'
  BY <1>1, <1>5 DEF Counts
<1> QED
  BY <1>3, <1>8, <1>9 DEF At

(* What the clock shows at first is nothing. *)
LEMMA ReadyOK == TimingReady => At(counter) /\ At(pauseTimeStamp)
<1> SUFFICES ASSUME TimingReady PROVE At(counter) /\ At(pauseTimeStamp)
  OBVIOUS
<1>1. /\ counter \in {0, 1} /\ perfCounterStart = counter /\ pauseTimeStamp = counter
      /\ cycleCounterStart = 0 /\ nCyclesMainCounter = 0 /\ saveTime = 0
      /\ reading = 0 /\ ran = 0 /\ currentIsRealtime \in BOOLEAN /\ asleep \in BOOLEAN
  BY DEF TimingReady
<1>2. /\ MaxCounter \in Nat \ {0} /\ MaxCycles \in Nat /\ Word \in Nat \ {0} /\ Top \in Nat
  BY UnitsOK, TimingAssumption
<1>3. counter \in Nat /\ counter - counter = 0 /\ 0 \in Nat /\ 0 - 0 = 0 /\ counter \in 0 .. MaxCounter
  BY <1>1, <1>2
<1>4. Micro(0) \in Nat /\ FromCycles(0) \in Nat
  BY <1>3, UnitsOK, Zenon
<1>5. Cycles = 0
  <2>1. Diff(0, 0) = 0
    BY <1>2, WholeOK
  <2> QED
    BY <1>1, <2>1 DEF Cycles
<1>6. Shows(counter) /\ Shows(pauseTimeStamp)
  BY <1>1, <1>2, <1>3, <1>4, <1>5 DEF Shows
<1>7. Counts(counter) /\ Counts(pauseTimeStamp)
  BY <1>1, <1>3 DEF Counts
<1> QED
  BY <1>6, <1>7 DEF At

(* The two ways to read the clock. *)
LEMMA ReadsOK ==
  ASSUME Shows(counter), ~asleep, Timing_GetTime \/ Timing_Sync
  PROVE  /\ Shows(counter)' /\ (Counts(counter) => Counts(counter)')
         /\ GoesOn /\ paused' = paused
<1>1. paused' = paused
  BY Zenon DEF Timing_GetTime, Timing_Sync, TimeKeeps
<1>2. CASE Timing_GetTime
  <2>1. ReadTime /\ TimeKeeps /\ UNCHANGED saved
    BY <1>2, Zenon DEF Timing_GetTime
  <2> QED
    BY <1>1, <2>1, ReadOK
<1>3. CASE Timing_Sync
  <2>1. ReadTime /\ TimeKeeps /\ saveTime' = reading' /\ asleep' = TRUE
    BY <1>3, Zenon DEF Timing_Sync
  <2> QED
    BY <1>1, <2>1, ReadOK
<1> QED
  BY <1>2, <1>3

(* When the sleep is over, the saved time has passed. *)
LEMMA AwakeOK ==
  ASSUME Timing_Awake
  PROVE  /\ Shows(counter) => Shows(counter)'
         /\ Counts(counter) => Counts(counter)'
         /\ UNCHANGED <<reading, saveTime>> /\ paused' = paused
<1>1. /\ UNCHANGED <<counter, nCyclesMainCounter, perfCounterStart, cycleCounterStart,
                     pauseTimeStamp, saveTime, reading, ran>>
      /\ counter \in counter .. MaxCounter /\ Signed(Diff(saveTime, RealTimeAt(counter))) <= 0
  BY DEF Timing_Awake, origins, Waited
<1>2. currentIsRealtime' = currentIsRealtime /\ paused' = paused /\ ~asleep' /\ asleep' \in BOOLEAN
  BY Zenon DEF Timing_Awake, modes
<1>3. Cycles' = Cycles
  BY <1>1 DEF Cycles
<1>4. ASSUME Shows(counter) PROVE Shows(counter)'
  <2> DEFINE a == Micro(counter - perfCounterStart)
  <2>1. RealTimeAt(counter) = a
    BY <1>1, <1>4, RealTimeOK
  <2>7. /\ MaxCounter <= Top /\ Top \in Nat /\ MaxCycles \in Nat /\ 2 * (MaxCycles + Top) < Word
        /\ Word \in Nat /\ MaxCounter \in Nat
    BY UnitsOK
  <2>8. /\ counter \in 0 .. MaxCounter /\ perfCounterStart \in Nat /\ perfCounterStart <= counter
        /\ nCyclesMainCounter \in 0 .. MaxCycles /\ cycleCounterStart \in 0 .. Word - 1
        /\ Cycles <= Top + nCyclesMainCounter
    BY <1>4 DEF Shows
  <2>9. Cycles \in 0 .. Word - 1
    BY <2>7, <2>8, DiffType DEF Cycles
  <2>2. /\ counter - perfCounterStart \in 0 .. MaxCounter /\ counter - perfCounterStart \in Nat
        /\ Cycles \in Nat /\ Cycles <= Top + MaxCycles
    BY <2>7, <2>8, <2>9
  <2>3. /\ a \in Nat /\ a <= counter - perfCounterStart
        /\ FromCycles(Cycles) \in Nat /\ FromCycles(Cycles) <= Cycles
    BY <2>2, UnitsOK
  <2>4. /\ saveTime \in Nat /\ saveTime <= reading /\ reading \in Nat
        /\ reading <= IF currentIsRealtime THEN a ELSE FromCycles(Cycles)
    BY <1>4 DEF Shows
  <2> HIDE DEF a
  <2>5. 2 * saveTime < Word /\ 2 * a < Word
    BY <2>2, <2>3, <2>4, <2>7
  <2>6. saveTime <= a
    BY <1>1, <2>1, <2>3, <2>4, <2>5, SignedOK
  <2> QED
    BY <1>1, <1>2, <1>3, <1>4, <2>6 DEF Shows, a
<1>5. Counts(counter) => Counts(counter)'
  BY <1>1 DEF Counts
<1> QED
  BY <1>1, <1>2, <1>4, <1>5

(* Nothing happens to a clock whose variables stay as they are. *)
LEMMA KeepOK ==
  ASSUME UNCHANGED timingVars
  PROVE  /\ Shows(counter) => Shows(counter)'
         /\ Shows(pauseTimeStamp) => Shows(pauseTimeStamp)'
         /\ Counts(counter) => Counts(counter)'
         /\ Counts(pauseTimeStamp) => Counts(pauseTimeStamp)'
         /\ UNCHANGED <<reading, saveTime>> /\ paused' = paused /\ asleep' = asleep
<1>1. /\ UNCHANGED <<counter, nCyclesMainCounter, perfCounterStart, cycleCounterStart,
                     pauseTimeStamp, saveTime, reading, ran>>
  BY DEF timingVars, origins, saved
<1>2. currentIsRealtime' = currentIsRealtime /\ paused' = paused /\ asleep' = asleep
  BY Zenon DEF timingVars, modes, saved
<1>3. Cycles' = Cycles
  BY <1>1 DEF Cycles
<1> QED
  BY <1>1, <1>2, <1>3 DEF Shows, Counts

(* What it asks of any step. *)
Onward == GoesOn \/ Timing_Reset

(* A reading that stays is a number. *)
LEMMA StayOK == \A s : Shows(s) /\ UNCHANGED <<reading, saveTime>> => GoesOn
  BY DEF Shows, GoesOn

-----------------------------------------------------------------------------
(* The clock alone, which is paused at any moment.                         *)

ClockInv == IF paused THEN At(pauseTimeStamp) /\ ~asleep ELSE At(counter)

(* Each step of the clock preserves the invariant and goes on. *)
LEMMA ClockStep == ClockInv /\ [TimingNext]_timingVars => ClockInv' /\ [Onward]_timingVars
<1> SUFFICES ASSUME ClockInv, [TimingNext]_timingVars
             PROVE  ClockInv' /\ (Onward \/ UNCHANGED timingVars)
  BY Zenon
<1>1. CASE ~paused /\ ~asleep /\ (Timing_GetTime \/ Timing_Sync)
  <2>1. At(counter)' /\ paused' = paused /\ GoesOn
    BY <1>1, ReadsOK, Zenon DEF ClockInv, At
  <2>2. ~paused'
    BY <1>1, <2>1, Zenon
  <2> QED
    BY <2>1, <2>2, Zenon DEF ClockInv, Onward
<1>2. CASE ~paused /\ ~asleep /\ Cpu
  <2>1. Shows(counter)' /\ paused' = paused /\ UNCHANGED <<reading, saveTime>>
    BY <1>2, CpuOK, Zenon DEF ClockInv, At
  <2>2. Counts(counter)'
    BY <1>2, CpuOK DEF ClockInv, At, Counts
  <2>3. GoesOn
    BY <1>2, <2>1, StayOK, Zenon DEF ClockInv, At
  <2> QED
    BY <1>2, <2>1, <2>2, <2>3, Zenon DEF ClockInv, At, Onward
<1>3. CASE ~asleep /\ Timing_Pause
  <2>1. ~paused /\ ~asleep
    BY <1>3, Zenon DEF Timing_Pause
  <2>2. /\ At(pauseTimeStamp)' /\ paused' = TRUE
        /\ UNCHANGED <<reading, saveTime>> /\ asleep' = asleep
    BY <1>3, <2>1, PauseOK, Zenon DEF ClockInv, At
  <2>3. GoesOn
    BY <2>1, <2>2, StayOK, Zenon DEF ClockInv, At
  <2>4. ~asleep'
    BY <2>1, <2>2, Zenon
  <2> QED
    BY <2>2, <2>3, <2>4, Zenon DEF ClockInv, Onward
<1>4. CASE Timing_UnPause
  <2>1. paused
    BY <1>4, Zenon DEF Timing_UnPause
  <2>2. At(counter)' /\ paused' = FALSE /\ UNCHANGED <<reading, saveTime>>
    BY <1>4, <2>1, UnPauseOK, Zenon DEF ClockInv, At
  <2>3. GoesOn
    BY <2>1, <2>2, StayOK, Zenon DEF ClockInv, At
  <2> QED
    BY <2>2, <2>3, Zenon DEF ClockInv, Onward
<1>5. CASE Timing_Reset
  <2>1. counter \in 0 .. MaxCounter /\ asleep \in BOOLEAN
    BY Zenon DEF ClockInv, At, Shows
  <2>2. At(counter)' /\ At(pauseTimeStamp)' /\ paused /\ asleep' = asleep
    BY <1>5, <2>1, ResetOK, Zenon
  <2>3. ~asleep'
    BY <2>2, Zenon DEF ClockInv
  <2> QED
    BY <1>5, <2>2, <2>3, Zenon DEF ClockInv, Onward
<1>6. CASE Tick
  <2>1. CASE paused
    <3>1. /\ At(pauseTimeStamp)' /\ paused' = paused
          /\ UNCHANGED <<reading, saveTime>> /\ asleep' = asleep
      BY <1>6, <2>1, TickOK, Zenon DEF ClockInv, At
    <3>2. GoesOn
      BY <2>1, <3>1, StayOK, Zenon DEF ClockInv, At
    <3>3. paused' /\ ~asleep'
      BY <2>1, <3>1, Zenon DEF ClockInv
    <3> QED
      BY <3>1, <3>2, <3>3, Zenon DEF ClockInv, Onward
  <2>2. CASE ~paused
    <3>1. At(counter)' /\ paused' = paused /\ UNCHANGED <<reading, saveTime>>
      BY <1>6, <2>2, TickOK, Zenon DEF ClockInv, At
    <3>2. GoesOn
      BY <2>2, <3>1, StayOK, Zenon DEF ClockInv, At
    <3>3. ~paused'
      BY <2>2, <3>1, Zenon
    <3> QED
      BY <3>1, <3>2, <3>3, Zenon DEF ClockInv, Onward
  <2> QED
    BY <2>1, <2>2
<1>7. CASE UNCHANGED timingVars
  <2>1. CASE paused
    <3>1. At(pauseTimeStamp)' /\ paused' = paused /\ asleep' = asleep
      BY <1>7, <2>1, KeepOK, Zenon DEF ClockInv, At
    <3>2. paused' /\ ~asleep'
      BY <2>1, <3>1, Zenon DEF ClockInv
    <3> QED
      BY <1>7, <3>1, <3>2, Zenon DEF ClockInv
  <2>2. CASE ~paused
    <3>1. At(counter)' /\ paused' = paused
      BY <1>7, <2>2, KeepOK, Zenon DEF ClockInv, At
    <3>2. ~paused'
      BY <2>2, <3>1, Zenon
    <3> QED
      BY <1>7, <3>1, <3>2, Zenon DEF ClockInv
  <2> QED
    BY <2>1, <2>2
<1>8. CASE Timing_Awake
  <2>1. asleep /\ ~paused
    BY <1>8, Zenon DEF Timing_Awake, ClockInv
  <2>2. /\ Shows(counter)' /\ Counts(counter)'
        /\ UNCHANGED <<reading, saveTime>> /\ paused' = paused
    BY <1>8, <2>1, AwakeOK, Zenon DEF ClockInv, At
  <2>3. ~paused' /\ GoesOn
    BY <2>1, <2>2, StayOK, Zenon DEF ClockInv, At
  <2> QED
    BY <2>2, <2>3, Zenon DEF ClockInv, At, Onward
<1> QED
  BY <1>1, <1>2, <1>3, <1>4, <1>5, <1>6, <1>7, <1>8, Zenon DEF TimingNext

(* What the invariant says of the readings. *)
LEMMA RealOK == ASSUME At(counter) PROVE ReadingsAreReal
<1>1. counter \in counter .. MaxCounter /\ counter \in Nat /\ counter <= MaxCounter /\ MaxCounter < Word
      /\ perfCounterStart \in Nat /\ perfCounterStart <= counter
  BY UnitsOK DEF At, Shows
<1>2. RealTimeAt(counter) = Micro(counter - perfCounterStart)
  BY <1>1, RealTimeOK DEF At
<1>3. Diff(counter, perfCounterStart) = counter - perfCounterStart
  BY <1>1, UnitsOK, WholeOK
<1> QED
  BY <1>2, <1>3 DEF At, Shows, Counts, ReadingsAreReal, RealTimeIsRunTime, SavedIsReached

(* A pause does not count (Timing_UnPause, timing.c:59-66), and what is     *)
(* saved for other threads (timing.c:114-123) is ahead of the host's clock *)
(* only in Timing_Sync's sleep, whenever the clock is paused, reset or      *)
(* changes over.                                                           *)
THEOREM PausesDoNotCount == TimingSpec => []ReadingsAreReal
<1>1. TimingInit => ClockInv
  BY ReadyOK, Zenon DEF TimingInit, TimingReady, ClockInv
<1>2. ClockInv /\ [TimingNext]_timingVars => ClockInv'
  BY ClockStep
<1>3. ClockInv => ReadingsAreReal
  <2>1. ClockInv /\ ~paused => ReadingsAreReal
    BY RealOK, Zenon DEF ClockInv
  <2>2. paused => ReadingsAreReal
    BY Zenon DEF ReadingsAreReal, RealTimeIsRunTime, SavedIsReached
  <2> QED
    BY <2>1, <2>2
<1> QED
  BY <1>1, <1>2, <1>3, PTL DEF TimingSpec

(* What Timing_GetTime returns never goes back, whichever counter it reads, *)
(* nor what other threads are told (timing.c:68-130); only a cold reset     *)
(* starts them again.                                                      *)
THEOREM ClockGoesOn == TimingSpec => TimeNeverGoesBack
<1>1. TimingInit => ClockInv
  BY ReadyOK, Zenon DEF TimingInit, TimingReady, ClockInv
<1>2. ClockInv /\ [TimingNext]_timingVars => ClockInv' /\ [Onward]_timingVars
  BY ClockStep
<1>3. [Onward]_timingVars => [(reading' >= reading /\ saveTime' >= saveTime) \/ Timing_Reset]_timingVars
  BY DEF Onward, GoesOn
<1> QED
  BY <1>1, <1>2, <1>3, PTL DEF TimingSpec, TimeNeverGoesBack

-----------------------------------------------------------------------------
(* The threads and the clock together.                                     *)

Ended == ui \in {"join", "done"}

(* While the main thread waits for the other one's end, the clock may be   *)
(* stopped or not: it is read all the same.                                *)
Clocked ==
  IF paused /\ ~Ended THEN At(pauseTimeStamp) /\ ~asleep
  ELSE Shows(counter) /\ (~paused => Counts(counter))

(* The sleep of Timing_Sync is one of the event handler's. *)
SleepsInHandler == asleep => emu = "handler"

MachineInv ==
  /\ IInv
  /\ SleepsInHandler
  /\ ~Ended => (paused <=> Paused)
  /\ Clocked

(* Only the wait, and what continues the emulation, change what is paused.  *)
LEMMA PausedKept ==
  ASSUME IInv, Emu \/ User \/ UiStore \/ Pause \/ ActNothing \/ ActReset
                \/ ActQuit \/ ActClose \/ Query \/ Stop
  PROVE  (Paused' <=> Paused) /\ (Ended' <=> Ended)
<1> USE DEF IInv, Handshake, Working, Quitting, Asleep, ParkedWhenPaused, Paused, Ended
<1>1. CASE EmuStore \/ ThreadStart \/ ThreadEnd \/ Go \/ Raise \/ Specialties
            \/ MainEventDue \/ Signal \/ Unpark \/ HandlerEnd
  BY <1>1 DEF EmuStore, ThreadStart, ThreadEnd, Go, Raise, Specialties, MainEventDue,
              Signal, Unpark, HandlerEnd, UiKeeps, uiVars, shared, EmuLoad
<1>2. CASE User
  BY <1>2 DEF User, Ask, shared, EmuKeeps
<1>3. CASE UiStore \/ Pause \/ Stop
  BY <1>3 DEF UiStore, Pause, Stop, AfterPause, shared, EmuKeeps
<1>4. CASE ActNothing \/ ActReset \/ ActQuit \/ ActClose \/ Query
  BY <1>4 DEF ActNothing, ActReset, ActQuit, ActClose, Query, shared, EmuKeeps
<1> QED
  BY <1>1, <1>2, <1>3, <1>4 DEF Emu

(* After the wait the emulation is paused. *)
LEMMA WaitOver ==
  ASSUME IInv, WaitSignalled \/ WaitTimeout
  PROVE  ~Paused /\ Paused' /\ ~Ended /\ ~Ended'
  BY DEF WaitSignalled, WaitTimeout, IInv, Handshake, Quitting, Asleep, Paused, Ended,
         AfterPause, shared, EmuKeeps

(* Main_UnPauseEmulation ends a pause, or does nothing. *)
LEMMA ResumeStep ==
  ASSUME IInv, Resume
  PROVE  /\ ~Ended /\ ~Ended'
         /\ IF bEmulationActive' /\ ~bEmulationActive THEN Paused /\ ~Paused'
            ELSE Paused' <=> Paused
  BY DEF Resume, IInv, Working, Asleep, Paused, Ended, shared, EmuKeeps

(* A clock that is stopped shows less than one that was started again.      *)
LEMMA WidenOK == ASSUME Shows(pauseTimeStamp) PROVE Shows(counter)
<1> DEFINE a == Micro(pauseTimeStamp - perfCounterStart)
           b == Micro(counter - perfCounterStart)
<1>1. /\ counter \in 0 .. MaxCounter /\ counter \in Nat /\ pauseTimeStamp \in Nat
      /\ perfCounterStart \in Nat /\ MaxCounter \in Nat
      /\ perfCounterStart <= pauseTimeStamp /\ pauseTimeStamp <= counter
      /\ perfCounterStart <= counter
  BY UnitsOK DEF Shows
<1>2. /\ pauseTimeStamp - perfCounterStart \in Nat /\ counter - perfCounterStart \in Nat
      /\ pauseTimeStamp - perfCounterStart <= counter - perfCounterStart
  BY <1>1
<1>3. a \in Nat /\ b \in Nat /\ a <= b
  BY <1>2, UnitsOK
<1>4. saveTime \in Nat /\ IF asleep THEN saveTime = reading ELSE saveTime <= a
  BY DEF Shows
<1>5. reading \in Nat /\ reading <= IF currentIsRealtime THEN a ELSE FromCycles(Cycles)
  BY DEF Shows
<1> HIDE DEF a, b
<1>6. IF asleep THEN saveTime = reading ELSE saveTime <= b
  BY <1>3, <1>4
<1>7. reading <= IF currentIsRealtime THEN b ELSE FromCycles(Cycles)
  BY <1>3, <1>5
<1> QED
  BY <1>1, <1>6, <1>7 DEF Shows, b

(* A clock that is left alone. *)
LEMMA ClockedKept ==
  ASSUME Clocked, UNCHANGED timingVars, Ended' <=> Ended
  PROVE  Clocked' /\ GoesOn
<1>1. /\ Shows(counter) => Shows(counter)'
      /\ Shows(pauseTimeStamp) => Shows(pauseTimeStamp)'
      /\ Counts(counter) => Counts(counter)'
      /\ Counts(pauseTimeStamp) => Counts(pauseTimeStamp)'
      /\ UNCHANGED <<reading, saveTime>> /\ asleep' = asleep
  BY KeepOK, Zenon
<1>2. paused' <=> paused
  <2>1. paused' = paused
    BY KeepOK, Zenon
  <2> QED
    BY <2>1, Zenon
<1>3. GoesOn
  BY <1>1, StayOK, Zenon DEF Clocked, At
<1> QED
  BY <1>1, <1>2, <1>3, Zenon DEF Clocked, At

(* A clock that runs is read, or counts on. *)
LEMMA ClockedReads ==
  ASSUME Clocked, ~(paused /\ ~Ended), ~asleep, Timing_GetTime \/ Timing_Sync \/ Cpu, ui' = ui
  PROVE  Clocked' /\ GoesOn /\ paused' = paused
<1>1. Shows(counter) /\ (~paused => Counts(counter))
  BY Zenon DEF Clocked
<1>2. CASE Timing_GetTime \/ Timing_Sync
  <2>1. /\ Shows(counter)' /\ (Counts(counter) => Counts(counter)')
        /\ GoesOn /\ paused' = paused
    BY <1>1, <1>2, ReadsOK, Zenon
  <2>2. ~(paused' /\ ~Ended') /\ (~paused' => ~paused)
    BY <2>1, Zenon DEF Ended
  <2> QED
    BY <1>1, <2>1, <2>2, Zenon DEF Clocked
<1>3. CASE Cpu
  <2>1. Shows(counter)' /\ paused' = paused /\ UNCHANGED <<reading, saveTime>>
    BY <1>1, <1>3, CpuOK, Zenon
  <2>2. Counts(counter) => Counts(counter)'
    BY <1>3, CpuOK DEF Counts
  <2>3. ~(paused' /\ ~Ended') /\ (~paused' => ~paused)
    BY <2>1, Zenon DEF Ended
  <2>4. GoesOn
    BY <1>1, <2>1, StayOK, Zenon
  <2> QED
    BY <1>1, <2>1, <2>2, <2>3, <2>4, Zenon DEF Clocked
<1> QED
  BY <1>2, <1>3

(* The sleep ends on a clock that runs. *)
LEMMA ClockedAwake ==
  ASSUME Clocked, Timing_Awake, ui' = ui
  PROVE  Clocked' /\ GoesOn /\ paused' = paused
<1>1. asleep
  BY Zenon DEF Timing_Awake
<1>2. Shows(counter) /\ (~paused => Counts(counter)) /\ ~(paused /\ ~Ended)
  BY <1>1, Zenon DEF Clocked
<1>3. /\ Shows(counter)' /\ (Counts(counter) => Counts(counter)')
      /\ UNCHANGED <<reading, saveTime>> /\ paused' = paused
  BY <1>2, AwakeOK, Zenon
<1>4. ~(paused' /\ ~Ended') /\ (~paused' => ~paused)
  BY <1>2, <1>3, Zenon DEF Ended
<1>5. GoesOn
  BY <1>2, <1>3, StayOK, Zenon
<1> QED
  BY <1>2, <1>3, <1>4, <1>5, Zenon DEF Clocked

(* Time goes by for the machine, paused or not. *)
LEMMA ClockedTick ==
  ASSUME Clocked, Tick, ui' = ui
  PROVE  Clocked' /\ GoesOn /\ paused' = paused
<1>1. UNCHANGED <<reading, saveTime>> /\ paused' = paused /\ asleep' = asleep
  BY TickOK, Zenon
<1>2. (paused' <=> paused) /\ (Ended' <=> Ended)
  BY <1>1, Zenon DEF Ended
<1>3. GoesOn
  BY <1>1, StayOK, Zenon DEF Clocked, At
<1>4. CASE paused /\ ~Ended
  <2>1. At(pauseTimeStamp)'
    BY <1>4, TickOK, Zenon DEF Clocked, At
  <2> QED
    BY <1>1, <1>2, <1>3, <1>4, <2>1, Zenon DEF Clocked
<1>5. CASE ~(paused /\ ~Ended)
  <2>1. Shows(counter)' /\ (~paused => Counts(counter)')
    BY <1>5, TickOK, Zenon DEF Clocked
  <2> QED
    BY <1>1, <1>2, <1>3, <1>5, <2>1, Zenon DEF Clocked
<1> QED
  BY <1>4, <1>5

(* Every step of the machine is one of MainLoop, or leaves it alone. *)
LEMMA MachineLoop ==
  ASSUME ~Slow, IInv, [MachineNext]_machineVars
  PROVE  IInv'
<1>1. Emu \/ User \/ Ui \/ UNCHANGED vars
  BY Zenon DEF MachineNext, EmuStep, EmuClock, Synchronise, UiStep, PauseEmulation, UnPauseEmulation,
               machineVars, Emu, Ui
<1>2. CASE UNCHANGED vars
  BY <1>2 DEF IInv, Handshake, Working, Quitting, Asleep, ParkedWhenPaused, Paused,
         PollScheduled, vars, shared, emuVars, uiVars
<1> QED
  BY <1>1, <1>2, EmuOK, UiOK, Zenon

(* Nobody but the handler puts the thread to that sleep, or leaves it.     *)
LEMMA SleepKept ==
  ASSUME SleepsInHandler, [MachineNext]_machineVars
  PROVE  SleepsInHandler'
<1>1. CASE Synchronise
  BY <1>1, Zenon DEF Synchronise, SleepsInHandler, vars, emuVars
<1>2. CASE HandlerEnd /\ SleepOrBound
  <2>1. ~asleep'
    BY <1>2, Zenon DEF SleepOrBound, Timing_Awake, timingVars, saved
  <2> QED
    BY <2>1, Zenon DEF SleepsInHandler
<1>3. CASE (EmuStore \/ ThreadStart \/ ThreadEnd \/ Go \/ Raise \/ Specialties
              \/ MainEventDue \/ Signal \/ Unpark) /\ UNCHANGED timingVars
  <2>1. asleep' = asleep
    BY <1>3, Zenon DEF timingVars, saved
  <2>2. emu = "handler" => emu' = "handler"
    BY <1>3 DEF EmuStore, ThreadStart, ThreadEnd, Go, Raise, Specialties, MainEventDue, Signal, Unpark
  <2> QED
    BY <2>1, <2>2, Zenon DEF SleepsInHandler
<1>4. CASE EmuClock
  <2>1. ~asleep
    BY <1>4, Zenon DEF EmuClock, Executing
  <2>2. asleep' = asleep
    BY <1>4, Zenon DEF EmuClock, Timing_GetTime, Cpu, saved
  <2>3. ~asleep'
    BY <2>1, <2>2, Zenon
  <2> QED
    BY <2>3, Zenon DEF SleepsInHandler
<1>5. CASE UiStep \/ (User /\ UNCHANGED timingVars)
  <2>1. asleep' = asleep
    BY <1>5, Zenon DEF UiStep, PauseEmulation, UnPauseEmulation, Timing_Pause, Timing_UnPause,
                       Timing_Reset, timingVars, saved
  <2>2. emu' = emu
    BY <1>5, Zenon DEF UiStep, PauseEmulation, UnPauseEmulation, Pause, WaitSignalled, WaitTimeout,
                ActNothing, ActReset, ActQuit, ActClose, Query, Resume, Stop, UnInit, Join,
                UiStore, User, Ask, EmuKeeps
  <2> QED
    BY <2>1, <2>2, Zenon DEF SleepsInHandler
<1>6. CASE Tick /\ UNCHANGED vars
  BY <1>6, Zenon DEF Tick, saved, vars, emuVars, SleepsInHandler
<1>7. CASE UNCHANGED machineVars
  BY <1>7, Zenon DEF machineVars, timingVars, saved, vars, emuVars, SleepsInHandler
<1> QED
  BY <1>1, <1>2, <1>3, <1>4, <1>5, <1>6, <1>7, Zenon DEF MachineNext, EmuStep

(* The clock is read only while it runs, or after it was given up.         *)
LEMMA MachineStep ==
  ASSUME ~Slow, MachineInv, [MachineNext]_machineVars
  PROVE  MachineInv' /\ [Onward]_timingVars
<1>1. IInv' /\ SleepsInHandler'
  BY MachineLoop, SleepKept, Zenon DEF MachineInv
<1>2. IInv /\ SleepsInHandler /\ (~Ended => (paused <=> Paused)) /\ Clocked
  BY Zenon DEF MachineInv
<1> SUFFICES (~Ended' => (paused' <=> Paused')) /\ Clocked' /\ Onward
  BY <1>1, Zenon DEF MachineInv
<1> DEFINE Clockless == UNCHANGED timingVars
<1>3. ASSUME Clockless, Paused' <=> Paused, Ended' <=> Ended
      PROVE  (~Ended' => (paused' <=> Paused')) /\ Clocked' /\ Onward
  <2>1. Clocked' /\ GoesOn
    BY <1>2, <1>3, ClockedKept, Zenon
  <2>2. paused' = paused
    BY <1>3, KeepOK, Zenon
  <2>3. paused' <=> paused
    BY <2>2, Zenon
  <2> QED
    BY <1>2, <1>3, <2>1, <2>3, Zenon DEF Onward
<1>4. CASE Clockless /\ (Emu \/ User \/ UiStore \/ Pause \/ ActNothing \/ ActQuit
                          \/ ActClose \/ Query \/ Stop)
  BY <1>2, <1>3, <1>4, PausedKept, Zenon
<1>5. CASE Clockless /\ UNCHANGED vars
  <2>1. (Paused' <=> Paused) /\ (Ended' <=> Ended)
    BY <1>5 DEF Paused, Ended, vars, shared, emuVars, uiVars
  <2> QED
    BY <1>3, <1>5, <2>1, Zenon
<1>6. CASE Clockless /\ (UnInit \/ Join)
  <2>1. Ended'
    BY <1>6 DEF UnInit, Join, Ended
  <2>2. paused' = paused /\ UNCHANGED <<reading, saveTime>>
    BY <1>6, KeepOK, Zenon
  <2>3. ~paused' => ~paused
    BY <2>2, Zenon
  <2>4. Shows(counter) /\ (~paused => Counts(counter))
    BY <1>2, WidenOK, Zenon DEF Clocked, At
  <2>5. Shows(counter)' /\ (~paused => Counts(counter)')
    BY <1>6, <2>4, KeepOK, Zenon
  <2>6. GoesOn
    BY <2>2, <2>4, StayOK, Zenon
  <2> QED
    BY <2>1, <2>3, <2>5, <2>6, Zenon DEF Clocked, Onward
<1>7. CASE (WaitSignalled \/ WaitTimeout) /\ Timing_Pause
  <2>1. ~Paused /\ Paused' /\ ~Ended /\ ~Ended'
    BY <1>2, <1>7, WaitOver, Zenon
  <2>2. At(counter)
    BY <1>2, <2>1, Zenon DEF Clocked, At
  <2>3. At(pauseTimeStamp)' /\ paused' = TRUE /\ UNCHANGED <<reading, saveTime>>
    BY <1>7, <2>2, PauseOK, Zenon DEF At
  <2>4. GoesOn
    BY <2>2, <2>3, StayOK, Zenon DEF At
  <2>5. emu' # "handler"
    BY <1>1, <2>1 DEF IInv, ParkedWhenPaused
  <2>6. ~asleep'
    BY <1>1, <2>5, Zenon DEF SleepsInHandler
  <2> QED
    BY <2>1, <2>3, <2>4, <2>6, Zenon DEF Clocked, Onward
<1>8. CASE Resume /\ IF bEmulationActive' /\ ~bEmulationActive THEN Timing_UnPause ELSE Clockless
  <2>1. ~Ended /\ ~Ended'
    BY <1>2, <1>8, ResumeStep, Zenon
  <2>2. CASE bEmulationActive' /\ ~bEmulationActive
    <3>1. Paused /\ ~Paused' /\ Timing_UnPause
      BY <1>2, <1>8, <2>2, ResumeStep, Zenon
    <3>2. At(pauseTimeStamp)
      BY <1>2, <2>1, <3>1, Zenon DEF Clocked
    <3>3. At(counter)' /\ paused' = FALSE /\ UNCHANGED <<reading, saveTime>>
      BY <3>1, <3>2, UnPauseOK, Zenon DEF At
    <3>4. GoesOn
      BY <3>2, <3>3, StayOK, Zenon DEF At
    <3> QED
      BY <2>1, <3>1, <3>3, <3>4, Zenon DEF Clocked, At, Onward
  <2>3. CASE ~(bEmulationActive' /\ ~bEmulationActive)
    <3>1. Clockless /\ (Paused' <=> Paused)
      BY <1>2, <1>8, <2>3, ResumeStep, Zenon
    <3> QED
      BY <1>3, <2>1, <3>1, Zenon
  <2> QED
    BY <2>2, <2>3
<1>9. CASE ActReset /\ Timing_Reset
  <2>1. (Paused' <=> Paused) /\ (Ended' <=> Ended)
    BY <1>2, <1>9, PausedKept, Zenon
  <2>2. counter \in 0 .. MaxCounter /\ asleep \in BOOLEAN
    BY <1>2, Zenon DEF Clocked, At, Shows
  <2>3. At(counter)' /\ At(pauseTimeStamp)' /\ paused /\ paused' /\ asleep' = asleep
    BY <1>9, <2>2, ResetOK, Zenon
  <2>4. paused /\ ~Ended => ~asleep'
    BY <1>2, <2>3, Zenon DEF Clocked
  <2> QED
    BY <1>2, <1>9, <2>1, <2>3, <2>4, Zenon DEF Clocked, At, Onward
<1>10. CASE Synchronise
  <2>1. (Paused' <=> Paused) /\ (Ended' <=> Ended) /\ ui' = ui
    BY <1>10 DEF Synchronise, Paused, Ended, vars, shared, emuVars, uiVars
  <2>2. ~Paused
    BY <1>2, <1>10 DEF Synchronise, IInv, ParkedWhenPaused
  <2>3. Clocked' /\ GoesOn /\ paused' = paused
    BY <1>2, <1>10, <2>1, <2>2, ClockedReads, Zenon DEF Synchronise
  <2>4. paused' <=> paused
    BY <2>3, Zenon
  <2> QED
    BY <1>2, <2>1, <2>3, <2>4, Zenon DEF Onward
<1>16. CASE HandlerEnd /\ Timing_Awake
  <2>1. (Paused' <=> Paused) /\ (Ended' <=> Ended)
    BY <1>2, <1>16, PausedKept, Zenon DEF Emu
  <2>2. ui' = ui
    BY <1>16 DEF HandlerEnd, UiKeeps, uiVars
  <2>3. Clocked' /\ GoesOn /\ paused' = paused
    BY <1>2, <1>16, <2>2, ClockedAwake, Zenon
  <2>4. paused' <=> paused
    BY <2>3, Zenon
  <2> QED
    BY <1>2, <2>1, <2>3, <2>4, Zenon DEF Onward
<1>11. CASE EmuClock
  <2>1. (Paused' <=> Paused) /\ (Ended' <=> Ended) /\ ui' = ui
    BY <1>11 DEF EmuClock, Paused, Ended, vars, shared, emuVars, uiVars
  <2>2. ~Paused
    BY <1>2, <1>11 DEF EmuClock, Executing, IInv, ParkedWhenPaused
  <2>3. Clocked' /\ GoesOn /\ paused' = paused
    BY <1>2, <1>11, <2>1, <2>2, ClockedReads, Zenon DEF EmuClock, Executing
  <2>4. paused' <=> paused
    BY <2>3, Zenon
  <2> QED
    BY <1>2, <2>1, <2>3, <2>4, Zenon DEF Onward
<1>12. CASE Tick /\ UNCHANGED vars
  <2>1. (Paused' <=> Paused) /\ (Ended' <=> Ended) /\ ui' = ui
    BY <1>12 DEF Paused, Ended, vars, shared, emuVars, uiVars
  <2>2. Clocked' /\ GoesOn /\ paused' = paused
    BY <1>2, <1>12, <2>1, ClockedTick, Zenon
  <2>3. paused' <=> paused
    BY <2>2, Zenon
  <2> QED
    BY <1>2, <2>1, <2>2, <2>3, Zenon DEF Onward
<1>13. CASE EmuStep
  BY <1>4, <1>10, <1>13, <1>16, Zenon DEF EmuStep, SleepOrBound, Emu
<1>14. CASE UiStep
  BY <1>4, <1>6, <1>7, <1>8, <1>9, <1>14, Zenon DEF UiStep, PauseEmulation, UnPauseEmulation
<1>15. CASE UNCHANGED machineVars
  BY <1>5, <1>15, Zenon DEF machineVars
<1> QED
  BY <1>4, <1>11, <1>12, <1>13, <1>14, <1>15, Zenon DEF MachineNext

(* The machine starts with the clock running. *)
LEMMA MachineStart == MachineInit => MachineInv
<1> SUFFICES ASSUME MachineInit PROVE MachineInv
  OBVIOUS
<1>1. IInv
  BY InitOK DEF MachineInit
<1>2. At(counter)
  BY ReadyOK DEF MachineInit
<1>3. ~paused /\ SleepsInHandler
  BY Zenon DEF MachineInit, TimingReady, SleepsInHandler
<1>4. ~Paused
  BY DEF MachineInit, Init, Paused
<1> QED
  BY <1>1, <1>2, <1>3, <1>4, Zenon DEF MachineInv, Clocked, At

(* What the invariant says of the clock, for either way it is used.         *)
LEMMA MachineShows == MachineInv => ClockStopsAsleep /\ ReadingsAreReal
<1> SUFFICES ASSUME MachineInv PROVE ClockStopsAsleep /\ ReadingsAreReal
  OBVIOUS
<1>1. ClockStopsAsleep
  BY Zenon DEF MachineInv, IInv, ParkedWhenPaused, ClockStopsAsleep, Ended
<1>2. CASE paused
  BY <1>1, <1>2, Zenon DEF ReadingsAreReal, RealTimeIsRunTime, SavedIsReached
<1>3. CASE ~paused
  BY <1>1, <1>3, RealOK, Zenon DEF MachineInv, Clocked, At
<1> QED
  BY <1>2, <1>3

(* The clock stands still exactly while the emulation is paused, and nobody *)
(* reads it then (main.c:111-164): what Timing takes for granted by itself *)
(* the two threads bring about.                                            *)
THEOREM ClockStops == ASSUME ~Slow PROVE MachineSpec => []ClockStopsAsleep
<1>1. MachineInv => ClockStopsAsleep
  BY MachineShows
<1>2. MachineInv /\ [MachineNext]_machineVars => MachineInv'
  BY MachineStep
<1> QED
  BY MachineStart, <1>1, <1>2, PTL DEF MachineSpec

(* So the clock of the machine shows the time that was run, and what it     *)
(* told the other threads, which go on in Timing_Sync's sleep, is ahead of  *)
(* the host's clock only until the sleep ends (timing.c:114-123).          *)
THEOREM MachineTimeIsReal == ASSUME ~Slow PROVE MachineSpec => []ReadingsAreReal
<1>1. MachineInv => ReadingsAreReal
  BY MachineShows
<1>2. MachineInv /\ [MachineNext]_machineVars => MachineInv'
  BY MachineStep
<1> QED
  BY MachineStart, <1>1, <1>2, PTL DEF MachineSpec

(* The clock never goes back, for its own thread or for the others, not     *)
(* even at the program's end, where it may stay paused while the emulation  *)
(* thread runs (main.c:366-385).                                           *)
THEOREM MachineTimeGoesOn == ASSUME ~Slow PROVE MachineSpec => TimeNeverGoesBack
<1>1. MachineInv /\ [MachineNext]_machineVars => MachineInv' /\ [Onward]_timingVars
  BY MachineStep
<1>2. [Onward]_timingVars => [(reading' >= reading /\ saveTime' >= saveTime) \/ Timing_Reset]_timingVars
  BY DEF Onward, GoesOn
<1> QED
  BY MachineStart, <1>1, <1>2, PTL DEF MachineSpec, TimeNeverGoesBack

(* The run checks the same in its scenario "threads".                      *)
THEOREM RunStopsClock == ASSUME ~Slow PROVE MCSpec => []ThreadsStopClock
<1> DEFINE Inv == scenario = "threads" => MachineInv
<1>1. MCInit => Inv
  BY MachineStart DEF MCInit
<1>2. Inv /\ [MCNext]_<<machineVars, scenario>> => Inv'
  <2> SUFFICES ASSUME Inv, [MCNext]_<<machineVars, scenario>>, scenario' = "threads"
               PROVE  MachineInv'
    BY Zenon
  <2>1. scenario' = scenario
    BY Zenon DEF MCNext
  <2>2. [MachineNext]_machineVars
    BY <2>1, Zenon DEF MCNext
  <2> QED
    BY <2>1, <2>2, MachineStep, Zenon
<1>3. Inv => ThreadsStopClock
  BY MachineShows DEF ThreadsStopClock
<1> QED
  BY <1>1, <1>2, <1>3, PTL DEF MCSpec
=============================================================================
