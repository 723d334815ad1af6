------------------------------- MODULE CycInt -------------------------------
(***************************************************************************)
(* The event scheduler of src/src/cycInt.c.  Pending device events sit in  *)
(* two doubly linked lists threaded through one table: one ordered by CPU  *)
(* cycles, one ordered by host microseconds.  EVENT_NULL is the sentinel   *)
(* that ends both lists; its time is UINT64_MAX, so no search passes it.   *)
(*                                                                         *)
(* The emulation thread alternates between executing an instruction, which *)
(* may call any operation below (device registers), and CycInt_AddCycles,  *)
(* which runs the handlers of the events that are due; a handler may again *)
(* call any operation.  pc says which loop of CycInt_AddCycles is active,  *)
(* running which handler is.  The two loops are one step per iteration.    *)
(***************************************************************************)
EXTENDS Integers

CONSTANTS
  Events,           \* event_id without EVENT_NULL
  EVENT_NULL,       \* the sentinel that ends both lists
  UINT64_MAX,       \* larger than every time in a behaviour
  CHECK_INTERVAL,   \* microseconds between two polls of the host clock
  nCpuFreq,         \* ConfigureParams.System.nCpuFreq, cycles per microsecond
  Delays,           \* delays passed by the devices; none is zero
  Cycles,           \* cycles an instruction may take
  Horizon           \* bound: clocks stop here, no deadline lies beyond

ASSUME ConstantsAssumption ==
  /\ EVENT_NULL \notin Events
  /\ Horizon \in Nat /\ UINT64_MAX \in Nat /\ Horizon < UINT64_MAX
  /\ CHECK_INTERVAL \in Nat \ {0} /\ nCpuFreq \in Nat \ {0}
  /\ Delays \subseteq Nat \ {0}
  /\ Cycles \subseteq Nat \ {0}

VARIABLES
  type, time, prev, next,         \* the fields of EventList
  nCyclesFirst, nTimeFirst,       \* heads of the two lists
  nCyclesMainCounter,             \* cycles emulated since reset
  nCheckCycles,                   \* cycle count of the next clock poll
  nTimeNow,                       \* the host clock as last polled
  clock,                          \* the host clock, Timing_GetTime()
  bRealtime,                      \* ConfigureParams.System.bRealtime
  pc,                             \* "cpu", or the loop of AddCycles we are in
  running                         \* event whose handler runs, or EVENT_NULL

table  == <<type, time, prev, next, nCyclesFirst, nTimeFirst>>
clocks == <<nCyclesMainCounter, nCheckCycles, nTimeNow, clock, bRealtime>>
vars   == <<table, clocks, pc, running>>

Ids == Events \cup {EVENT_NULL}

(* The bound on clocks: past the horizon they stand still. *)
Cap(n) == IF n > Horizon THEN Horizon ELSE n

(* Mutant: the loop over the table starts behind the sentinel. *)
ResetTableNoSentinel ==
  /\ type'  = [i \in Ids |-> "NONE"]
  /\ time'  = [i \in Ids |-> IF i = EVENT_NULL THEN 0 ELSE UINT64_MAX]
  /\ prev'  = [i \in Ids |-> EVENT_NULL]
  /\ next'  = [i \in Ids |-> EVENT_NULL]
  /\ nCyclesFirst' = EVENT_NULL
  /\ nTimeFirst'   = EVENT_NULL
  /\ nCyclesMainCounter' = 0
  /\ nCheckCycles' = IF bRealtime' THEN 0 ELSE UINT64_MAX
  /\ nTimeNow' = 0

ResetTable ==
  /\ type'  = [i \in Ids |-> "NONE"]
  /\ time'  = [i \in Ids |-> UINT64_MAX]
  /\ prev'  = [i \in Ids |-> EVENT_NULL]
  /\ next'  = [i \in Ids |-> EVENT_NULL]
  /\ nCyclesFirst' = EVENT_NULL
  /\ nTimeFirst'   = EVENT_NULL
  /\ nCyclesMainCounter' = 0
  /\ nCheckCycles' = IF bRealtime' THEN 0 ELSE UINT64_MAX
  /\ nTimeNow' = 0

Init ==
  /\ type = [i \in Ids |-> "NONE"]
  /\ time = [i \in Ids |-> UINT64_MAX]
  /\ prev = [i \in Ids |-> EVENT_NULL]
  /\ next = [i \in Ids |-> EVENT_NULL]
  /\ nCyclesFirst = EVENT_NULL
  /\ nTimeFirst   = EVENT_NULL
  /\ nCyclesMainCounter = 0
  /\ bRealtime \in BOOLEAN
  /\ nCheckCycles = IF bRealtime THEN 0 ELSE UINT64_MAX
  /\ nTimeNow = 0
  /\ clock = 0
  /\ pc = "cpu"
  /\ running = EVENT_NULL

(* Where devices call the scheduler from: an instruction or a handler. *)
InDevice == pc = "cpu" \/ running # EVENT_NULL

-----------------------------------------------------------------------------
(* List surgery.  The operators below give the table's fields after the    *)
(* event i has been unlinked, and after it has been inserted again.        *)

UnlinkedNext(i) ==
  IF type[i] # "NONE" /\ prev[i] # EVENT_NULL
  THEN [next EXCEPT ![prev[i]] = next[i]] ELSE next

UnlinkedPrev(i) ==
  IF type[i] # "NONE" /\ next[i] # EVENT_NULL
  THEN [prev EXCEPT ![next[i]] = prev[i]] ELSE prev

UnlinkedFirst(k, first, i) ==
  IF type[i] = k /\ first = i THEN next[i] ELSE first

(* Mutant: the event is put in front, without a search. *)
LastBeforeFront(list, nx, t) == EVENT_NULL

(* The last event the search of CycInt_AddEvent walks past: every event of *)
(* the list that is due before t lies before the place it stops at.        *)
LastBefore(list, nx, t) ==
  LET passed == {m \in list : time[m] < t}
  IN  IF passed = {} THEN EVENT_NULL
      ELSE CHOOSE m \in passed : nx[m] \notin passed

(* CycInt_AddEvent: i enters list k at time t, in front of its equals. *)
Enqueue(k, i, t) ==
  LET list  == {m \in Events \ {i} : type[m] = k}
      nx    == UnlinkedNext(i)
      pv    == UnlinkedPrev(i)
      cycF  == UnlinkedFirst("CYCLES", nCyclesFirst, i)
      timF  == UnlinkedFirst("TIME", nTimeFirst, i)
      first == IF k = "CYCLES" THEN cycF ELSE timF
      p     == LastBefore(list, nx, t)
      n     == IF p = EVENT_NULL THEN first ELSE nx[p]
  IN  /\ type' = [type EXCEPT ![i] = k]
      /\ time' = [time EXCEPT ![i] = t]
      /\ next' = [m \in Ids |-> IF m = i THEN n
                                ELSE IF m = p /\ p # EVENT_NULL THEN i ELSE nx[m]]
      /\ prev' = [m \in Ids |-> IF m = i THEN p
                                ELSE IF m = n /\ n # EVENT_NULL THEN i ELSE pv[m]]
      /\ nCyclesFirst' = IF k = "CYCLES" /\ p = EVENT_NULL THEN i ELSE cycF
      /\ nTimeFirst'   = IF k = "TIME" /\ p = EVENT_NULL THEN i ELSE timF

-----------------------------------------------------------------------------
(* Operations called by the devices.  "t <= Horizon" is the bound.         *)

AddCyclesEvent(d, i) ==
  LET t == nCyclesMainCounter + d
  IN  /\ InDevice
      /\ t <= Horizon
      /\ Enqueue("CYCLES", i, t)
      /\ UNCHANGED <<clocks, pc, running>>

(* The Update forms continue from the event's last deadline.  All their    *)
(* callers are the event's own handler, called for the same clock.         *)
UpdateCyclesEvent(d, i) ==
  LET t == time[i] + d
  IN  /\ running = i /\ pc = "cycles"
      /\ t <= Horizon
      /\ Enqueue("CYCLES", i, t)
      /\ UNCHANGED <<clocks, pc, running>>

(* The delay that counts in realtime mode: FastTime if the caller has one. *)
RealDelay(real, fast) == IF fast # 0 THEN fast ELSE real

(* Mutant: a new first event does not pull the next poll forward. *)
AddTimeEventNoPoll(real, fast, i) ==
  LET d == RealDelay(real, fast)
      t == IF bRealtime THEN clock + d ELSE nCyclesMainCounter + real * nCpuFreq
  IN  /\ InDevice
      /\ t <= Horizon
      /\ Enqueue(IF bRealtime THEN "TIME" ELSE "CYCLES", i, t)
      /\ UNCHANGED <<clocks, pc, running>>

AddTimeEvent(real, fast, i) ==
  LET d == RealDelay(real, fast)
      t == IF bRealtime THEN clock + d ELSE nCyclesMainCounter + real * nCpuFreq
  IN  /\ InDevice
      /\ t <= Horizon
      /\ Enqueue(IF bRealtime THEN "TIME" ELSE "CYCLES", i, t)
      /\ nCheckCycles' = IF bRealtime /\ d < CHECK_INTERVAL /\ i = nTimeFirst'
                         THEN Cap(nCyclesMainCounter + d * nCpuFreq)
                         ELSE nCheckCycles
      /\ UNCHANGED <<nCyclesMainCounter, nTimeNow, clock, bRealtime, pc, running>>

(* A lag of more than half a period, or a deadline ahead of the clock (the *)
(* difference is unsigned), restarts the period at the clock.              *)
UpdateTimeEvent(real, fast, i) ==
  LET d    == RealDelay(real, fast)
      lag  == clock - time[i]
      base == IF lag < 0 \/ lag > d \div 2 THEN clock ELSE time[i]
      t    == IF bRealtime THEN base + d ELSE time[i] + real * nCpuFreq
  IN  /\ running = i /\ pc = (IF bRealtime THEN "time" ELSE "cycles")
      /\ time[i] # UINT64_MAX
      /\ t <= Horizon
      /\ Enqueue(IF bRealtime THEN "TIME" ELSE "CYCLES", i, t)
      /\ nTimeNow' = IF bRealtime THEN clock ELSE nTimeNow
      /\ UNCHANGED <<nCyclesMainCounter, nCheckCycles, clock, bRealtime, pc, running>>

(* A delay in microseconds, always kept as cycles. *)
CycleDelay(ct, fast) == (IF bRealtime THEN RealDelay(ct, fast) ELSE ct) * nCpuFreq

AddCycleTimeEvent(ct, fast, i)    == AddCyclesEvent(CycleDelay(ct, fast), i)
UpdateCycleTimeEvent(ct, fast, i) == UpdateCyclesEvent(CycleDelay(ct, fast), i)

RemovePendingEvent(i) ==
  /\ InDevice
  /\ type[i] # "NONE"
  /\ type' = [type EXCEPT ![i] = "NONE"]
  /\ next' = UnlinkedNext(i)
  /\ prev' = UnlinkedPrev(i)
  /\ nCyclesFirst' = UnlinkedFirst("CYCLES", nCyclesFirst, i)
  /\ nTimeFirst'   = UnlinkedFirst("TIME", nTimeFirst, i)
  /\ UNCHANGED <<time, clocks, pc, running>>

(* Cold reset: Timing_Reset restarts the host clock, then CycInt_Reset. It *)
(* happens while the emulation thread is paused inside Main_EventHandler,  *)
(* and it is the only moment at which the realtime setting changes         *)
(* (Change_DoNeedReset); the handler then returns into the old loop.       *)
Reset ==
  /\ running # EVENT_NULL
  /\ bRealtime' \in BOOLEAN
  /\ ResetTable
  /\ clock' = 0
  /\ UNCHANGED <<pc, running>>

-----------------------------------------------------------------------------
(* CycInt_AddCycles, one step per loop iteration.                          *)

AddCycles(c) ==
  /\ pc = "cpu"
  /\ nCyclesMainCounter' = Cap(nCyclesMainCounter + c)
  /\ pc' = "cycles"
  /\ UNCHANGED <<table, nCheckCycles, nTimeNow, clock, bRealtime, running>>

(* Mutant: the new head keeps its link to the event that was dispatched. *)
CallHandlerStaleLink(i) ==
  /\ type' = [type EXCEPT ![i] = "NONE"]
  /\ running' = i
  /\ UNCHANGED <<time, prev, next, clocks, pc>>

(* Unlink the head i of a list and call its handler. *)
CallHandler(i) ==
  /\ type' = [type EXCEPT ![i] = "NONE"]
  /\ prev' = [prev EXCEPT ![next[i]] = EVENT_NULL]
  /\ running' = i
  /\ UNCHANGED <<time, next, clocks, pc>>

PopCycles ==
  /\ pc = "cycles" /\ running = EVENT_NULL
  /\ time[nCyclesFirst] <= nCyclesMainCounter
  /\ CallHandler(nCyclesFirst)
  /\ nCyclesFirst' = next[nCyclesFirst]
  /\ UNCHANGED nTimeFirst

(* The cycle list is done; poll the host clock if the poll is due. *)
CyclesDone ==
  /\ pc = "cycles" /\ running = EVENT_NULL
  /\ time[nCyclesFirst] > nCyclesMainCounter
  /\ IF nCheckCycles <= nCyclesMainCounter
     THEN pc' = "time" /\ nTimeNow' = clock
     ELSE pc' = "cpu" /\ UNCHANGED nTimeNow
  /\ UNCHANGED <<table, nCyclesMainCounter, nCheckCycles, clock, bRealtime, running>>

PopTime ==
  /\ pc = "time" /\ running = EVENT_NULL
  /\ nTimeFirst # EVENT_NULL
  /\ time[nTimeFirst] <= nTimeNow
  /\ CallHandler(nTimeFirst)
  /\ nTimeFirst' = next[nTimeFirst]
  /\ UNCHANGED nCyclesFirst

(* Mutant: an empty time list switches the polling off. *)
TimeDoneNoPoll ==
  LET diff == time[nTimeFirst] - nTimeNow
      wait == IF diff < CHECK_INTERVAL THEN diff ELSE CHECK_INTERVAL
  IN  /\ pc = "time" /\ running = EVENT_NULL
      /\ nTimeFirst # EVENT_NULL => diff > 0
      /\ nCheckCycles' = IF nTimeFirst = EVENT_NULL THEN UINT64_MAX
                         ELSE Cap(nCyclesMainCounter + wait * nCpuFreq)
      /\ pc' = "cpu"
      /\ UNCHANGED <<table, nCyclesMainCounter, nTimeNow, clock, bRealtime, running>>

(* Nothing more is due: the next poll comes when the head is due, or after *)
(* CHECK_INTERVAL if that is sooner.                                       *)
TimeDone ==
  LET diff == time[nTimeFirst] - nTimeNow
      wait == IF nTimeFirst # EVENT_NULL /\ diff < CHECK_INTERVAL
              THEN diff ELSE CHECK_INTERVAL
  IN  /\ pc = "time" /\ running = EVENT_NULL
      /\ nTimeFirst # EVENT_NULL => diff > 0
      /\ nCheckCycles' = Cap(nCyclesMainCounter + wait * nCpuFreq)
      /\ pc' = "cpu"
      /\ UNCHANGED <<table, nCyclesMainCounter, nTimeNow, clock, bRealtime, running>>

HandlerReturn ==
  /\ running # EVENT_NULL
  /\ running' = EVENT_NULL
  /\ UNCHANGED <<table, clocks, pc>>

(* The host clock moves at any moment. *)
Tick ==
  /\ clock < Horizon
  /\ clock' = clock + 1
  /\ UNCHANGED <<table, nCyclesMainCounter, nCheckCycles, nTimeNow, bRealtime, pc, running>>

-----------------------------------------------------------------------------
DeviceCall(i) ==
  \/ \E d \in Delays : AddCyclesEvent(d, i) \/ UpdateCyclesEvent(d, i)
  \/ \E d \in Delays, fast \in Delays \cup {0} :
       \/ AddTimeEvent(d, fast, i) \/ UpdateTimeEvent(d, fast, i)
       \/ AddCycleTimeEvent(d, fast, i) \/ UpdateCycleTimeEvent(d, fast, i)
  \/ RemovePendingEvent(i)

Dispatch == PopCycles \/ CyclesDone \/ PopTime \/ TimeDone \/ HandlerReturn

RunCycles == \E c \in Cycles : AddCycles(c)

Next ==
  \/ \E i \in Events : DeviceCall(i)
  \/ Reset
  \/ RunCycles
  \/ Dispatch
  \/ Tick

Spec == Init /\ [][Next]_vars

(* The CPU thread keeps executing, its loops and the handlers terminate,   *)
(* and the host clock keeps moving.                                        *)
Fairness == WF_vars(RunCycles) /\ WF_vars(Dispatch) /\ WF_vars(Tick)

FairSpec == Spec /\ Fairness

-----------------------------------------------------------------------------
(* Properties. *)

(* Every field has its type (cycInt.c:42-53). *)
TypeOK ==
  /\ type \in [Ids -> {"NONE", "CYCLES", "TIME"}]
  /\ time \in [Ids -> Nat]
  /\ prev \in [Ids -> Ids] /\ next \in [Ids -> Ids]
  /\ nCyclesFirst \in Ids /\ nTimeFirst \in Ids
  /\ nCyclesMainCounter \in 0..Horizon
  /\ nCheckCycles \in 0..Horizon \cup {UINT64_MAX}
  /\ nTimeNow \in 0..Horizon /\ clock \in 0..Horizon
  /\ pc \in {"cpu", "cycles", "time"}
  /\ running \in Ids /\ bRealtime \in BOOLEAN
  /\ type[EVENT_NULL] = "NONE" /\ time[EVENT_NULL] = UINT64_MAX
  /\ \A i \in Events : type[i] # "NONE" => time[i] <= Horizon

List(k) == {i \in Events : type[i] = k}

(* ord is a total order of list in which every part of it has a last.      *)
IsOrder(list, ord) ==
  /\ \A x, y \in list : <<x, y>> \in ord => <<y, x>> \notin ord
  /\ \A x, y \in list : x # y => <<x, y>> \in ord \/ <<y, x>> \in ord
  /\ \A x, y, z \in list : <<x, y>> \in ord /\ <<y, z>> \in ord => <<x, z>> \in ord
  /\ \A S \in SUBSET list :
       S # {} => \E m \in S : \A x \in S : x # m => <<x, m>> \in ord

Sorted(list, tm, ord) == \A x, y \in list : <<x, y>> \in ord => tm[x] <= tm[y]

(* first starts the order, nx leads to the successor, and pv back.         *)
Linked(list, first, nx, pv, ord) ==
  /\ IF first = EVENT_NULL THEN list = {} ELSE first \in list
  /\ \A x \in list : x # first => <<first, x>> \in ord
  /\ \A x \in list :
       IF nx[x] = EVENT_NULL
       THEN \A y \in list : <<x, y>> \notin ord
       ELSE /\ nx[x] \in list /\ <<x, nx[x]>> \in ord /\ pv[nx[x]] = x
            /\ \A y \in list : <<x, y>> \in ord => y = nx[x] \/ <<nx[x], y>> \in ord
  /\ \A x \in list :
       IF x = first THEN pv[x] = EVENT_NULL
       ELSE pv[x] \in list /\ nx[pv[x]] = x

Chained(list, first, tm, nx, pv, ord) ==
  IsOrder(list, ord) /\ Sorted(list, tm, ord) /\ Linked(list, first, nx, pv, ord)

ListOK(k, first) ==
  \E ord \in SUBSET (List(k) \X List(k)) : Chained(List(k), first, time, next, prev, ord)

(* No sequence of scheduling, rescheduling, cancelling and dispatching,    *)
(* also from inside a handler that is being dispatched, breaks the chains: *)
(* each pending event is on exactly the list of its type, the heads reach  *)
(* all of it in deadline order, and prev undoes next (cycInt.c:114-283).   *)
ListsOK == ListOK("CYCLES", nCyclesFirst) /\ ListOK("TIME", nTimeFirst)

(* In realtime mode the host clock is polled before the emulated time by   *)
(* which the first event is due: however an event came to be the first one *)
(* (scheduled, or left behind by a removal), the next poll is no further   *)
(* away than its distance from the last poll (cycInt.c:124-145, 213-215).  *)
PollInTime ==
  bRealtime /\ pc = "cpu" /\ nTimeFirst # EVENT_NULL =>
    LET diff == time[nTimeFirst] - nTimeNow
    IN  nCheckCycles <= nCyclesMainCounter +
          nCpuFreq * (IF diff < CHECK_INTERVAL THEN diff ELSE CHECK_INTERVAL)

(* The lists implement the abstract event queue: an event fires only when  *)
(* due, once, and never before an earlier event of its clock.              *)
EQ == INSTANCE EventQueue WITH
        NoEvent  <- EVENT_NULL,
        queue    <- [i \in Events |-> type[i]],
        deadline <- [i \in Events |-> IF type[i] = "NONE" THEN 0 ELSE time[i]],
        now      <- [c \in {"CYCLES", "TIME"} |->
                       IF c = "CYCLES" THEN nCyclesMainCounter ELSE nTimeNow],
        running  <- running

ImplementsEventQueue == EQ!Spec

(* No event is forgotten: every pending event is eventually dispatched or  *)
(* cancelled, in either mode, also one that is rescheduled for ever by its *)
(* own handler or shares its deadline with others (cycInt.c:114-146).      *)
EveryEventLeaves == \A i \in Events : type[i] # "NONE" ~> type[i] = "NONE"
=============================================================================
