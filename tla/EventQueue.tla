----------------------------- MODULE EventQueue -----------------------------
(***************************************************************************)
(* What the emulator's event scheduler promises to the devices that use it *)
(* (the callers of src/src/cycInt.c): a device event is idle or pending on *)
(* one of two clocks, emulated CPU cycles or host microseconds.  A pending *)
(* event may be rescheduled or cancelled at any time.  Its handler is      *)
(* called only once its deadline has been reached, at most once for each   *)
(* time it was scheduled, never before an event of the same clock with an  *)
(* earlier deadline, and never inside another handler.                     *)
(*                                                                         *)
(* The specification constrains primed values instead of enumerating them, *)
(* so that it can be checked as a PROPERTY of an implementation.           *)
(***************************************************************************)
EXTENDS Integers

CONSTANTS Events,     \* the device events (event_id without EVENT_NULL)
          NoEvent     \* "no handler is running"

VARIABLES queue,      \* queue[i]: the clock event i waits for, or "NONE"
          deadline,   \* deadline[i]: its due time on that clock, 0 when idle
          now,        \* now[c]: the value of clock c last seen
          running     \* the event whose handler is running, or NoEvent

vars == <<queue, deadline, now, running>>

Clocks == {"CYCLES", "TIME"}

Init ==
  /\ queue    = [i \in Events |-> "NONE"]
  /\ deadline = [i \in Events |-> 0]
  /\ now      = [c \in Clocks |-> 0]
  /\ running  = NoEvent

(* A clock is read: it never runs backwards. *)
ClocksAdvance == \A c \in Clocks : now'[c] >= now[c]

Read ==
  /\ ClocksAdvance
  /\ UNCHANGED <<queue, deadline, running>>

(* Schedule or reschedule i, which may read the clocks again. *)
Schedule(i) ==
  /\ ClocksAdvance
  /\ queue'[i] \in Clocks
  /\ queue'    = [queue EXCEPT ![i] = queue'[i]]
  /\ deadline' = [deadline EXCEPT ![i] = deadline'[i]]
  /\ UNCHANGED running

Cancel(i) ==
  /\ queue'    = [queue EXCEPT ![i] = "NONE"]
  /\ deadline' = [deadline EXCEPT ![i] = 0]
  /\ UNCHANGED <<now, running>>

(* Only a due event fires, and only the earliest of its clock. *)
Fire(i) ==
  /\ running = NoEvent
  /\ queue[i] \in Clocks
  /\ deadline[i] <= now[queue[i]]
  /\ \A j \in Events : queue[j] = queue[i] => deadline[i] <= deadline[j]
  /\ running'  = i
  /\ queue'    = [queue EXCEPT ![i] = "NONE"]
  /\ deadline' = [deadline EXCEPT ![i] = 0]
  /\ UNCHANGED now

Return ==
  /\ running # NoEvent
  /\ running' = NoEvent
  /\ UNCHANGED <<queue, deadline, now>>

(* Cold reset: nothing is pending and both clocks restart. *)
Reset ==
  /\ queue'    = [i \in Events |-> "NONE"]
  /\ deadline' = [i \in Events |-> 0]
  /\ now'      = [c \in Clocks |-> 0]
  /\ UNCHANGED running

Next ==
  \/ Read
  \/ \E i \in Events : Schedule(i) \/ Cancel(i) \/ Fire(i)
  \/ Return
  \/ Reset

Spec == Init /\ [][Next]_vars
=============================================================================
