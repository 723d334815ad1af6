------------------------------- MODULE KeyPath -------------------------------
(***************************************************************************)
(* A key's way from the user to the guest: SDL's event queue, the main     *)
(* thread's handler and its shortcuts (gui-sdl/sdlevent.c, shortcut.c),    *)
(* the ring of sixteen events to the emulation thread, which takes one of  *)
(* them 200 times a second (Main_EventHandler), the key map, and the one-  *)
(* report register of kms.c.  Events are lost on this way: while the       *)
(* emulation is paused, when the ring is full, by a shortcut, by a         *)
(* register the guest does not poll or reads too late.                     *)
(*                                                                         *)
(* Abstractions: one modifier, which stands for the pair that makes a      *)
(* shortcut (Ctrl and Alt) and is carried by every report; the shortcut    *)
(* that matters here is pause; the mouse is a source of events that take   *)
(* a place in the ring and the register; a slot is blank once read.  The   *)
(* guest's driver, external, discards what it reads from a register with   *)
(* an overrun (kms.c 423-432).  Left out: the key combinations that reset  *)
(* or interrupt the machine (kms.c 324-385), the power key, repeated       *)
(* key-downs, and the ADB keyboard.                                        *)
(***************************************************************************)
EXTENDS Integers, Sequences, FiniteSets, SequencesExt

CONSTANTS
  Keys,             \* that are not modifiers
  PauseKey,         \* with the modifier: SHORTCUT_PAUSE
  MAX_EVENTS,       \* slots of the ring; one stays free
  MaxPresses,       \* bound: keys pressed by the user
  MaxOthers         \* bound: motions of the mouse, special events, resets of the machine

Modifier == "modifier"
None == "none"
Mouse == "mouse"
Pause == "pause"
Unpause == "unpause"

ASSUME KeyAssumption ==
  /\ PauseKey \in Keys /\ {Modifier, None, Mouse, Pause, Unpause} \cap Keys = {}
  /\ MAX_EVENTS \in Nat \ {0, 1}
  /\ {MaxPresses, MaxOthers} \subseteq Nat

VARIABLES
  held,             \* the keys the user holds
  sdlDown,          \* the keys SDL believes pressed
  sdlQueue,         \* SDL's event queue
  bEmulationActive,
  mainEvent, mainEventWrite, mainEventRead,    \* the ring
  emu,              \* Main_EventHandler: waiting for its time, or past the pause
  polled,           \* KMS_ENABLE and the poll mask: does the guest get reports?
  kmdata, received, overrun,   \* the register, KM_RECEIVED, KM_OVERRUN
  guest,            \* what the guest believes: keys pressed, modifier pressed
  lost,             \* keys the guest has been told less of than SDL
  pressed, others

user == <<held, sdlDown, pressed>>
ring == <<mainEvent, mainEventWrite, mainEventRead>>
kms  == <<polled, kmdata, received, overrun>>
vars == <<user, sdlQueue, bEmulationActive, ring, emu, kms, guest, lost, others>>

Slot == 0 .. MAX_EVENTS - 1
Event(k, down, m) == [key |-> k, down |-> down, mod |-> m]
NoEvent == Event(None, FALSE, FALSE)

Init ==
  /\ held = {} /\ sdlDown = {} /\ sdlQueue = <<>> /\ pressed = 0 /\ others = 0
  /\ bEmulationActive = TRUE
  /\ mainEvent = [i \in Slot |-> NoEvent] /\ mainEventWrite = 0 /\ mainEventRead = 0
  /\ emu = "wait"
  /\ polled = FALSE /\ kmdata = NoEvent /\ received = FALSE /\ overrun = FALSE
  /\ guest = [keys |-> {}, mod |-> FALSE] /\ lost = {}

-----------------------------------------------------------------------------
(* The user and SDL: an event has the modifier's state after it.           *)

UserKeeps == UNCHANGED <<bEmulationActive, ring, emu, kms, guest, lost>>

Press(k) ==
  /\ pressed < MaxPresses /\ k \notin held
  /\ held' = held \cup {k} /\ sdlDown' = sdlDown \cup {k}
  /\ sdlQueue' = Append(sdlQueue, Event(k, TRUE, Modifier \in sdlDown'))
  /\ pressed' = pressed + 1
  /\ UNCHANGED others /\ UserKeeps

(* SDL ignores the release of a key it does not believe pressed. *)
Release(k) ==
  /\ k \in held /\ held' = held \ {k} /\ sdlDown' = sdlDown \ {k}
  /\ sdlQueue' = IF k \in sdlDown THEN Append(sdlQueue, Event(k, FALSE, Modifier \in sdlDown'))
                 ELSE sdlQueue
  /\ UNCHANGED <<pressed, others>> /\ UserKeeps

Move ==
  /\ others < MaxOthers /\ others' = others + 1
  /\ sdlQueue' = Append(sdlQueue, Event(Mouse, FALSE, FALSE))
  /\ UNCHANGED <<held, sdlDown, pressed>> /\ UserKeeps

(* GuiEvent_SendSpecialEvent, called by another thread (i860dbg.cpp).      *)
GuiEvent_SendSpecialEvent(type) ==
  /\ others < MaxOthers /\ others' = others + 1
  /\ sdlQueue' = Append(sdlQueue, Event(type, FALSE, FALSE))
  /\ UNCHANGED <<user, bEmulationActive, ring, emu, kms, guest, lost>>

-----------------------------------------------------------------------------
(* The main thread: GuiEvent_EventHandler.                                 *)

Next1(i) == IF i + 1 >= MAX_EVENTS THEN 0 ELSE i + 1

(* An event is given up; a later one of the same key makes up for it.      *)
About(e) == IF e.key = Mouse THEN {} ELSE {e.key, Modifier} \ {None}
Lose(e)  == lost' = lost \cup About(e)
Keep(e)  == lost' = lost \ About(e)

(* GuiEvent_PutEventQueue. *)
Put(e) ==
  IF bEmulationActive /\ Next1(mainEventWrite) # mainEventRead
  THEN /\ mainEvent' = [mainEvent EXCEPT ![mainEventWrite] = e]
       /\ mainEventWrite' = Next1(mainEventWrite)
       /\ Keep(e) /\ UNCHANGED mainEventRead
  ELSE Lose(e) /\ UNCHANGED ring

(* SDL_ResetKeyboard: the letters' scan codes come before the modifiers'.  *)
KeyUps ==
  LET letters == SetToSeq(sdlDown \ {Modifier})
  IN  [i \in DOMAIN letters |-> Event(letters[i], FALSE, Modifier \in sdlDown)]
      \o (IF Modifier \in sdlDown THEN <<Event(Modifier, FALSE, FALSE)>> ELSE <<>>)

(* Mutant: SDL's keyboard is not reset. *)
GuiEvent_ResetKeysMagicOnly(rest) ==
  /\ sdlQueue' = rest \o <<Event(None, TRUE, TRUE), Event(None, FALSE, FALSE)>>
  /\ UNCHANGED sdlDown

(* Every key goes up, then control goes down and another key up without it. *)
GuiEvent_ResetKeys(rest) ==
  /\ sdlQueue' = rest \o KeyUps \o <<Event(None, TRUE, TRUE), Event(None, FALSE, FALSE)>>
  /\ sdlDown' = {}

Shortcut(e) == e.key = PauseKey /\ e.mod

(* Main_PauseEmulation and Main_UnPauseEmulation do nothing the second time. *)
PauseOrNot(active, rest) ==
  /\ bEmulationActive' = active
  /\ IF active /\ ~bEmulationActive THEN GuiEvent_ResetKeys(rest)
                                    ELSE sdlQueue' = rest /\ UNCHANGED sdlDown

(* The other half of a shortcut never gets to the guest either. *)
Handled(e, rest) ==
  CASE e.key \in {Pause, Unpause} ->
         PauseOrNot(e.key = Unpause, rest) /\ UNCHANGED <<ring, lost>>
    [] Shortcut(e) ->
         /\ PauseOrNot(IF e.down THEN ~bEmulationActive ELSE bEmulationActive, rest)
         /\ Lose(e) /\ UNCHANGED ring
    [] OTHER ->
         Put(e) /\ sdlQueue' = rest /\ UNCHANGED <<bEmulationActive, sdlDown>>

GuiEvent_EventHandler ==
  /\ sdlQueue # <<>>
  /\ Handled(Head(sdlQueue), Tail(sdlQueue))
  /\ UNCHANGED <<held, pressed, emu, kms, guest, others>>

-----------------------------------------------------------------------------
(* The emulation thread: Main_EventHandler, every five milliseconds.       *)

EmuKeeps == UNCHANGED <<user, sdlQueue, bEmulationActive, polled, guest, others>>

(* The pause is over, or there is none. *)
Wake ==
  /\ emu = "wait" /\ bEmulationActive
  /\ emu' = "take"
  /\ UNCHANGED <<ring, kmdata, received, overrun, lost>> /\ EmuKeeps

(* km_internal_poll and kms_km_receive: a register that was not read is    *)
(* overwritten.                                                            *)
kms_km_receive(e) ==
  IF polled
  THEN /\ kmdata' = e /\ received' = TRUE
       /\ overrun' = (overrun \/ received)
       /\ UNCHANGED lost
  ELSE Lose(e) /\ UNCHANGED <<kmdata, received, overrun>>

(* Mutant: the place of the next event is not kept. *)
TakeForgetful ==
  /\ emu = "take" /\ emu' = "wait"
  /\ IF mainEventRead # mainEventWrite
     THEN kms_km_receive(mainEvent[mainEventRead]) /\ UNCHANGED ring
     ELSE UNCHANGED <<ring, kmdata, received, overrun, lost>>
  /\ EmuKeeps

(* GuiEvent_EventQueueHandler with Keymap_KeyDown, Keymap_KeyUp and the    *)
(* mouse; then the handler waits for its next time.                        *)
GuiEvent_EventQueueHandler ==
  /\ emu = "take" /\ emu' = "wait"
  /\ IF mainEventRead # mainEventWrite
     THEN /\ mainEventRead' = Next1(mainEventRead)
          /\ mainEvent' = [mainEvent EXCEPT ![mainEventRead] = NoEvent]
          /\ kms_km_receive(mainEvent[mainEventRead])
          /\ UNCHANGED mainEventWrite
     ELSE UNCHANGED <<ring, kmdata, received, overrun, lost>>
  /\ EmuKeeps

-----------------------------------------------------------------------------
(* The guest.  Its driver reads the register, and clears an overrun with   *)
(* what it has discarded.                                                  *)

GuestKeeps ==
  UNCHANGED <<user, sdlQueue, bEmulationActive, ring, emu, polled, others>>

(* What a report tells: the modifier's state, and a key's edge. *)
Told(g, e) ==
  IF e.key = Mouse THEN g
  ELSE [keys |-> IF e.key \in {None, Modifier} THEN g.keys
                 ELSE IF e.down THEN g.keys \cup {e.key} ELSE g.keys \ {e.key},
        mod |-> e.mod]

KMS_KM_Data_Read ==
  /\ received /\ ~overrun
  /\ guest' = Told(guest, kmdata)
  /\ received' = FALSE /\ kmdata' = NoEvent
  /\ UNCHANGED <<overrun, lost>> /\ GuestKeeps

(* KMS_Ctrl_KM_Write of KM_OVERRUN: both reports are gone.                 *)
KMS_Ctrl_KM_Write ==
  /\ overrun
  /\ received' = FALSE /\ overrun' = FALSE /\ kmdata' = NoEvent
  /\ lost' = Keys \cup {Modifier}
  /\ UNCHANGED guest /\ GuestKeeps

(* The driver turns the register on and sets the mask of polled devices.   *)
GuestPolls ==
  /\ ~polled /\ polled' = TRUE
  /\ UNCHANGED <<user, sdlQueue, bEmulationActive, ring, emu, kmdata, received, overrun,
                 guest, lost, others>>

(* KMS_Reset, with a machine that starts again; the ring is not emptied.   *)
KMS_Reset ==
  /\ others < MaxOthers /\ others' = others + 1
  /\ polled' = FALSE /\ kmdata' = NoEvent /\ received' = FALSE /\ overrun' = FALSE
  /\ guest' = [keys |-> {}, mod |-> FALSE]
  /\ lost' = Keys \cup {Modifier}
  /\ UNCHANGED <<user, sdlQueue, bEmulationActive, ring, emu>>

User ==
  \/ \E k \in Keys \cup {Modifier} : Press(k) \/ Release(k)
  \/ Move
  \/ \E type \in {Pause, Unpause} : GuiEvent_SendSpecialEvent(type)
Main == GuiEvent_EventHandler
Emulation == Wake \/ GuiEvent_EventQueueHandler
GuestDriver == KMS_KM_Data_Read \/ KMS_Ctrl_KM_Write \/ GuestPolls

Next == User \/ Main \/ Emulation \/ GuestDriver \/ KMS_Reset

Spec == Init /\ [][Next]_vars

(* Both threads run, and the guest serves its interrupt.                   *)
FairSpec == Spec /\ WF_vars(Main) /\ WF_vars(Emulation) /\ WF_vars(GuestDriver)

-----------------------------------------------------------------------------
(* Every variable has its type. *)
Events == [key : Keys \cup {Modifier, None, Mouse, Pause, Unpause}, down : BOOLEAN, mod : BOOLEAN]

TypeOK ==
  /\ held \subseteq Keys \cup {Modifier} /\ sdlDown \subseteq held
  /\ \A i \in DOMAIN sdlQueue : sdlQueue[i] \in Events
  /\ mainEvent \in [Slot -> Events] /\ mainEventWrite \in Slot /\ mainEventRead \in Slot
  /\ emu \in {"wait", "take"} /\ kmdata \in Events
  /\ {bEmulationActive, polled, received, overrun} \subseteq BOOLEAN
  /\ guest \in [keys : SUBSET Keys, mod : BOOLEAN]
  /\ lost \subseteq Keys \cup {Modifier}

(* Nothing is on its way to the guest. *)
Quiet == sdlQueue = <<>> /\ mainEventRead = mainEventWrite /\ ~received

(* When nothing is under way, the guest's view of the keyboard is SDL's,   *)
(* but for the keys whose latest event was lost where the code gives       *)
(* events up.                                                              *)
GuestAgrees ==
  Quiet => /\ \A k \in Keys \ lost : (k \in guest.keys) = (k \in sdlDown)
           /\ Modifier \notin lost => guest.mod = (Modifier \in sdlDown)

(* Keys the user let go of come up in the guest.                           *)
KeysComeUp ==
  <>[](held = {} /\ bEmulationActive) => <>[](guest.keys \subseteq lost)
=============================================================================
