------------------------------ MODULE CtlInput ------------------------------
(***************************************************************************)
(* The emulation thread's half of the control socket (src/src/ctlsock.c):  *)
(* CtlSock_Drain, called by Main_EventHandler 200 times a second, applies  *)
(* the queued verbs in order to the guest's keyboard, mouse and tablet.    *)
(*                                                                         *)
(* The keyboard and mouse share the one-report register of kms.c.  A       *)
(* report that arrives while the last one is unread sets KM_OVERRUN, and   *)
(* the guest's driver then discards both (the comments in ctlsock.c and    *)
(* kms.c; the guest itself is external).  The guest reads the register     *)
(* between two passes of the drain: later floors only matter once it does. *)
(*                                                                         *)
(* Abstractions: one screen axis; a time stamp is kept as its age, which   *)
(* saturates at the floor it is compared with ("never" is as old as that   *)
(* floor can see); SLAM stands for the 63 counts a report can carry.  The  *)
(* guest has polling enabled.  FBSYNC, NET and PING change no input state. *)
(***************************************************************************)
EXTENDS Integers, Sequences, FiniteSets

CONSTANTS
  Keys, Mods,            \* NeXT keycodes, NEXTKEY_MOD_* bits
  Commands,              \* what the reader thread may queue here
  CTL_QUEUE,             \* ring slots; one stays free
  PTR_MODE,              \* ctl_ptr_mode: "auto", "tablet" or "kms"
  Width,                 \* screen_w: positions are 0..Width-1
  SLAM,                  \* the largest motion one report carries
  PTR_STEP, PTR_SETTLE,  \* ctl_ptr_step, ctl_ptr_settle
  BTN_HOLD, BTN_GAP,     \* ctl_btn_hold, ctl_btn_gap
  KEY_HOLD, KEY_GAP      \* ctl_key_hold, ctl_key_gap

ASSUME InputAssumption ==
  /\ CTL_QUEUE \in Nat \ {0, 1}
  /\ PTR_MODE \in {"auto", "tablet", "kms"}
  /\ Width \in Nat \ {0} /\ SLAM \in Nat \ {0} /\ PTR_STEP \in 1..SLAM
  /\ {PTR_SETTLE, BTN_HOLD, BTN_GAP, KEY_HOLD, KEY_GAP} \subseteq Nat

VARIABLES
  q,                     \* the ring, ctl_head to ctl_tail
  pass,                  \* is a pass of the drain running?
  drained,               \* has a pass ended in this unit of time?
  mods, btns,            \* ctl_mods; ctl_btn_left and _right as a set
  tgt, cur,              \* ctl_tgt_x, ctl_cur_x
  homed, haveTarget, homeLeft,
  waitAge,               \* ctl_wait_since, -1 when 0
  reportAge,             \* ctl_report_last
  btnAge, keyAge, modAge,\* ctl_btn_down_at, ctl_key_down_at, ctl_mod_down_at
  tablet,                \* bTabletEnabled: the guest's tablet driver runs
  kmsBtns,               \* m_button_left and _right of kms.c
  reg,                   \* the KMS report register
  guest                  \* what the guest has been told

input  == <<mods, btns, tgt, cur, homed, haveTarget, homeLeft>>
ages   == <<waitAge, reportAge, btnAge, keyAge, modAge>>
device == <<tablet, kmsBtns, reg, guest>>
ivars  == <<q, pass, drained, input, ages, device>>

Positions == 0 .. Width - 1
Buttons   == 1 .. 3
(* The longer of the two gaps a report has to keep. *)
ReportGap == IF KEY_GAP < BTN_GAP THEN BTN_GAP ELSE KEY_GAP

Clamp(v, lo, hi) == IF v < lo THEN lo ELSE IF v > hi THEN hi ELSE v
ToScreen(v) == Clamp(v, 0, Width - 1)

(* Press adds e to the set of held things, release removes it. *)
Edge(set, e, down) == IF down = 1 THEN set \cup {e} ELSE set \ {e}

-----------------------------------------------------------------------------
(* The devices: kms.c, tablet.c, and the guest that reads them.            *)

Empty == [kind |-> "empty"]
Overrun == [kind |-> "overrun"]

(* kms_km_receive: a report on top of an unread one is an overrun. *)
KmReceive(r) == reg' = IF reg = Empty THEN r ELSE Overrun

(* The keycode NONE stands for a modifier's own edge. *)
KeyReport(down, key, m) == [kind |-> "key", down |-> down, key |-> key, mods |-> m]
MouseReport(d, b) == [kind |-> "mouse", d |-> d, btns |-> b]

(* The guest's driver takes the report and acts on it. *)
Taken ==
  CASE reg.kind = "key" ->
         [guest EXCEPT !.mods = reg.mods,
                       !.keys = IF reg.key = "NONE" THEN @ ELSE Edge(@, reg.key, reg.down)]
    [] reg.kind = "mouse" ->
         [guest EXCEPT !.pos = ToScreen(@ + reg.d), !.mouse = reg.btns]
    [] OTHER -> guest

UseTablet == PTR_MODE = "tablet" \/ (PTR_MODE = "auto" /\ tablet)

-----------------------------------------------------------------------------
(* What holds the head of the queue back.                                  *)

(* Mutant: the origin is enough, the motion left to do is not looked at. *)
SettledOnceHomed == UseTablet \/ ~haveTarget \/ homed

Settled ==
  \/ UseTablet
  \/ ~haveTarget
  \/ homed /\ homeLeft = 0 /\ cur = tgt

(* Mutant: modifiers are not paced. *)
PacedKeysOnly(c) ==
  \/ c.verb = "KEY" /\ reportAge < KEY_GAP
  \/ c.verb = "KEY" /\ c.b = 0 /\ keyAge[c.a] < KEY_HOLD
  \/ c.verb = "BTN" /\ c.a # 3 /\ reportAge < BTN_GAP
  \/ c.verb = "BTN" /\ c.b = 0 /\ btnAge[c.a] < BTN_HOLD

(* No report goes out within the gap of the last one, and no release within *)
(* the hold of its own press.                                              *)
Paced(c) ==
  \/ c.verb \in {"KEY", "MOD", "RELEASE"} /\ reportAge < KEY_GAP
  \/ c.verb = "KEY" /\ c.b = 0 /\ keyAge[c.a] < KEY_HOLD
  \/ c.verb = "MOD" /\ c.b = 0 /\ modAge[c.a] < KEY_HOLD
  \/ c.verb = "BTN" /\ c.a # 3 /\ reportAge < BTN_GAP
  \/ c.verb = "BTN" /\ c.b = 0 /\ btnAge[c.a] < BTN_HOLD

Unsettled(c) == ~Paced(c) /\ c.verb = "BTN" /\ ~Settled

(* Mutant: the window starts again in every pass. *)
WaitingAgain(c) == IF Unsettled(c) THEN 0 ELSE waitAge

(* ctl_wait_since after the guards have looked at c. *)
Waiting(c) == IF Unsettled(c) /\ waitAge = -1 THEN 0 ELSE waitAge

Held(c) == Paced(c) \/ (Unsettled(c) /\ Waiting(c) < PTR_SETTLE)

-----------------------------------------------------------------------------
(* ctl_apply, one action per verb.                                         *)

(* Enough slams to cross the screen from anywhere. *)
HomingSlamsShort == (Width - 1) \div SLAM    \* mutant: rounded down
HomingSlams == Width \div SLAM + 2

MoveA(c) ==
  /\ c.verb = "MOVEA"
  /\ tgt' = ToScreen(c.a)
  /\ haveTarget' = TRUE
  /\ IF UseTablet
     THEN /\ cur' = tgt'
          /\ guest' = [guest EXCEPT !.pos = tgt']
          /\ UNCHANGED homeLeft
     ELSE /\ homeLeft' = IF ~homed /\ homeLeft = 0 THEN HomingSlams ELSE homeLeft
          /\ UNCHANGED <<cur, guest>>
  /\ UNCHANGED <<mods, btns, homed, kmsBtns, reg, reportAge, btnAge, keyAge, modAge>>

MoveP(c) ==
  /\ c.verb = "MOVEP"
  /\ IF UseTablet
     THEN UNCHANGED <<cur, tgt, reg>>
     ELSE /\ cur' = ToScreen(cur + c.a)
          /\ tgt' = cur'
          /\ KmReceive(MouseReport(Clamp(c.a, -SLAM, SLAM), kmsBtns))
  /\ UNCHANGED <<mods, btns, homed, haveTarget, homeLeft, kmsBtns, guest,
                 reportAge, btnAge, keyAge, modAge>>

(* The middle button is stamped, but reported to nobody. *)
Btn(c) ==
  /\ c.verb = "BTN"
  /\ btnAge' = IF c.b = 1 THEN [btnAge EXCEPT ![c.a] = 0] ELSE btnAge
  /\ IF c.a = 3
     THEN UNCHANGED <<btns, reportAge, guest, kmsBtns, reg>>
     ELSE /\ btns' = Edge(btns, c.a, c.b)
          /\ reportAge' = 0
          /\ IF UseTablet
             THEN /\ guest' = [guest EXCEPT !.pen = btns']
                  /\ UNCHANGED <<kmsBtns, reg>>
             ELSE /\ kmsBtns' = btns'
                  /\ KmReceive(MouseReport(0, btns'))
                  /\ UNCHANGED guest
  /\ UNCHANGED <<mods, tgt, cur, homed, haveTarget, homeLeft, keyAge, modAge>>

Key(c) ==
  /\ c.verb = "KEY"
  /\ keyAge' = [keyAge EXCEPT ![c.a] = IF c.b = 1 THEN 0 ELSE KEY_HOLD]
  /\ KmReceive(KeyReport(c.b, c.a, mods))
  /\ reportAge' = 0
  /\ UNCHANGED <<input, kmsBtns, guest, btnAge, modAge>>

Mod(c) ==
  /\ c.verb = "MOD"
  /\ modAge' = [modAge EXCEPT ![c.a] = IF c.b = 1 THEN 0 ELSE KEY_HOLD]
  /\ mods' = Edge(mods, c.a, c.b)
  /\ KmReceive(KeyReport(c.b, "NONE", mods'))
  /\ reportAge' = 0
  /\ UNCHANGED <<btns, tgt, cur, homed, haveTarget, homeLeft, kmsBtns, guest,
                 btnAge, keyAge>>

(* The peer is gone: one report with no modifier, and every record cleared. *)
Release(c) ==
  /\ c.verb = "RELEASE"
  /\ keyAge' = [k \in Keys |-> KEY_HOLD]
  /\ modAge' = [m \in Mods |-> KEY_HOLD]
  /\ btnAge' = [b \in Buttons |-> BTN_HOLD]
  /\ mods' = {} /\ btns' = {}
  /\ KmReceive(KeyReport(0, "NONE", {}))
  /\ reportAge' = 0
  /\ UNCHANGED <<tgt, cur, homed, haveTarget, homeLeft, kmsBtns, guest>>

NoInput(c) ==
  /\ c.verb \in {"FBSYNC", "NET", "NOP"}
  /\ UNCHANGED <<input, reportAge, btnAge, keyAge, modAge, kmsBtns, reg, guest>>

Apply(c) ==
  /\ MoveA(c) \/ MoveP(c) \/ Btn(c) \/ Key(c) \/ Mod(c) \/ Release(c) \/ NoInput(c)
  /\ waitAge' = -1
  /\ UNCHANGED tablet

-----------------------------------------------------------------------------
(* The drain.  A pass applies heads until one is held or none is left, and *)
(* then moves the dead-reckoned pointer one report further.                *)

(* Between two passes the guest has read the register: every 5 ms of       *)
(* emulated time it is given the chance (an assumption on the guest).      *)
DrainBegin ==
  /\ ~pass /\ reg = Empty
  /\ pass' = TRUE
  /\ UNCHANGED <<q, drained, input, ages, device>>

DrainApply ==
  /\ pass
  /\ q # <<>> /\ ~Held(Head(q))
  /\ q' = Tail(q)
  /\ Apply(Head(q))
  /\ UNCHANGED <<pass, drained>>

PtrTick ==
  LET d == Clamp(tgt - cur, -PTR_STEP, PTR_STEP)
  IN  IF Settled THEN UNCHANGED <<cur, homed, homeLeft, reg>>
      ELSE IF homeLeft > 0
      THEN /\ KmReceive(MouseReport(-SLAM, kmsBtns))
           /\ homeLeft' = homeLeft - 1
           /\ cur' = IF homeLeft = 1 THEN 0 ELSE cur
           /\ homed' = (homed \/ homeLeft = 1)
      ELSE /\ IF d = 0 THEN UNCHANGED reg ELSE KmReceive(MouseReport(d, kmsBtns))
           /\ cur' = cur + d
           /\ UNCHANGED <<homed, homeLeft>>

DrainEnd ==
  /\ pass
  /\ q # <<>> => Held(Head(q))
  /\ waitAge' = IF q = <<>> THEN waitAge ELSE Waiting(Head(q))
  /\ PtrTick
  /\ pass' = FALSE /\ drained' = TRUE
  /\ UNCHANGED <<q, mods, btns, tgt, haveTarget, reportAge, btnAge, keyAge, modAge,
                 tablet, kmsBtns, guest>>

Drain == DrainBegin \/ DrainApply \/ DrainEnd

-----------------------------------------------------------------------------
(* The environment: the reader thread, the guest and the clock.            *)

HasRoom == Len(q) < CTL_QUEUE - 1

Push(c) ==
  /\ HasRoom
  /\ q' = Append(q, c)
  /\ UNCHANGED <<pass, drained, input, ages, device>>

(* A client that waits for each ack has its next verb applied in a later    *)
(* pass.                                                                   *)
PushAcked(c) == q = <<>> /\ ~pass /\ Push(c)

(* KMS_KM_Data_Read: the guest runs only between two passes. *)
GuestRead ==
  /\ ~pass /\ reg # Empty
  /\ guest' = Taken
  /\ reg' = Empty
  /\ UNCHANGED <<q, pass, drained, input, ages, tablet, kmsBtns>>

(* The guest starts or stops its tablet driver. *)
GuestTablet ==
  /\ ~pass
  /\ tablet' = ~tablet
  /\ UNCHANGED <<q, pass, drained, input, ages, kmsBtns, reg, guest>>

Older(n, floor) == IF n < floor THEN n + 1 ELSE floor

(* A pass takes microseconds (ctlsock.c:855), and there are several in one  *)
(* unit of time, the shortest floor: none of it passes within a pass, nor  *)
(* without one.                                                            *)
Tick ==
  /\ ~pass /\ drained
  /\ drained' = FALSE
  /\ waitAge' = IF waitAge = -1 THEN -1 ELSE Older(waitAge, PTR_SETTLE)
  /\ reportAge' = Older(reportAge, ReportGap)
  /\ btnAge' = [b \in Buttons |-> Older(btnAge[b], BTN_HOLD)]
  /\ keyAge' = [k \in Keys |-> Older(keyAge[k], KEY_HOLD)]
  /\ modAge' = [m \in Mods |-> Older(modAge[m], KEY_HOLD)]
  /\ UNCHANGED <<q, pass, input, device>>

(* The guest's pointer starts anywhere. *)
InputInit ==
  /\ q = <<>> /\ pass = FALSE /\ drained = FALSE
  /\ mods = {} /\ btns = {}
  /\ tgt = 0 /\ cur = 0
  /\ homed = FALSE /\ haveTarget = FALSE /\ homeLeft = 0
  /\ waitAge = -1 /\ reportAge = ReportGap
  /\ btnAge = [b \in Buttons |-> BTN_HOLD]
  /\ keyAge = [k \in Keys |-> KEY_HOLD]
  /\ modAge = [m \in Mods |-> KEY_HOLD]
  /\ tablet = FALSE /\ kmsBtns = {} /\ reg = Empty
  /\ \E p \in Positions :
       guest = [pos |-> p, keys |-> {}, mods |-> {}, mouse |-> {}, pen |-> {}]

InputNext ==
  \/ \E c \in Commands : PushAcked(c)
  \/ Drain \/ GuestRead \/ GuestTablet \/ Tick

(* One client that waits for its acks; CtlSock has those that do not.      *)
InputSpec == InputInit /\ [][InputNext]_ivars

-----------------------------------------------------------------------------
(* Properties. *)

InputTypeOK ==
  /\ Len(q) < CTL_QUEUE
  /\ pass \in BOOLEAN /\ drained \in BOOLEAN
  /\ mods \subseteq Mods /\ btns \subseteq {1, 2} /\ kmsBtns \subseteq {1, 2}
  /\ tgt \in Positions /\ cur \in Positions
  /\ homed \in BOOLEAN /\ haveTarget \in BOOLEAN /\ tablet \in BOOLEAN
  /\ homeLeft \in 0 .. HomingSlams
  /\ waitAge \in -1 .. PTR_SETTLE /\ reportAge \in 0 .. ReportGap
  /\ btnAge \in [Buttons -> 0 .. BTN_HOLD]
  /\ keyAge \in [Keys -> 0 .. KEY_HOLD] /\ modAge \in [Mods -> 0 .. KEY_HOLD]
  /\ guest.pos \in Positions /\ guest.keys \subseteq Keys

(* The head of the queue is a press that is about to reach the guest       *)
(* without having given up on the pointer.                                 *)
Clicking ==
  /\ pass /\ q # <<>> /\ ~Held(Head(q))
  /\ Head(q).verb = "BTN" /\ Head(q).b = 1 /\ Head(q).a # 3
  /\ ~Unsettled(Head(q))

(* "A button edge WAITS for convergence ... so a click cannot land at a    *)
(* stale position" (ctlsock.c:75-77): when a press is applied without the  *)
(* settle window having run out, the guest's own pointer is where the last *)
(* MOVEA put it.                                                           *)
ClickOnTarget == Clicking /\ haveTarget => guest.pos = tgt

(* The dead reckoning is right: once homed, what ctl_cur_x believes is     *)
(* where the guest's pointer will be after it has read the register.       *)
DeadReckoning == homed /\ ~pass => Taken.pos = cur

(* Two reports never meet in the register: a pass sends at most one, so    *)
(* none is lost to KM_OVERRUN (ctlsock.c:854-856).*)
NoOverrun == reg # Overrun
=============================================================================
