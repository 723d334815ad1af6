--------------------------- MODULE CtlInputProofs ---------------------------
(***************************************************************************)
(* What the control socket does to the guest's input, in both of the ways  *)
(* MCCtlInput looks at it, for every value of the constants.               *)
(*                                                                         *)
(* Pointer (CtlInput): the dead reckoning agrees with the guest's pointer, *)
(* and a click lands on its target, if the settle window is long enough    *)
(* for the slams and steps there can be.  The invariant says how far the   *)
(* pointer can still be from the corner, how many reports are left and how *)
(* much of the window, and that a pass with a report of its own is settled.*)
(*                                                                         *)
(* Hold (CtlSock): no report meets another one, if the gaps are not zero   *)
(* and nobody moves the pointer; and the guest holds nothing once the last *)
(* client has gone but what a release was dropped for, however full the    *)
(* ring was.  The invariant follows each press to the release that comes   *)
(* behind it.                                                              *)
(***************************************************************************)
EXTENDS MCCtlInput, FiniteSetTheorems, SequenceTheorems, TLAPS

-----------------------------------------------------------------------------
(* Pointer.                                                                *)

(* The clients only move the pointer to a place and click, the route does  *)
(* not change, and every slam and step fits into the settle window.        *)
Patient ==
  /\ \A c \in Commands :
       c.verb \in {"MOVEA", "BTN", "FBSYNC", "NET", "NOP"} /\ (c.verb = "MOVEA" => c.a \in Int)
  /\ PTR_MODE # "auto"
  /\ PTR_STEP * (PTR_SETTLE - HomingSlams) >= Width - 1

Placed ==
  /\ pass \in BOOLEAN /\ drained \in BOOLEAN
  /\ homed \in BOOLEAN /\ haveTarget \in BOOLEAN
  /\ tgt \in Positions /\ cur \in Positions
  /\ homeLeft \in 0 .. HomingSlams /\ waitAge \in -1 .. PTR_SETTLE
  /\ DOMAIN guest = {"pos", "keys", "mods", "mouse", "pen"} /\ guest.pos \in Positions

(* One verb at a time, and one report in a pass.                           *)
OneReport ==
  /\ q = <<>> \/ \E c \in Commands : q = <<c>>
  /\ reg = Empty \/ (reg.kind = "mouse" /\ reg.d \in -SLAM .. SLAM)
  /\ pass /\ reg # Empty => q = <<>> /\ Settled

(* Where the guest's pointer is, once the report is read.                  *)
Reckoned ==
  IF UseTablet
  THEN reg = Empty /\ ~homed /\ homeLeft = 0 /\ (haveTarget => guest.pos = tgt)
  ELSE /\ homed => Taken.pos = cur /\ homeLeft = 0
       /\ haveTarget => homed \/ homeLeft > 0
       /\ homeLeft > 0 => Taken.pos <= homeLeft * SLAM

(* The way that is left after the homing, and the passes there will be     *)
(* before the window closes.                                               *)
Way == IF homed THEN IF tgt < cur THEN cur - tgt ELSE tgt - cur ELSE tgt
Passes == PTR_SETTLE - waitAge - IF drained THEN 1 ELSE 0
InTime == waitAge >= 0 /\ ~Settled => Way <= PTR_STEP * (Passes - homeLeft)

PointerInv == Placed /\ OneReport /\ Reckoned /\ InTime

(* A product by a number of Nat is monotone. *)
LEMMA TimesOK ==
  ASSUME NEW d \in Nat, NEW m \in Int, NEW n \in Int, m <= n
  PROVE  d * m \in Int /\ d * n \in Int /\ d * m <= d * n
<1>1. d * m \in Int /\ d * n \in Int
  OBVIOUS
<1>2. PICK k \in Nat : n = m + k
  <2>1. n - m \in Nat /\ n = m + (n - m)
    OBVIOUS
  <2> QED
    BY <2>1
<1>3. d * (m + k) = d * m + d * k /\ d * k \in Nat
  BY <1>2
<1> QED
  BY <1>1, <1>2, <1>3

(* Enough slams cross the screen. *)
LEMMA SizesOK ==
  /\ Width \in Nat \ {0} /\ SLAM \in Nat \ {0} /\ PTR_STEP \in 1 .. SLAM
  /\ HomingSlams \in Nat /\ HomingSlams >= 2 /\ Width - 1 <= HomingSlams * SLAM
  /\ PTR_SETTLE \in Nat /\ 0 \in Positions
<1>1. Width \in Nat \ {0} /\ SLAM \in Nat \ {0} /\ PTR_STEP \in 1 .. SLAM /\ PTR_SETTLE \in Nat
  BY InputAssumption DEF InputAssumption
<1> DEFINE n == Width \div SLAM
           r == Width % SLAM
<1>2. n \in Nat /\ r \in 0 .. SLAM - 1 /\ Width = SLAM * n + r
  BY <1>1
<1>3. HomingSlams = n + 2
  BY DEF HomingSlams
<1> HIDE DEF n, r
<1>4. (n + 2) * SLAM = SLAM * n + SLAM + SLAM
  BY <1>1, <1>2
<1> QED
  BY <1>1, <1>2, <1>3, <1>4 DEF Positions

(* The numbers of the invariant. *)
LEMMA NumbersOK ==
  ASSUME Placed
  PROVE  /\ homeLeft \in Int /\ 0 <= homeLeft /\ homeLeft <= HomingSlams
         /\ waitAge \in Int /\ -1 <= waitAge /\ waitAge <= PTR_SETTLE
         /\ tgt \in Int /\ 0 <= tgt /\ tgt <= Width - 1
         /\ cur \in Int /\ 0 <= cur /\ cur <= Width - 1
         /\ Way \in Int /\ 0 <= Way /\ Way <= Width - 1
         /\ guest.pos \in Int
<1>1. HomingSlams \in Nat /\ PTR_SETTLE \in Nat /\ Width \in Nat \ {0}
  BY SizesOK
<1>2. homeLeft \in 0 .. HomingSlams /\ waitAge \in -1 .. PTR_SETTLE
  BY DEF Placed
<1>3. tgt \in 0 .. Width - 1 /\ cur \in 0 .. Width - 1 /\ guest.pos \in 0 .. Width - 1
  BY DEF Placed, Positions
<1>4. Way \in Int /\ 0 <= Way /\ Way <= Width - 1
  BY <1>1, <1>3 DEF Way
<1> QED
  BY <1>1, <1>2, <1>3, <1>4

LEMMA ClampOK ==
  \A v, lo, hi \in Int : lo <= hi => Clamp(v, lo, hi) \in lo .. hi
  BY DEF Clamp

LEMMA ScreenOK ==
  \A v \in Int : /\ ToScreen(v) \in Positions
                 /\ v \in Positions => ToScreen(v) = v
                 /\ ToScreen(v) <= v \/ ToScreen(v) = 0
<1>1. Width \in Nat \ {0}
  BY SizesOK
<1> QED
  BY <1>1 DEF ToScreen, Clamp, Positions

(* Where the guest's pointer is once it has read the register. *)
Landing == IF reg = Empty THEN guest.pos ELSE ToScreen(guest.pos + reg.d)

LEMMA TakenOK ==
  /\ Placed /\ OneReport => Taken.pos = Landing
  /\ Placed' /\ OneReport' => (Taken.pos)' = Landing'
<1>1. ASSUME Placed, OneReport PROVE Taken.pos = Landing
  BY <1>1 DEF Placed, OneReport, Taken, Landing, Empty
<1>2. ASSUME Placed', OneReport' PROVE (Taken.pos)' = Landing'
  BY <1>2 DEF Placed, OneReport, Taken, Landing, Empty
<1> QED
  BY <1>1, <1>2

(* Nothing the invariant looks at but the queue, the pass or the tablet's  *)
(* driver changes.                                                         *)
LEMMA AsideOK ==
  ASSUME Patient, PointerInv,
         UNCHANGED <<drained, tgt, cur, homed, haveTarget, homeLeft, waitAge, reg, guest>>,
         pass' \in BOOLEAN, pass' => pass \/ reg = Empty, ~pass \/ q' = q,
         q' = q \/ \E c \in Commands : q' = <<c>>
  PROVE  PointerInv'
<1>1. Placed' /\ InTime' /\ (UseTablet' <=> UseTablet) /\ (Settled' <=> Settled)
  BY DEF PointerInv, Placed, InTime, Way, Passes, Settled, UseTablet, Patient
<1>2. OneReport'
  BY <1>1 DEF PointerInv, OneReport
<1>3. (Taken.pos)' = Taken.pos
  BY <1>1, <1>2, TakenOK DEF PointerInv, Landing
<1>4. Reckoned'
  BY <1>1, <1>3 DEF PointerInv, Reckoned
<1> QED
  BY <1>1, <1>2, <1>4 DEF PointerInv

(* The guest reads. *)
LEMMA GuestReadOK ==
  ASSUME Patient, PointerInv, GuestRead
  PROVE  PointerInv'
<1>1. /\ UNCHANGED <<q, pass, drained, tgt, cur, homed, haveTarget, homeLeft, waitAge, tablet>>
      /\ guest' = Taken /\ reg' = Empty /\ reg # Empty
  BY DEF GuestRead, input, ages
<1>2. /\ Taken.pos = Landing /\ Taken.pos \in Positions
      /\ DOMAIN Taken = {"pos", "keys", "mods", "mouse", "pen"}
  <2>1. reg.kind = "mouse" /\ reg.d \in -SLAM .. SLAM /\ guest.pos \in Positions
    BY <1>1 DEF PointerInv, OneReport, Placed
  <2>2. Taken = [guest EXCEPT !.pos = ToScreen(@ + reg.d), !.mouse = reg.btns]
    BY <2>1 DEF Taken
  <2>3. guest.pos + reg.d \in Int
    BY <2>1, SizesOK DEF Positions
  <2> QED
    BY <1>1, <2>1, <2>2, <2>3, ScreenOK DEF Landing, PointerInv, Placed
<1>3. Placed' /\ InTime' /\ (UseTablet' <=> UseTablet) /\ (Settled' <=> Settled)
  BY <1>1, <1>2 DEF PointerInv, Placed, InTime, Way, Passes, Settled, UseTablet
<1>4. OneReport'
  BY <1>1, <1>3 DEF PointerInv, OneReport
<1>5. (Taken.pos)' = Taken.pos
  BY <1>1, <1>2, <1>3, <1>4, TakenOK DEF Landing
<1>6. Reckoned'
  BY <1>1, <1>3, <1>5 DEF PointerInv, Reckoned
<1> QED
  BY <1>3, <1>4, <1>6 DEF PointerInv

(* A unit of time goes by after a pass, which it stands for from now on. *)
LEMMA TickOK ==
  ASSUME Patient, PointerInv, Tick
  PROVE  PointerInv'
<1>1. /\ UNCHANGED <<q, pass, tgt, cur, homed, haveTarget, homeLeft, tablet, reg, guest>>
      /\ drained /\ drained' = FALSE /\ ~pass
      /\ waitAge' = IF waitAge = -1 THEN -1 ELSE Older(waitAge, PTR_SETTLE)
  BY DEF Tick, input, device
<1>2. waitAge \in -1 .. PTR_SETTLE /\ PTR_SETTLE \in Nat
  BY SizesOK DEF PointerInv, Placed
<1>3. /\ waitAge' \in -1 .. PTR_SETTLE /\ (waitAge' >= 0 <=> waitAge >= 0)
      /\ waitAge' >= 0 => waitAge' <= waitAge + 1
  BY <1>1, <1>2 DEF Older
<1>4. Placed' /\ (UseTablet' <=> UseTablet) /\ (Settled' <=> Settled) /\ Way' = Way
  BY <1>1, <1>3 DEF PointerInv, Placed, Settled, UseTablet, Way
<1>5. InTime'
  <2> SUFFICES ASSUME waitAge' >= 0, ~Settled
               PROVE  Way <= PTR_STEP * (PTR_SETTLE - waitAge' - homeLeft)
    BY <1>1, <1>2, <1>3, <1>4 DEF InTime, Passes, PointerInv, Placed
  <2>1. Way <= PTR_STEP * (PTR_SETTLE - waitAge - 1 - homeLeft)
    BY <1>1, <1>3 DEF PointerInv, InTime, Passes
  <2>2. PICK a \in Int, b \in Int :
          a = PTR_SETTLE - waitAge - 1 - homeLeft /\ b = PTR_SETTLE - waitAge' - homeLeft
    BY <1>2, <1>3, NumbersOK DEF PointerInv
  <2>3. PTR_STEP \in Nat
    BY SizesOK
  <2>4. a <= b
    BY <1>2, <1>3, <2>2, NumbersOK DEF PointerInv
  <2>5. Way \in Int
    BY NumbersOK DEF PointerInv
  <2>6. PTR_STEP * a \in Int /\ PTR_STEP * b \in Int /\ PTR_STEP * a <= PTR_STEP * b
    BY <2>3, <2>4, TimesOK
  <2>7. Way <= PTR_STEP * a
    BY <2>1, <2>2
  <2>8. Way <= PTR_STEP * b
    BY <2>5, <2>6, <2>7
  <2> QED
    BY <2>2, <2>8
<1>6. OneReport'
  BY <1>1, <1>4 DEF PointerInv, OneReport
<1>7. (Taken.pos)' = Taken.pos
  BY <1>1, <1>4, <1>6, TakenOK DEF PointerInv, Landing
<1>8. Reckoned'
  BY <1>1, <1>4, <1>7 DEF PointerInv, Reckoned
<1> QED
  BY <1>4, <1>5, <1>6, <1>8 DEF PointerInv

(* A button edge is applied to a pointer that has arrived: the window does *)
(* not close before.                                                       *)
LEMMA ClickSettled ==
  ASSUME Patient, PointerInv, NEW c, c.verb = "BTN", ~Held(c)
  PROVE  Settled
<1> SUFFICES ASSUME ~Settled PROVE FALSE
  OBVIOUS
<1>1. Waiting(c) >= PTR_SETTLE
  <2>1. Unsettled(c)
    BY DEF Held, Unsettled
  <2>2. Waiting(c) \in Int
    BY NumbersOK DEF Waiting, PointerInv
  <2> QED
    BY <2>1, <2>2, SizesOK DEF Held
<1>2. CASE waitAge = -1
  <2>1. PTR_SETTLE = 0
    BY <1>1, <1>2, SizesOK DEF Waiting, Unsettled, Held
  <2>2. PTR_STEP * (0 - HomingSlams) >= Width - 1
    BY <2>1 DEF Patient
  <2>3. PTR_STEP * (-1) >= PTR_STEP * (0 - HomingSlams) /\ PTR_STEP * (-1) = -PTR_STEP
    BY SizesOK, TimesOK
  <2> QED
    BY <2>2, <2>3, SizesOK
<1>3. CASE waitAge # -1
  <2>1. waitAge = PTR_SETTLE
    BY <1>1, <1>3, NumbersOK, SizesOK DEF Waiting, PointerInv
  <2>2. Way <= PTR_STEP * (Passes - homeLeft)
    BY <1>3, NumbersOK DEF PointerInv, InTime
  <2>3. PICK a \in Int : a = Passes - homeLeft /\ a <= 0 /\ (homeLeft > 0 => a <= -1)
    BY <2>1, NumbersOK, SizesOK DEF Passes, PointerInv
  <2>4. PTR_STEP * 0 = 0 /\ PTR_STEP * (-1) = -PTR_STEP /\ PTR_STEP * a <= PTR_STEP * 0
        /\ (homeLeft > 0 => PTR_STEP * a <= PTR_STEP * (-1)) /\ PTR_STEP * a \in Int
    BY <2>3, SizesOK, TimesOK
  <2>5. Way <= PTR_STEP * a
    BY <2>2, <2>3
  <2>6. homeLeft = 0 /\ Way = 0
    BY <2>4, <2>5, NumbersOK, SizesOK DEF PointerInv
  <2>7. ~UseTablet /\ haveTarget /\ homed
    BY <2>6 DEF Settled, PointerInv, Reckoned
  <2>8. cur = tgt
    BY <2>6, <2>7, NumbersOK DEF Way, PointerInv
  <2> QED
    BY <2>6, <2>7, <2>8 DEF Settled
<1> QED
  BY <1>2, <1>3

(* A verb, the only one of its pass, is applied.                           *)
LEMMA ApplyOK ==
  ASSUME Patient, PointerInv, DrainApply
  PROVE  PointerInv'
<1> DEFINE c == Head(q)
<1>1. /\ pass /\ q # <<>> /\ ~Held(c) /\ q' = Tail(q) /\ Apply(c)
      /\ UNCHANGED <<pass, drained, tablet>> /\ waitAge' = -1
  BY DEF DrainApply, Apply
<1>2. c \in Commands /\ q' = <<>>
  <2>1. PICK d \in Commands : q = <<d>>
    BY <1>1 DEF PointerInv, OneReport
  <2>2. Head(<<d>>) = d /\ Tail(<<d>>) = <<>>
    OBVIOUS
  <2> QED
    BY <1>1, <2>1, <2>2
<1>3. reg = Empty /\ Taken.pos = guest.pos
  BY <1>1, TakenOK DEF PointerInv, OneReport, Landing
<1> HIDE DEF c
<1>4. MoveA(c) \/ Btn(c) \/ NoInput(c)
  BY <1>1, <1>2 DEF Apply, Patient, MoveP, Key, Mod, Release
<1>5. InTime' /\ (UseTablet' <=> UseTablet)
  BY <1>1 DEF InTime, UseTablet
<1>6. CASE MoveA(c)
  <2>1. tgt' = ToScreen(c.a) /\ haveTarget' = TRUE /\ UNCHANGED <<homed, reg>>
    BY <1>6 DEF MoveA
  <2>2. tgt' \in Positions
    BY <1>2, <1>6, <2>1, ScreenOK DEF Patient, MoveA
  <2>3. CASE UseTablet
    <3>1. /\ cur' = tgt' /\ guest' = [guest EXCEPT !.pos = tgt'] /\ homeLeft' = homeLeft
      BY <1>6, <2>3 DEF MoveA
    <3>2. Placed' /\ guest'.pos = tgt'
      BY <1>1, <2>1, <2>2, <3>1, SizesOK DEF PointerInv, Placed
    <3>3. OneReport' /\ Reckoned'
      BY <1>2, <1>3, <1>5, <2>1, <2>3, <3>1, <3>2 DEF PointerInv, OneReport, Reckoned
    <3> QED
      BY <1>5, <3>2, <3>3 DEF PointerInv
  <2>4. CASE ~UseTablet
    <3>1. /\ cur' = cur /\ guest' = guest
          /\ homeLeft' = IF ~homed /\ homeLeft = 0 THEN HomingSlams ELSE homeLeft
      BY <1>6, <2>4 DEF MoveA
    <3>2. Placed' /\ OneReport'
      BY <1>1, <1>2, <1>3, <2>1, <2>2, <3>1, SizesOK DEF PointerInv, Placed, OneReport
    <3>3. (Taken.pos)' = Taken.pos
      BY <1>3, <2>1, <3>1, <3>2, TakenOK DEF Landing
    <3>4. Taken.pos <= HomingSlams * SLAM
      <4>1. guest.pos \in Int /\ guest.pos <= Width - 1 /\ HomingSlams * SLAM \in Int
        BY SizesOK DEF PointerInv, Placed, Positions
      <4> QED
        BY <1>3, <4>1, SizesOK
    <3>5. Reckoned'
      BY <1>5, <2>1, <2>4, <3>1, <3>3, <3>4, SizesOK, NumbersOK DEF PointerInv, Reckoned
    <3> QED
      BY <1>5, <3>2, <3>5 DEF PointerInv
  <2> QED
    BY <2>3, <2>4
<1>7. ASSUME UNCHANGED <<tgt, cur, homed, haveTarget, homeLeft>>,
             UNCHANGED guest \/ (UseTablet /\ guest' = [guest EXCEPT !.pen = btns']),
             reg' = Empty \/ (~UseTablet /\ Settled /\ reg' = MouseReport(0, btns'))
      PROVE  PointerInv'
  <2>1. Placed' /\ (Settled' <=> Settled) /\ guest'.pos = guest.pos
    BY <1>1, <1>5, <1>7, SizesOK DEF PointerInv, Placed, Settled
  <2>2. OneReport'
    BY <1>2, <1>7, <2>1, SizesOK DEF OneReport, MouseReport
  <2>3. (Taken.pos)' = Taken.pos
    <3>1. reg' # Empty => ToScreen(guest.pos + 0) = guest.pos /\ reg'.d = 0
      BY <1>7, ScreenOK, NumbersOK DEF MouseReport, PointerInv, Placed
    <3> QED
      BY <1>3, <1>7, <2>1, <2>2, <3>1, TakenOK DEF Landing
  <2>4. Reckoned'
    BY <1>5, <1>7, <2>1, <2>3 DEF PointerInv, Reckoned
  <2> QED
    BY <1>5, <2>1, <2>2, <2>4 DEF PointerInv
<1>8. CASE Btn(c)
  <2>1. Settled
    BY <1>1, <1>8, ClickSettled DEF Btn
  <2> QED
    BY <1>3, <1>7, <1>8, <2>1 DEF Btn, KmReceive
<1>9. CASE NoInput(c)
  BY <1>3, <1>7, <1>9 DEF NoInput, input
<1> QED
  BY <1>4, <1>6, <1>8, <1>9

(* What the motion of a pass has done. *)
Slammed == Way' = Way /\ homeLeft' = homeLeft - 1
Stepped == homeLeft = 0 /\ homeLeft' = 0 /\ (Settled' \/ Way' = Way - PTR_STEP)

(* A slam: at the last one the pointer is in the corner. *)
LEMMA SlamOK ==
  ASSUME Patient, PointerInv, pass, ~Settled, homeLeft > 0, PtrTick,
         UNCHANGED <<q, tgt, haveTarget, guest>>, PTR_MODE # "auto", Placed', pass' = FALSE
  PROVE  OneReport' /\ Reckoned' /\ Slammed
<1>1. ~UseTablet /\ ~UseTablet' /\ haveTarget /\ ~homed /\ reg = Empty
  BY DEF Settled, PointerInv, OneReport, Reckoned, UseTablet
<1>2. /\ reg' = MouseReport(-SLAM, kmsBtns) /\ homeLeft' = homeLeft - 1
      /\ cur' = IF homeLeft = 1 THEN 0 ELSE cur
      /\ homed' <=> homeLeft = 1
  BY <1>1 DEF PtrTick, KmReceive, Placed
<1>3. reg'.kind = "mouse" /\ reg'.d = -SLAM /\ reg' # Empty
  BY <1>2 DEF MouseReport, Empty
<1>4. OneReport'
  BY <1>3, SizesOK DEF PointerInv, OneReport
<1>5. guest.pos <= homeLeft * SLAM /\ guest.pos \in Int
  BY <1>1, TakenOK, NumbersOK DEF PointerInv, Reckoned, Landing
<1>6. (Taken.pos)' = ToScreen(guest.pos - SLAM)
  <2>1. guest.pos + (-SLAM) = guest.pos - SLAM
    BY <1>5, SizesOK
  <2> QED
    BY <1>3, <1>4, <2>1, TakenOK DEF Landing
<1>7. /\ guest.pos - SLAM \in Int /\ homeLeft * SLAM \in Int
      /\ (homeLeft - 1) * SLAM = homeLeft * SLAM - SLAM
      /\ homeLeft = 1 => homeLeft * SLAM = SLAM
  BY <1>5, SizesOK, NumbersOK DEF PointerInv
<1>8. CASE homeLeft = 1
  <2>1. guest.pos - SLAM <= 0
    BY <1>5, <1>7, <1>8, SizesOK
  <2>2. ToScreen(guest.pos - SLAM) = 0
    BY <1>7, <2>1, SizesOK DEF ToScreen, Clamp
  <2>3. homed' /\ cur' = 0 /\ homeLeft' = 0
    BY <1>2, <1>8
  <2>4. Way' = Way
    BY <1>1, <2>3, NumbersOK DEF Way, PointerInv
  <2> QED
    BY <1>1, <1>2, <1>4, <1>6, <2>2, <2>3, <2>4 DEF Reckoned, Slammed
<1>9. CASE homeLeft # 1
  <2>1. ~homed' /\ homeLeft' > 0
    BY <1>1, <1>2, <1>9, NumbersOK DEF PointerInv
  <2>2. ToScreen(guest.pos - SLAM) <= homeLeft' * SLAM
    <3>1. 0 <= (homeLeft - 1) * SLAM
      <4>1. 1 <= homeLeft - 1 /\ homeLeft - 1 \in Int /\ SLAM \in Nat
        BY <1>9, SizesOK, NumbersOK DEF PointerInv
      <4>2. SLAM * 1 <= SLAM * (homeLeft - 1) /\ SLAM * (homeLeft - 1) = (homeLeft - 1) * SLAM
        BY <4>1, TimesOK
      <4> QED
        BY <4>1, <4>2
    <3>2. ToScreen(guest.pos - SLAM) \in Int
      BY <1>7, ScreenOK, SizesOK DEF Positions
    <3> QED
      BY <1>2, <1>5, <1>7, <3>1, <3>2, ScreenOK, SizesOK
  <2>3. Way' = Way
    BY <1>1, <2>1 DEF Way
  <2> QED
    BY <1>1, <1>2, <1>4, <1>6, <2>1, <2>2, <2>3 DEF Reckoned, Slammed
<1> QED
  BY <1>2, <1>8, <1>9 DEF Slammed

(* A step towards the target.                                              *)
LEMMA StepOK ==
  ASSUME Patient, PointerInv, pass, ~Settled, homeLeft = 0, PtrTick,
         UNCHANGED <<q, tgt, haveTarget, guest>>, PTR_MODE # "auto", Placed', pass' = FALSE
  PROVE  OneReport' /\ Reckoned' /\ Stepped
<1>1. ~UseTablet /\ ~UseTablet' /\ haveTarget /\ homed /\ reg = Empty
  BY DEF Settled, PointerInv, OneReport, Reckoned, UseTablet
<1> DEFINE d == Clamp(tgt - cur, -PTR_STEP, PTR_STEP)
<1>2. /\ cur' = cur + d /\ UNCHANGED <<homed, homeLeft>>
      /\ reg' = IF d = 0 THEN reg ELSE MouseReport(d, kmsBtns)
  BY <1>1 DEF PtrTick, KmReceive
<1>3. /\ tgt \in Int /\ cur \in Int /\ tgt # cur
      /\ 0 <= tgt /\ tgt <= Width - 1 /\ 0 <= cur /\ cur <= Width - 1
  BY <1>1, NumbersOK DEF PointerInv, Settled
<1>4. /\ d \in Int /\ d # 0 /\ d \in -SLAM .. SLAM /\ 0 <= cur + d /\ cur + d <= Width - 1
      /\ d = tgt - cur \/ (d = PTR_STEP /\ cur + d < tgt) \/ (d = -PTR_STEP /\ tgt < cur + d)
  BY <1>3, SizesOK DEF Clamp
<1> HIDE DEF d
<1>5. reg'.kind = "mouse" /\ reg'.d = d /\ reg' # Empty
  BY <1>2, <1>4 DEF MouseReport, Empty
<1>6. OneReport'
  BY <1>4, <1>5 DEF PointerInv, OneReport
<1>7. guest.pos = cur
  BY <1>1, TakenOK DEF PointerInv, Reckoned, Landing
<1>8. (Taken.pos)' = cur + d
  <2>1. (Taken.pos)' = ToScreen(cur + d)
    BY <1>5, <1>6, <1>7, TakenOK DEF Landing
  <2>2. cur + d \in Positions /\ cur + d \in Int
    BY <1>3, <1>4 DEF Positions
  <2> QED
    BY <2>1, <2>2, ScreenOK
<1>9. Reckoned'
  BY <1>1, <1>2, <1>8 DEF Reckoned
<1>10. Settled' \/ Way' = Way - PTR_STEP
  <2>1. CASE d = tgt - cur
    BY <1>1, <1>2, <1>3, <2>1 DEF Settled
  <2>2. CASE d # tgt - cur
    BY <1>1, <1>2, <1>3, <1>4, <2>2, SizesOK DEF Way
  <2> QED
    BY <2>1, <2>2
<1> QED
  BY <1>2, <1>6, <1>9, <1>10 DEF Stepped

(* The window is long enough, and each pass takes as much from the way as  *)
(* from what is left of the window.                                        *)
LEMMA PassInTime ==
  ASSUME Patient, PointerInv, Placed', ~Settled, waitAge' \in {waitAge, 0},
         waitAge = -1 \/ waitAge' = waitAge, drained' = TRUE,
         Slammed \/ Stepped
  PROVE  InTime'
<1> SUFFICES ASSUME waitAge' >= 0, ~Settled'
             PROVE  Way' <= PTR_STEP * (Passes' - homeLeft')
  BY DEF InTime
<1>1. /\ homeLeft' \in Int /\ 0 <= homeLeft' /\ homeLeft' <= HomingSlams - 1
      /\ Way' \in Int /\ Way' <= Width - 1
  <2>1. homeLeft' \in 0 .. HomingSlams /\ tgt' \in 0 .. Width - 1 /\ cur' \in 0 .. Width - 1
    BY DEF Placed, Positions
  <2>2. Way' \in Int /\ Way' <= Width - 1
    <3>1. PICK t \in Int, c \in Int, n \in Int :
            n = Width - 1 /\ t = tgt' /\ c = cur' /\ 0 <= t /\ t <= n /\ 0 <= c /\ c <= n
      BY <2>1, SizesOK
    <3>2. Way' = c - t \/ Way' = t - c \/ Way' = t
      BY <3>1 DEF Way
    <3>3. c - t \in Int /\ t - c \in Int /\ c - t <= n /\ t - c <= n
      BY <3>1
    <3> QED
      BY <3>1, <3>2, <3>3, Zenon
  <2>3. homeLeft' <= HomingSlams - 1
    <3>1. homeLeft' = homeLeft - 1 \/ (homeLeft' = homeLeft /\ homeLeft = 0)
      BY DEF Slammed, Stepped
    <3> QED
      BY <3>1, SizesOK, NumbersOK DEF PointerInv
  <2> QED
    BY <2>1, <2>2, <2>3, SizesOK
<1>2. PTR_STEP \in Nat /\ PTR_SETTLE \in Nat /\ HomingSlams \in Nat
  BY SizesOK
<1>3. PICK h \in Int, w \in Int, b \in Int :
        h = homeLeft' /\ w = waitAge' /\ PTR_SETTLE = b + w + 1 + h /\ b = Passes' - homeLeft'
  BY <1>1, <1>2, NumbersOK DEF PointerInv, Passes
<1>4. CASE waitAge = -1
  <2>1. w = 0 /\ h <= HomingSlams - 1
    BY <1>1, <1>3, <1>4
  <2>2. PTR_SETTLE - HomingSlams <= b /\ PTR_SETTLE - HomingSlams \in Int
    BY <1>2, <1>3, <2>1
  <2>3. PTR_STEP * (PTR_SETTLE - HomingSlams) <= PTR_STEP * b
        /\ PTR_STEP * (PTR_SETTLE - HomingSlams) \in Int /\ PTR_STEP * b \in Int
    BY <1>2, <2>2, TimesOK
  <2>4. Width - 1 <= PTR_STEP * (PTR_SETTLE - HomingSlams)
    BY SizesOK, <2>3 DEF Patient
  <2>5. Way' <= PTR_STEP * b
    BY <1>1, <2>3, <2>4, SizesOK
  <2> QED
    BY <1>3, <2>5
<1>5. CASE waitAge # -1
  <2>1. waitAge' = waitAge /\ waitAge >= 0
    BY <1>5
  <2>2. PICK a \in Int : a = Passes - homeLeft
    BY <1>2, NumbersOK DEF PointerInv, Passes
  <2>3. Way <= PTR_STEP * a /\ Way \in Int
    BY <2>1, <2>2, NumbersOK DEF PointerInv, InTime
  <2>4. a - 1 - homeLeft' + homeLeft <= b
    BY <1>1, <1>2, <1>3, <2>1, <2>2, NumbersOK DEF PointerInv, Passes
  <2>5. CASE Slammed
    <3>1. a <= b
      BY <1>1, <2>4, <2>5, NumbersOK DEF PointerInv, Slammed
    <3>2. PTR_STEP * a <= PTR_STEP * b /\ PTR_STEP * a \in Int /\ PTR_STEP * b \in Int
      BY <1>2, <3>1, TimesOK
    <3>3. Way' <= PTR_STEP * b
      BY <2>3, <2>5, <3>2 DEF Slammed
    <3> QED
      BY <1>3, <3>3
  <2>6. CASE Stepped
    <3>1. a - 1 <= b /\ a - 1 \in Int
      BY <1>1, <2>4, <2>6, NumbersOK DEF PointerInv, Stepped
    <3>2. PTR_STEP * (a - 1) <= PTR_STEP * b /\ PTR_STEP * b \in Int
          /\ PTR_STEP * (a - 1) = PTR_STEP * a - PTR_STEP /\ PTR_STEP * a \in Int
      BY <1>2, <3>1, TimesOK
    <3>3. Way' <= PTR_STEP * b
      BY <1>2, <2>3, <2>6, <3>2 DEF Stepped
    <3> QED
      BY <1>3, <3>3
  <2> QED
    BY <2>5, <2>6
<1> QED
  BY <1>4, <1>5

(* The end of a pass, with its motion.                                     *)
LEMMA DrainEndOK ==
  ASSUME Patient, PointerInv, DrainEnd
  PROVE  PointerInv'
<1>1. /\ pass /\ pass' = FALSE /\ drained' = TRUE /\ PtrTick
      /\ UNCHANGED <<q, tgt, haveTarget, guest, tablet>>
      /\ waitAge' = IF q = <<>> THEN waitAge ELSE Waiting(Head(q))
  BY DEF DrainEnd
<1>2. /\ waitAge' \in {waitAge, 0} /\ (waitAge = -1 \/ waitAge' = waitAge)
      /\ waitAge' \in -1 .. PTR_SETTLE
  BY <1>1, SizesOK, NumbersOK DEF Waiting, PointerInv
<1>3. CASE Settled
  <2>1. UNCHANGED <<cur, homed, homeLeft, reg>>
    BY <1>1, <1>3 DEF PtrTick
  <2>2. Placed' /\ Settled' /\ (UseTablet' <=> UseTablet)
    BY <1>1, <1>2, <1>3, <2>1 DEF PointerInv, Placed, Settled, UseTablet
  <2>3. OneReport'
    BY <1>1, <2>1 DEF PointerInv, OneReport
  <2>4. (Taken.pos)' = Taken.pos
    BY <1>1, <2>1, <2>2, <2>3, TakenOK DEF PointerInv, Landing
  <2>5. Reckoned' /\ InTime'
    BY <1>1, <2>1, <2>2, <2>4 DEF PointerInv, Reckoned, InTime
  <2> QED
    BY <2>2, <2>3, <2>5 DEF PointerInv
<1>4. CASE ~Settled
  <2>1. Placed'
    <3>1. cur' \in Positions
      <4>1. tgt \in Int /\ cur \in Int /\ 0 <= tgt /\ tgt <= Width - 1 /\ 0 <= cur /\ cur <= Width - 1
        BY NumbersOK DEF PointerInv
      <4>2. cur' = cur \/ cur' = 0 \/ cur' = cur + Clamp(tgt - cur, -PTR_STEP, PTR_STEP)
        BY <1>1 DEF PtrTick
      <4> QED
        BY <4>1, <4>2, SizesOK DEF Clamp, Positions
    <3>2. homed' \in BOOLEAN /\ homeLeft' \in 0 .. HomingSlams
      <4>1. homed \in BOOLEAN /\ homeLeft \in 0 .. HomingSlams
        BY DEF PointerInv, Placed
      <4>4. HomingSlams \in Nat
        BY SizesOK
      <4>2. homed' = homed \/ homed' = TRUE \/ homed' = (homed \/ homeLeft = 1)
        BY <1>1, <1>4 DEF PtrTick
      <4>3. homeLeft' = homeLeft \/ (homeLeft > 0 /\ homeLeft' = homeLeft - 1)
        BY <1>1, <1>4 DEF PtrTick
      <4>5. homed' \in BOOLEAN
        BY <4>1, <4>2
      <4> QED
        BY <4>1, <4>3, <4>4, <4>5
    <3> QED
      BY <1>1, <1>2, <3>1, <3>2 DEF PointerInv, Placed
  <2>2. CASE homeLeft > 0
    <3>1. OneReport' /\ Reckoned' /\ Slammed
      BY <1>1, <1>4, <2>1, <2>2, SlamOK DEF Patient
    <3>2. InTime'
      BY <1>1, <1>2, <1>4, <2>1, <3>1, PassInTime
    <3> QED
      BY <2>1, <3>1, <3>2 DEF PointerInv
  <2>3. CASE homeLeft = 0
    <3>1. OneReport' /\ Reckoned' /\ Stepped
      BY <1>1, <1>4, <2>1, <2>3, StepOK DEF Patient
    <3>2. InTime'
      BY <1>1, <1>2, <1>4, <2>1, <2>3, <3>1, PassInTime
    <3> QED
      BY <2>1, <3>1, <3>2 DEF PointerInv
  <2> QED
    BY <2>2, <2>3, NumbersOK DEF PointerInv
<1> QED
  BY <1>3, <1>4

(* Every step of the drain and around it preserves the invariant.          *)
LEMMA PointerStep == Patient /\ PointerInv /\ [InputNext]_ivars => PointerInv'
<1> SUFFICES ASSUME Patient, PointerInv, [InputNext]_ivars PROVE PointerInv'
  OBVIOUS
<1>1. CASE DrainBegin
  BY <1>1, AsideOK DEF DrainBegin, input, ages, device
<1>2. CASE DrainApply
  BY <1>2, ApplyOK
<1>3. CASE DrainEnd
  BY <1>3, DrainEndOK
<1>4. ASSUME NEW c \in Commands, PushAcked(c) PROVE PointerInv'
  <2>1. q' = <<c>>
    BY <1>4 DEF PushAcked, Push
  <2> QED
    BY <1>4, <2>1, AsideOK DEF PushAcked, Push, input, ages, device, PointerInv, Placed
<1>5. CASE GuestRead
  BY <1>5, GuestReadOK
<1>6. CASE GuestTablet
  BY <1>6, AsideOK DEF GuestTablet, input, ages, PointerInv, Placed
<1>7. CASE Tick
  BY <1>7, TickOK
<1>8. CASE UNCHANGED ivars
  BY <1>8, AsideOK DEF ivars, input, ages, device, PointerInv, Placed
<1> QED
  BY <1>1, <1>2, <1>3, <1>4, <1>5, <1>6, <1>7, <1>8 DEF InputNext, Drain

LEMMA PointerStart == InputInit => PointerInv
<1> SUFFICES ASSUME InputInit PROVE PointerInv
  OBVIOUS
<1>1. PICK p \in Positions :
        guest = [pos |-> p, keys |-> {}, mods |-> {}, mouse |-> {}, pen |-> {}]
  BY DEF InputInit
<1>2. /\ q = <<>> /\ pass = FALSE /\ drained = FALSE /\ tgt = 0 /\ cur = 0
      /\ homed = FALSE /\ haveTarget = FALSE /\ homeLeft = 0 /\ waitAge = -1 /\ reg = Empty
  BY DEF InputInit
<1>3. Placed /\ OneReport /\ InTime
  <2>1. Placed
    <3>1. guest.pos \in Positions /\ DOMAIN guest = {"pos", "keys", "mods", "mouse", "pen"}
      BY <1>1
    <3>2. -1 \in -1 .. PTR_SETTLE /\ 0 \in 0 .. HomingSlams /\ 0 \in Positions
      BY SizesOK
    <3> QED
      BY <1>2, <3>1, <3>2 DEF Placed
  <2>2. OneReport
    BY <1>2 DEF OneReport
  <2>3. InTime
    BY <1>2 DEF InTime
  <2> QED
    BY <2>1, <2>2, <2>3
<1>4. Reckoned
  BY <1>2 DEF Reckoned
<1> QED
  BY <1>3, <1>4 DEF PointerInv

LEMMA PointerShows ==
  ASSUME Patient, PointerInv
  PROVE  ClickOnTarget /\ DeadReckoning
<1>1. DeadReckoning
  BY DEF PointerInv, Reckoned, DeadReckoning
<1>2. ASSUME Clicking, haveTarget PROVE guest.pos = tgt
  <2>1. Settled
    BY <1>2, ClickSettled DEF Clicking
  <2>2. reg = Empty
    BY <1>2 DEF Clicking, PointerInv, OneReport
  <2>3. CASE UseTablet
    BY <1>2, <2>3 DEF PointerInv, Reckoned
  <2>4. CASE ~UseTablet
    BY <1>2, <2>1, <2>2, <2>4, TakenOK DEF Settled, PointerInv, Reckoned, Landing
  <2> QED
    BY <2>3, <2>4
<1> QED
  BY <1>1, <1>2 DEF ClickOnTarget

LEMMA PointerInvariance ==
  ASSUME Patient
  PROVE  MCSpec => [](scenario = "pointer" => PointerInv)
<1>1. MCInit => (scenario = "pointer" => PointerInv)
  BY PointerStart DEF MCInit, Init
<1>2. (scenario = "pointer" => PointerInv) /\ [MCNext]_<<vars, scenario>>
        => (scenario = "pointer" => PointerInv)'
  <2> SUFFICES ASSUME scenario = "pointer" => PointerInv, [MCNext]_<<vars, scenario>>,
                      scenario' = "pointer"
               PROVE  PointerInv'
    OBVIOUS
  <2>1. scenario = "pointer" /\ [InputNext]_ivars
    BY DEF MCNext, vars
  <2> QED
    BY <2>1, PointerStep
<1> QED
  BY <1>1, <1>2, PTL DEF MCSpec

(* A click lands where the last MOVEA put the guest's pointer, whatever    *)
(* the screen, the slam, the step and the positions (ctlsock.c:75-77).     *)
THEOREM ClicksLand == ASSUME Patient PROVE MCSpec => []PointerClicks
<1>1. (scenario = "pointer" => PointerInv) => PointerClicks
  BY PointerShows DEF PointerClicks
<1> QED
  BY <1>1, PointerInvariance, PTL

(* The dead reckoning agrees with the guest's pointer (ctlsock.c:75-77).   *)
THEOREM ReckoningAgrees == ASSUME Patient PROVE MCSpec => []PointerAgrees
<1>1. (scenario = "pointer" => PointerInv) => PointerAgrees
  BY PointerShows DEF PointerAgrees
<1> QED
  BY <1>1, PointerInvariance, PTL

-----------------------------------------------------------------------------
(* Hold.                                                                   *)

(* No verb moves the pointer, and no gap is switched off.                  *)
Spacing ==
  /\ \A v \in Verbs : v.verb \notin {"MOVEA", "MOVEP"}
  /\ KEY_GAP > 0 /\ BTN_GAP > 0

(* What the reader thread queues. *)
FromClient ==
  {Command(v.verb, v.a, v.b, s, c) : v \in Verbs, s \in 1 .. MaxSeq, c \in Clients}
FromReader ==
  {Command("BTN", 1, 0, 0, 0), Command("BTN", 2, 0, 0, 0), Command("RELEASE", 0, 0, 0, 0)}
Line == FromClient \cup FromReader

Serving == {"accepted", "serve", "close"}
Releasing == {"release1", "release2", "release3"}

Queued ==
  /\ q \in Seq(Line) /\ wire \in [Clients -> Seq(Line)]
  /\ sent \in [Clients -> 0 .. MaxSeq]
  /\ rpc \in {"loop", "accept", "done"} \cup Serving \cup Releasing
  /\ served \in Nat /\ owner \in [FDs -> Nat]
  /\ rpc \in Serving => rfd \in FDs /\ owner[rfd] = served
  /\ rpc \in Serving \cup Releasing => served \in Clients

Spaced ==
  /\ pass \in BOOLEAN /\ reportAge \in Nat /\ haveTarget = FALSE
  /\ reg = Empty \/ reg.kind \in {"key", "mouse"}
  /\ pass /\ reg # Empty => reportAge = 0

HoldInv == Queued /\ Spaced

LEMMA LineOK ==
  ASSUME Spacing, NEW c \in Line
  PROVE  c.verb \notin {"MOVEA", "MOVEP"}
<1>1. CASE c \in FromClient
  <2>1. PICK v \in Verbs, s \in 1 .. MaxSeq, d \in Clients : c = Command(v.verb, v.a, v.b, s, d)
    BY <1>1 DEF FromClient
  <2> QED
    BY <2>1 DEF Command, Spacing
<1>2. CASE c \in FromReader
  BY <1>2 DEF FromReader, Command
<1> QED
  BY <1>1, <1>2 DEF Line

(* Taking and adding an entry. *)
LEMMA SeqOK ==
  ASSUME NEW S, NEW s \in Seq(S)
  PROVE  /\ s # <<>> => /\ Head(s) \in S /\ Tail(s) \in Seq(S) /\ Len(Tail(s)) = Len(s) - 1
                       /\ Head(s) = s[1] /\ Len(s) > 0
                       /\ \A i \in 1 .. Len(Tail(s)) : Tail(s)[i] = s[i + 1]
         /\ \A e \in S : /\ Append(s, e) \in Seq(S) /\ Len(Append(s, e)) = Len(s) + 1
                         /\ Append(s, e)[Len(s) + 1] = e
                         /\ \A i \in 1 .. Len(s) : Append(s, e)[i] = s[i]
         /\ Len(s) \in Nat
  BY EmptySeq, HeadTailProperties, AppendProperties

LEMMA HeadLine ==
  ASSUME Queued, q # <<>>
  PROVE  Head(q) \in Line /\ Tail(q) \in Seq(Line)
  BY SeqOK DEF Queued

LEMMA DrainQueue ==
  ASSUME Queued, DrainBegin \/ DrainApply \/ DrainEnd \/ GuestRead \/ GuestTablet \/ Tick
  PROVE  q' \in Seq(Line)
<1>1. q \in Seq(Line)
  BY DEF Queued
<1>2. CASE DrainApply
  BY <1>2, HeadLine DEF DrainApply
<1>3. CASE ~DrainApply
  BY <1>1, <1>3 DEF DrainBegin, DrainEnd, GuestRead, GuestTablet, Tick
<1> QED
  BY <1>2, <1>3

(* What every step but the reader thread's own leaves alone. *)
Reading == <<sent, wire, rpc, served, owner, rfd>>

LEMMA QueuedStep == Queued /\ [Next]_vars => Queued'
<1> SUFFICES ASSUME Queued, [Next]_vars PROVE Queued'
  OBVIOUS
<1>0. UNCHANGED Reading /\ q' \in Seq(Line) => Queued'
  BY DEF Reading, Queued
<1>1. ASSUME NEW c \in Clients, Client(c) PROVE Queued'
  <2>1. CASE Connect(c)
    BY <1>0, <2>1 DEF Connect, Queued, Reading, ivars, clientVars, readerVars
  <2>2. CASE Disconnect(c)
    BY <1>0, <2>2 DEF Disconnect, Queued, Reading, ivars, clientVars, readerVars
  <2>3. ASSUME NEW v \in Verbs, SendVerb(c, v) PROVE Queued'
    <3>1. UNCHANGED <<q, rpc, served, owner, rfd>>
      BY <2>3 DEF SendVerb, ivars, readerVars
    <3>2. sent[c] \in 0 .. MaxSeq /\ MaxSeq \in Nat /\ sent[c] < MaxSeq
      BY <2>3, SockAssumption DEF Queued, SendVerb, SockAssumption
    <3>3. sent' \in [Clients -> 0 .. MaxSeq]
      BY <2>3, <3>2 DEF SendVerb, Queued
    <3> DEFINE e == Command(v.verb, v.a, v.b, sent[c] + 1, c)
    <3>4. e \in Line
      <4>1. sent[c] + 1 \in 1 .. MaxSeq
        BY <3>2
      <4>2. e \in FromClient
        BY <4>1 DEF FromClient
      <4> QED
        BY <4>2 DEF Line
    <3> HIDE DEF e
    <3>5. Append(wire[c], e) \in Seq(Line)
      BY <3>4, SeqOK DEF Queued
    <3>6. wire' = [wire EXCEPT ![c] = Append(@, e)]
      BY <2>3 DEF SendVerb, e
    <3>7. wire' \in [Clients -> Seq(Line)]
      BY <3>5, <3>6 DEF Queued
    <3> QED
      BY <3>1, <3>3, <3>7 DEF Queued
  <2> QED
    BY <1>1, <2>1, <2>2, <2>3 DEF Client
<1>2. CASE Reader
  <2>1. CASE CheckQuit
    BY <2>1 DEF CheckQuit, ReaderKeeps, ivars, Queued, Serving, Releasing
  <2>2. CASE AcceptFails
    BY <2>2 DEF AcceptFails, ReaderKeeps, ivars, Queued, Serving, Releasing
  <2>3. CASE Publish
    BY <2>3 DEF Publish, ReaderKeeps, ivars, Queued, Serving, Releasing
  <2>4. CASE ReceiveLine
    <3> DEFINE c == owner[rfd]
    <3>1. c = served /\ c \in Clients /\ rpc = "serve"
      BY <2>4 DEF ReceiveLine, Queued, Serving
    <3>2. wire[c] # <<>> /\ wire' = [wire EXCEPT ![c] = Tail(@)]
          /\ UNCHANGED <<sent, rpc, served, owner, rfd>>
      BY <2>4 DEF ReceiveLine, readerVars, ReaderKeeps
    <3>3. q' = q \/ q' = Append(q, Head(wire[c]))
      BY <2>4 DEF ReceiveLine, Push, ivars
    <3> HIDE DEF c
    <3>4. Head(wire[c]) \in Line /\ Tail(wire[c]) \in Seq(Line)
      <4>1. wire[c] \in Seq(Line)
        BY <3>1 DEF Queued
      <4> QED
        BY <3>2, <4>1, SeqOK
    <3>5. q' \in Seq(Line)
      <4>1. q \in Seq(Line)
        BY DEF Queued
      <4>2. Append(q, Head(wire[c])) \in Seq(Line)
        BY <3>4, <4>1, SeqOK
      <4> QED
        BY <3>3, <4>1, <4>2
    <3>6. wire' \in [Clients -> Seq(Line)]
      BY <3>1, <3>2, <3>4 DEF Queued
    <3> QED
      BY <3>2, <3>5, <3>6 DEF Queued
  <2>5. CASE PeerGone
    BY <2>5 DEF PeerGone, ReaderKeeps, ivars, Queued, Serving, Releasing
  <2>6. CASE CloseConn
    <3>1. owner' \in [FDs -> Nat]
      BY <2>6 DEF CloseConn, Queued
    <3> QED
      BY <2>6, <3>1 DEF CloseConn, ReaderKeeps, ivars, Queued, Serving, Releasing
  <2>7. CASE ReleaseAll
    <3>1. PICK e \in FromReader : PushOrDrop(e)
      BY <2>7 DEF ReleaseAll, ReleaseHeld, FromReader, ReleaseOf
    <3>2. e \in Line
      BY DEF Line
    <3>3. q' = q \/ q' = Append(q, e)
      BY <3>1 DEF PushOrDrop, Push, ivars
    <3>4. q' \in Seq(Line)
      BY <3>2, <3>3, SeqOK DEF Queued
    <3>5. UNCHANGED <<sent, wire, served, owner, rfd>>
      BY <2>7 DEF ReleaseAll, ReleaseHeld, ReaderKeeps
    <3>6. rpc \in Releasing /\ rpc' \in {"release2", "release3", "loop"}
      BY <2>7 DEF ReleaseAll, ReleaseHeld, Releasing
    <3> QED
      BY <3>4, <3>5, <3>6 DEF Queued, Serving, Releasing
  <2>8. ASSUME NEW f \in FDs, Accept(f) PROVE Queued'
    <3>1. served + 1 \in Clients /\ served' = served + 1 /\ rfd' = f /\ rpc' = "accepted"
          /\ owner' = [owner EXCEPT ![f] = served'] /\ UNCHANGED <<q, wire, sent>>
      BY <2>8 DEF Accept, ReaderKeeps, ivars
    <3>2. served' \in Nat /\ owner' \in [FDs -> Nat] /\ owner'[f] = served'
      BY <3>1 DEF Queued
    <3> QED
      BY <3>1, <3>2 DEF Queued, Serving, Releasing
  <2> QED
    BY <1>2, <2>1, <2>2, <2>3, <2>4, <2>5, <2>6, <2>7, <2>8 DEF Reader
<1>3. CASE Emulation
  <2>1. UNCHANGED Reading
    BY <1>3 DEF Emulation, PassStep, ApplyHead, ReadConnFd, SendAck, DrainKeeps, Reading,
                clientVars, readerVars
  <2>2. DrainBegin \/ DrainApply \/ DrainEnd \/ q' = q
    BY <1>3 DEF Emulation, PassStep, ApplyHead, ReadConnFd, SendAck, ivars
  <2> QED
    BY <1>0, <2>1, <2>2, DrainQueue DEF Queued
<1>4. CASE Environment
  <2>1. UNCHANGED Reading
    BY <1>4 DEF Environment, Outside, Reading, clientVars, readerVars
  <2> QED
    BY <1>0, <1>4, <2>1, DrainQueue DEF Environment
<1>5. CASE SetQuit
  BY <1>0, <1>5 DEF SetQuit, QuitKeeps, Queued, Reading, ivars, clientVars, readerVars
<1>6. CASE Stopping
  BY <1>0, <1>6 DEF Stopping, QuitReadsFd, ShutConn, CloseListener, Join, QuitKeeps, Queued,
                    Reading, ivars, clientVars, readerVars
<1>7. CASE UNCHANGED vars
  BY <1>0, <1>7 DEF vars, Queued, Reading, ivars, clientVars, readerVars
<1> QED
  BY <1>1, <1>2, <1>3, <1>4, <1>5, <1>6, <1>7 DEF Next

(* Every head that is applied keeps the gap from the last report. *)
LEMMA ApplySpaced ==
  ASSUME Spacing, HoldInv, DrainApply
  PROVE  Spaced'
<1> DEFINE c == Head(q)
<1>1. c \in Line /\ pass /\ ~Paced(c) /\ Apply(c) /\ pass' = pass
  BY HeadLine DEF DrainApply, Held, HoldInv
<1> HIDE DEF c
<1>2. c.verb \notin {"MOVEA", "MOVEP"}
  BY <1>1, LineOK
<1>3. ReportGap \in Nat /\ KEY_GAP \in Nat /\ BTN_GAP \in Nat /\ KEY_GAP > 0 /\ BTN_GAP > 0
  BY InputAssumption DEF InputAssumption, ReportGap, Spacing
<1>4. Btn(c) \/ Key(c) \/ Mod(c) \/ Release(c) \/ NoInput(c)
  BY <1>1, <1>2 DEF Apply, MoveA, MoveP
<1>5. haveTarget' = FALSE
  BY <1>4 DEF Btn, Key, Mod, Release, NoInput, input, HoldInv, Spaced
<1>6. ASSUME UNCHANGED <<reg, reportAge>> PROVE Spaced'
  BY <1>1, <1>5, <1>6 DEF HoldInv, Spaced
<1>7. ASSUME reportAge # 0, reportAge' = 0, NEW r, r.kind \in {"key", "mouse"},
             reg' = reg \/ KmReceive(r)
      PROVE  Spaced'
  <2>1. reg = Empty
    BY <1>1, <1>7 DEF HoldInv, Spaced
  <2>2. reg' = Empty \/ reg'.kind \in {"key", "mouse"}
    BY <1>7, <2>1 DEF KmReceive
  <2> QED
    BY <1>1, <1>5, <1>7, <2>2 DEF HoldInv, Spaced
<1>8. CASE Btn(c)
  <2>1. CASE c.a = 3
    BY <1>6, <1>8, <2>1 DEF Btn
  <2>2. CASE c.a # 3
    <3>1. reportAge # 0 /\ reportAge' = 0
      BY <1>1, <1>3, <1>8, <2>2 DEF Btn, Paced, HoldInv, Spaced
    <3>2. reg' = reg \/ KmReceive(MouseReport(0, btns'))
      BY <1>8, <2>2 DEF Btn
    <3>3. MouseReport(0, btns').kind = "mouse"
      BY DEF MouseReport
    <3> QED
      BY <1>7, <3>1, <3>2, <3>3
  <2> QED
    BY <2>1, <2>2
<1>9. ASSUME c.verb \in {"KEY", "MOD", "RELEASE"}, reportAge' = 0,
             NEW d, NEW k, NEW m, KmReceive(KeyReport(d, k, m))
      PROVE  Spaced'
  <2>1. reportAge # 0
    BY <1>1, <1>3, <1>9 DEF Paced, HoldInv, Spaced
  <2>2. KeyReport(d, k, m).kind = "key"
    BY DEF KeyReport
  <2> QED
    BY <1>7, <1>9, <2>1, <2>2
<1>10. CASE Key(c)
  BY <1>9, <1>10 DEF Key
<1>11. CASE Mod(c)
  BY <1>9, <1>11 DEF Mod
<1>12. CASE Release(c)
  BY <1>9, <1>12 DEF Release
<1>13. CASE NoInput(c)
  BY <1>6, <1>13 DEF NoInput
<1> QED
  BY <1>4, <1>8, <1>10, <1>11, <1>12, <1>13

(* Only the drain, the guest and the clock touch what Spaced looks at. *)
LEMMA SpacedStep ==
  ASSUME Spacing, HoldInv, [Next]_vars
  PROVE  Spaced'
<1>0. UNCHANGED <<pass, reportAge, haveTarget, reg>> => Spaced'
  BY DEF HoldInv, Spaced
<1>1. ASSUME NEW c \in Clients, Client(c) PROVE Spaced'
  BY <1>0, <1>1 DEF Client, Connect, Disconnect, SendVerb, ivars, input, ages, device
<1>2. CASE Reader
  <2>1. CASE ReceiveLine
    BY <1>0, <2>1 DEF ReceiveLine, Push, ivars, input, ages, device
  <2>2. CASE ReleaseAll
    BY <1>0, <2>2 DEF ReleaseAll, ReleaseHeld, PushOrDrop, Push, ivars, input, ages, device
  <2> QED
    BY <1>0, <1>2, <2>1, <2>2 DEF Reader, CheckQuit, AcceptFails, Publish, PeerGone, CloseConn,
                                  Accept, ivars, input, ages, device
<1>3. CASE DrainBegin
  BY <1>3 DEF DrainBegin, input, ages, device, HoldInv, Spaced
<1>4. CASE DrainApply
  BY <1>4, ApplySpaced
<1>5. CASE DrainEnd
  <2>1. Settled
    BY DEF HoldInv, Spaced, Settled
  <2> QED
    BY <1>5, <2>1 DEF DrainEnd, PtrTick, HoldInv, Spaced
<1>6. CASE GuestRead
  BY <1>6 DEF GuestRead, input, ages, HoldInv, Spaced
<1>7. CASE GuestTablet
  BY <1>0, <1>7 DEF GuestTablet, input, ages
<1>8. CASE Tick
  <2>1. ReportGap \in Nat
    BY InputAssumption DEF InputAssumption, ReportGap
  <2> QED
    BY <1>8, <2>1 DEF Tick, Older, input, device, HoldInv, Spaced
<1>9. CASE Emulation
  BY <1>0, <1>3, <1>4, <1>5, <1>9 DEF Emulation, PassStep, ApplyHead, ReadConnFd, SendAck, ivars,
                                       input, ages, device
<1>10. CASE Environment
  BY <1>6, <1>7, <1>8, <1>10 DEF Environment
<1>11. CASE SetQuit \/ Stopping
  BY <1>0, <1>11 DEF SetQuit, Stopping, QuitReadsFd, ShutConn, CloseListener, Join, QuitKeeps,
                     ivars, input, ages, device
<1>12. CASE UNCHANGED vars
  BY <1>0, <1>12 DEF vars, ivars, input, ages, device
<1> QED
  BY <1>1, <1>2, <1>9, <1>10, <1>11, <1>12 DEF Next

LEMMA HoldStart == Init => HoldInv
<1> SUFFICES ASSUME Init PROVE HoldInv
  OBVIOUS
<1>1. Queued
  <2>1. <<>> \in Seq(Line)
    BY EmptySeq
  <2>2. 0 \in 0 .. MaxSeq
    BY SockAssumption DEF SockAssumption
  <2>3. wire \in [Clients -> Seq(Line)] /\ sent \in [Clients -> 0 .. MaxSeq]
    BY <2>1, <2>2 DEF Init, SockInit
  <2> QED
    BY <2>1, <2>3 DEF Init, InputInit, SockInit, Queued, Serving, Releasing
<1>2. Spaced
  BY InputAssumption DEF Init, InputInit, InputAssumption, ReportGap, Spaced
<1> QED
  BY <1>1, <1>2 DEF HoldInv

LEMMA HoldInvariance == ASSUME Spacing PROVE MCSpec => [](scenario = "hold" => HoldInv)
<1>1. MCInit => (scenario = "hold" => HoldInv)
  BY HoldStart DEF MCInit
<1>2. (scenario = "hold" => HoldInv) /\ [MCNext]_<<vars, scenario>>
        => (scenario = "hold" => HoldInv)'
  <2> SUFFICES ASSUME scenario = "hold" => HoldInv, [MCNext]_<<vars, scenario>>,
                      scenario' = "hold"
               PROVE  HoldInv'
    OBVIOUS
  <2>1. scenario = "hold" /\ [Next]_vars
    BY DEF MCNext
  <2> QED
    BY <2>1, QueuedStep, SpacedStep DEF HoldInv
<1> QED
  BY <1>1, <1>2, PTL DEF MCSpec

(* With gaps and without motion no report overruns another one, whatever   *)
(* the clients send and however the threads interleave                     *)
(* (ctlsock.c:854-856).                                                    *)
THEOREM NoneOverruns == ASSUME Spacing PROVE MCSpec => []HeldNoOverrun
<1>1. (scenario = "hold" => HoldInv) => HeldNoOverrun
  BY DEF HoldInv, Spaced, HeldNoOverrun, NoOverrun, Empty, Overrun
<1> QED
  BY <1>1, HoldInvariance, PTL

-----------------------------------------------------------------------------
(* Release.                                                                *)

(* What the guest is told of the buttons. *)
Shown == IF UseTablet THEN guest.pen ELSE kmsBtns

ModsReported ==
  /\ DOMAIN guest = {"pos", "keys", "mods", "mouse", "pen"}
  /\ IF reg.kind = "key" THEN reg.mods = mods ELSE guest.mods = mods

ButtonsReported ==
  /\ btns \subseteq Shown /\ Shown \subseteq {1, 2}
  /\ IF UseTablet THEN kmsBtns = {} ELSE guest.pen = {}
  /\ IF reg.kind = "mouse" THEN reg.btns = kmsBtns ELSE guest.mouse = kmsBtns

(* Of buttons only if their route does not change.                         *)
FixedRoute == PTR_MODE # "auto"
Reported == ModsReported /\ (FixedRoute => ButtonsReported)

(* The two buttons, and in the place of the third one, which nobody is     *)
(* told of, the modifiers.                                                 *)
Modifiers == 3
Things == {Modifiers} \cup IF FixedRoute THEN {1, 2} ELSE {}
ReleaseFor(x) == IF x = Modifiers THEN ReleaseOf("RELEASE", 0) ELSE ReleaseOf("BTN", x)
Raises(c, x) == IF x = Modifiers THEN c.verb = "MOD" ELSE c.verb = "BTN" /\ c.a = x /\ c.b = 1
Drops(c, x) == IF x = Modifiers THEN c.verb = "RELEASE" ELSE c.verb = "BTN" /\ c.a = x /\ c.b # 1
Holding(x) == IF x = Modifiers THEN mods # {} ELSE x \in Shown

(* There is a release in the ring, and there is one behind each press.     *)
Waits(s, x) == \E i \in 1 .. Len(s) : Drops(s[i], x)
Behind(s, x) ==
  \A j \in 1 .. Len(s) : Raises(s[j], x) => \E i \in j + 1 .. Len(s) : Drops(s[i], x)

(* Has the reader thread released x since its last connection?             *)
Released(x) ==
  \/ rpc \in {"loop", "accept", "accepted", "done"}
  \/ rpc = "release2" /\ x = 1
  \/ rpc = "release3" /\ x \in {1, 2}

Following ==
  \A x \in Things :
    Released(x) /\ ReleaseFor(x) \notin dropped =>
      Behind(q, x) /\ (Holding(x) => Waits(q, x))

ReleaseInv == Reported /\ Following

(* The ring as a release is added and as the head is taken.                *)
LEMMA BehindAppend ==
  ASSUME NEW s \in Seq(Line), NEW e \in Line, NEW x, ~Raises(e, x)
  PROVE  /\ Waits(s, x) => Waits(Append(s, e), x)
         /\ Behind(s, x) => Behind(Append(s, e), x)
         /\ Drops(e, x) => Waits(Append(s, e), x) /\ Behind(Append(s, e), x)
<1> DEFINE t == Append(s, e)
<1>1. /\ Len(s) \in Nat /\ Len(t) = Len(s) + 1 /\ t[Len(s) + 1] = e
      /\ \A i \in 1 .. Len(s) : t[i] = s[i]
  BY SeqOK
<1> HIDE DEF t
<1>2. ASSUME Waits(s, x) PROVE Waits(t, x)
  BY <1>1, <1>2 DEF Waits
<1>3. ASSUME Behind(s, x) \/ Drops(e, x), NEW j \in 1 .. Len(t), Raises(t[j], x)
      PROVE  \E i \in j + 1 .. Len(t) : Drops(t[i], x)
  <2>1. j \in 1 .. Len(s)
    <3>1. j # Len(s) + 1
      BY <1>1, <1>3
    <3> QED
      BY <1>1, <3>1
  <2>2. CASE Drops(e, x)
    <3>1. Len(s) + 1 \in j + 1 .. Len(t)
      BY <1>1, <2>1
    <3> QED
      BY <1>1, <2>2, <3>1
  <2>3. CASE Behind(s, x)
    <3>1. PICK i \in j + 1 .. Len(s) : Drops(s[i], x)
      BY <1>1, <1>3, <2>1, <2>3 DEF Behind
    <3>2. i \in j + 1 .. Len(t) /\ t[i] = s[i]
      BY <1>1, <2>1, <3>1
    <3> QED
      BY <3>1, <3>2
  <2> QED
    BY <1>3, <2>2, <2>3
<1>4. ASSUME Drops(e, x) PROVE Waits(t, x)
  <2>1. Len(s) + 1 \in 1 .. Len(t)
    BY <1>1
  <2> QED
    BY <1>1, <1>4, <2>1 DEF Waits
<1> QED
  BY <1>2, <1>3, <1>4 DEF t, Behind

LEMMA BehindTail ==
  ASSUME NEW s \in Seq(Line), s # <<>>, NEW x, Behind(s, x)
  PROVE  /\ Behind(Tail(s), x)
         /\ Raises(Head(s), x) => Waits(Tail(s), x)
         /\ Waits(s, x) /\ ~Drops(Head(s), x) => Waits(Tail(s), x)
<1> DEFINE t == Tail(s)
<1>1. /\ Len(s) \in Nat /\ Len(s) > 0 /\ Len(t) = Len(s) - 1 /\ Head(s) = s[1]
      /\ \A i \in 1 .. Len(t) : t[i] = s[i + 1]
  BY SeqOK
<1> HIDE DEF t
<1>2. ASSUME NEW i \in 2 .. Len(s), NEW j \in Nat, j < i, Drops(s[i], x)
      PROVE  \E k \in j .. Len(t) : k > 0 /\ Drops(t[k], x)
  <2>1. i - 1 \in j .. Len(t) /\ i - 1 > 0 /\ i - 1 \in 1 .. Len(t) /\ (i - 1) + 1 = i
    BY <1>1, <1>2
  <2>2. t[i - 1] = s[i]
    BY <1>1, <2>1
  <2> QED
    BY <1>2, <2>1, <2>2
<1>3. ASSUME NEW j \in 1 .. Len(t), Raises(t[j], x)
      PROVE  \E k \in j + 1 .. Len(t) : Drops(t[k], x)
  <2>1. j + 1 \in 1 .. Len(s) /\ Raises(s[j + 1], x) /\ j + 1 \in Nat
    BY <1>1, <1>3
  <2>2. PICK i \in (j + 1) + 1 .. Len(s) : Drops(s[i], x)
    BY <2>1 DEF Behind
  <2>3. i \in 2 .. Len(s) /\ j + 1 < i
    BY <1>1, <2>1, <2>2
  <2> QED
    BY <1>2, <2>1, <2>2, <2>3
<1>4. ASSUME Raises(Head(s), x) PROVE Waits(t, x)
  <2>1. PICK i \in 1 + 1 .. Len(s) : Drops(s[i], x)
    BY <1>1, <1>4 DEF Behind
  <2>2. i \in 2 .. Len(s) /\ 1 < i
    BY <1>1, <2>1
  <2> QED
    BY <1>2, <2>1, <2>2 DEF Waits
<1>5. ASSUME Waits(s, x), ~Drops(Head(s), x) PROVE Waits(t, x)
  <2>1. PICK i \in 1 .. Len(s) : Drops(s[i], x)
    BY <1>5 DEF Waits
  <2>2. i \in 2 .. Len(s) /\ 1 < i
    BY <1>1, <1>5, <2>1
  <2> QED
    BY <1>2, <2>1, <2>2 DEF Waits
<1> QED
  BY <1>3, <1>4, <1>5 DEF t, Behind

LEMMA ButtonOK ==
  ASSUME NEW c \in Line, c.verb = "BTN"
  PROVE  c.a \in Buttons
<1>1. CASE c \in FromClient
  <2>1. PICK v \in Verbs, s \in 1 .. MaxSeq, d \in Clients : c = Command(v.verb, v.a, v.b, s, d)
    BY <1>1 DEF FromClient
  <2> QED
    BY <2>1, SockAssumption DEF Command, SockAssumption
<1>2. CASE c \in FromReader
  BY <1>2 DEF FromReader, Command, Buttons
<1> QED
  BY <1>1, <1>2 DEF Line

(* What is held once c has been applied was raised by it, or held before.  *)
Kept(c, x) == Holding(x)' => Raises(c, x) \/ (Holding(x) /\ ~Drops(c, x))
Keeps(c) == \A x \in Things : Kept(c, x)

(* What is known of the verb that is applied. *)
LEMMA AppliedOK ==
  ASSUME Spacing, HoldInv, DrainApply
  PROVE  /\ Head(q) \in Line /\ tablet' = tablet
         /\ \/ Btn(Head(q)) /\ Head(q).verb = "BTN" /\ Head(q).a \in Buttons
            \/ Key(Head(q)) /\ Head(q).verb = "KEY"
            \/ Mod(Head(q)) /\ Head(q).verb = "MOD"
            \/ Release(Head(q)) /\ Head(q).verb = "RELEASE"
            \/ NoInput(Head(q)) /\ Head(q).verb \in {"FBSYNC", "NET", "NOP"}
         /\ Head(q).verb \in {"KEY", "MOD", "RELEASE"} \/ (Head(q).verb = "BTN" /\ Head(q).a # 3)
              => reg = Empty
<1> DEFINE c == Head(q)
<1>1. c \in Line /\ pass /\ ~Paced(c) /\ Apply(c) /\ tablet' = tablet
  BY HeadLine DEF DrainApply, Held, HoldInv, Apply
<1> HIDE DEF c
<1>2. c.verb \notin {"MOVEA", "MOVEP"} /\ (c.verb = "BTN" => c.a \in Buttons)
  BY <1>1, LineOK, ButtonOK
<1>3. KEY_GAP \in Nat /\ BTN_GAP \in Nat /\ KEY_GAP > 0 /\ BTN_GAP > 0
  BY InputAssumption DEF InputAssumption, Spacing
<1>4. \/ Btn(c) /\ c.verb = "BTN" /\ c.a \in Buttons
      \/ Key(c) /\ c.verb = "KEY"
      \/ Mod(c) /\ c.verb = "MOD"
      \/ Release(c) /\ c.verb = "RELEASE"
      \/ NoInput(c) /\ c.verb \in {"FBSYNC", "NET", "NOP"}
  BY <1>1, <1>2 DEF Apply, MoveA, MoveP, Btn, Key, Mod, Release, NoInput
<1>5. c.verb \in {"KEY", "MOD", "RELEASE"} \/ (c.verb = "BTN" /\ c.a # 3) => reg = Empty
  BY <1>1, <1>3 DEF Paced, HoldInv, Spaced
<1> QED
  BY <1>1, <1>4, <1>5 DEF c

(* The modifiers, whatever the route. *)
LEMMA ApplyMods ==
  ASSUME Spacing, HoldInv, ModsReported, DrainApply
  PROVE  ModsReported' /\ Kept(Head(q), Modifiers)
<1> DEFINE c == Head(q)
<1>1. reg = Empty => guest.mods = mods
  BY DEF ModsReported, Empty
<1>2. DOMAIN guest = {"pos", "keys", "mods", "mouse", "pen"}
  BY DEF ModsReported
<1>3. ASSUME mods' = mods, c.verb # "RELEASE" PROVE Kept(c, Modifiers)
  BY <1>3 DEF Kept, Holding, Drops, c
<1>4. ASSUME NEW d, NEW k, reg = Empty, KmReceive(KeyReport(d, k, mods')), guest' = guest
      PROVE  ModsReported'
  <2>1. reg'.kind = "key" /\ reg'.mods = mods'
    BY <1>4 DEF KmReceive, KeyReport
  <2> QED
    BY <1>2, <1>4, <2>1 DEF ModsReported
<1>5. CASE Btn(c) /\ c.verb = "BTN" /\ c.a \in Buttons
  <2>1. mods' = mods
    BY <1>5 DEF Btn
  <2>2. CASE c.a = 3
    <3>1. UNCHANGED <<guest, reg>>
      BY <1>5, <2>2 DEF Btn
    <3> QED
      BY <1>3, <1>5, <2>1, <3>1 DEF ModsReported, c
  <2>3. CASE c.a # 3
    <3>1. reg = Empty /\ guest.mods = mods
      BY <1>1, <1>5, <2>3, AppliedOK
    <3>2. reg'.kind \in {"empty", "mouse"} /\ guest'.mods = guest.mods
          /\ DOMAIN guest' = DOMAIN guest
      <4>1. CASE UseTablet
        <5>1. guest' = [guest EXCEPT !.pen = btns'] /\ reg' = reg
          BY <1>5, <2>3, <4>1 DEF Btn
        <5> QED
          BY <1>2, <3>1, <5>1 DEF Empty
      <4>2. CASE ~UseTablet
        <5>1. guest' = guest /\ reg' = MouseReport(0, btns')
          BY <1>5, <2>3, <3>1, <4>2 DEF Btn, KmReceive
        <5> QED
          BY <5>1 DEF MouseReport
      <4> QED
        BY <4>1, <4>2
    <3>3. ModsReported'
      BY <1>2, <2>1, <3>1, <3>2 DEF ModsReported
    <3> QED
      BY <1>3, <1>5, <2>1, <3>3 DEF c
  <2> QED
    BY <2>2, <2>3
<1>6. CASE Key(c) /\ c.verb = "KEY"
  <2>1. guest' = guest /\ mods' = mods /\ KmReceive(KeyReport(c.b, c.a, mods')) /\ reg = Empty
    BY <1>6, AppliedOK DEF Key, input
  <2> QED
    BY <1>3, <1>4, <1>6, <2>1 DEF c
<1>7. CASE Mod(c) /\ c.verb = "MOD"
  <2>1. guest' = guest /\ KmReceive(KeyReport(c.b, "NONE", mods')) /\ reg = Empty
    BY <1>7, AppliedOK DEF Mod
  <2>2. Kept(c, Modifiers)
    BY <1>7 DEF Kept, Raises
  <2> QED
    BY <1>4, <2>1, <2>2 DEF c
<1>8. CASE Release(c) /\ c.verb = "RELEASE"
  <2>1. guest' = guest /\ mods' = {} /\ KmReceive(KeyReport(0, "NONE", mods')) /\ reg = Empty
    BY <1>8, AppliedOK DEF Release
  <2>2. Kept(c, Modifiers)
    BY <2>1 DEF Kept, Holding
  <2> QED
    BY <1>4, <2>1, <2>2 DEF c
<1>9. CASE NoInput(c) /\ c.verb \in {"FBSYNC", "NET", "NOP"}
  <2>1. UNCHANGED <<guest, mods, reg>>
    BY <1>9 DEF NoInput, input
  <2> QED
    BY <1>3, <1>9, <2>1 DEF ModsReported, c
<1> QED
  BY <1>5, <1>6, <1>7, <1>8, <1>9, AppliedOK

(* The buttons, on a fixed route. *)
LEMMA ApplyButtons ==
  ASSUME Spacing, FixedRoute, HoldInv, ModsReported, ButtonsReported, DrainApply, NEW x \in {1, 2}
  PROVE  ButtonsReported' /\ Kept(Head(q), x)
<1> DEFINE c == Head(q)
<1>1. /\ btns \subseteq Shown /\ Shown \subseteq {1, 2}
      /\ (IF UseTablet THEN kmsBtns = {} ELSE guest.pen = {})
      /\ DOMAIN guest = {"pos", "keys", "mods", "mouse", "pen"}
  BY DEF ModsReported, ButtonsReported
<1>2. reg = Empty => guest.mouse = kmsBtns
  BY DEF ButtonsReported, Empty
<1>3. UseTablet' <=> UseTablet
  BY AppliedOK DEF UseTablet
<1>4. x # Modifiers
  BY DEF Modifiers
<1>5. ASSUME Shown' = Shown, c.verb # "BTN" PROVE Kept(c, x)
  BY <1>4, <1>5 DEF Kept, Holding, Drops, c
<1>6. CASE Btn(c) /\ c.verb = "BTN" /\ c.a \in Buttons
  <2>1. CASE c.a = 3
    <3>1. UNCHANGED <<btns, guest, kmsBtns, reg>>
      BY <1>6, <2>1 DEF Btn
    <3>2. Shown' = Shown
      BY <1>3, <3>1 DEF Shown
    <3>3. ButtonsReported'
      BY <1>3, <3>1, <3>2 DEF ButtonsReported
    <3>4. Kept(c, x)
      BY <1>4, <2>1, <3>2 DEF Kept, Holding, Drops, Modifiers, c
    <3> QED
      BY <3>3, <3>4 DEF c
  <2>2. CASE c.a # 3
    <3>1. c.a \in {1, 2} /\ btns' = Edge(btns, c.a, c.b)
      BY <1>6, <2>2 DEF Btn, Buttons
    <3>2. reg = Empty /\ guest.mouse = kmsBtns
      BY <1>2, <1>6, <2>2, AppliedOK
    <3>3. btns' \subseteq {1, 2}
      BY <1>1, <3>1 DEF Edge
    <3>4. Shown' = btns' /\ ButtonsReported'
      <4>1. CASE UseTablet
        <5>1. guest' = [guest EXCEPT !.pen = btns'] /\ UNCHANGED <<kmsBtns, reg>>
          BY <1>6, <2>2, <4>1 DEF Btn
        <5>2. guest'.pen = btns' /\ guest'.mouse = guest.mouse
          BY <1>1, <5>1
        <5>3. Shown' = btns'
          BY <1>3, <4>1, <5>2 DEF Shown
        <5>4. reg'.kind = "empty"
          BY <3>2, <5>1 DEF Empty
        <5> QED
          BY <1>1, <1>3, <3>2, <3>3, <4>1, <5>1, <5>2, <5>3, <5>4 DEF ButtonsReported
      <4>2. CASE ~UseTablet
        <5>1. kmsBtns' = btns' /\ reg' = MouseReport(0, btns') /\ guest' = guest
          BY <1>6, <2>2, <3>2, <4>2 DEF Btn, KmReceive
        <5>2. Shown' = btns'
          BY <1>3, <4>2, <5>1 DEF Shown
        <5>3. reg'.kind = "mouse" /\ reg'.btns = btns'
          BY <5>1 DEF MouseReport
        <5> QED
          BY <1>1, <1>3, <3>2, <3>3, <4>2, <5>1, <5>2, <5>3 DEF ButtonsReported
      <4> QED
        BY <4>1, <4>2
    <3>5. ASSUME Holding(x)' PROVE Raises(c, x) \/ (Holding(x) /\ ~Drops(c, x))
      <4>1. x \in btns'
        BY <1>4, <3>4, <3>5 DEF Holding
      <4> QED
        BY <1>1, <1>4, <1>6, <3>1, <4>1 DEF Edge, Holding, Raises, Drops
    <3> QED
      BY <3>4, <3>5 DEF Kept, c
  <2> QED
    BY <2>1, <2>2
<1>7. ASSUME UNCHANGED <<guest, kmsBtns>>, btns' \subseteq btns, c.verb # "BTN", reg = Empty,
             NEW d, NEW k, KmReceive(KeyReport(d, k, mods'))
      PROVE  ButtonsReported' /\ Kept(c, x)
  <2>1. reg'.kind = "key" /\ guest.mouse = kmsBtns
    BY <1>2, <1>7 DEF KmReceive, KeyReport
  <2>2. Shown' = Shown
    BY <1>3, <1>7 DEF Shown
  <2>3. ButtonsReported'
    BY <1>1, <1>3, <1>7, <2>1, <2>2 DEF ButtonsReported
  <2> QED
    BY <1>5, <1>7, <2>2, <2>3
<1>8. CASE Key(c) /\ c.verb = "KEY"
  <2>1. /\ UNCHANGED <<guest, kmsBtns, btns>> /\ reg = Empty
        /\ KmReceive(KeyReport(c.b, c.a, mods'))
    BY <1>8, AppliedOK DEF Key, input
  <2> QED
    BY <1>7, <1>8, <2>1 DEF c
<1>9. CASE Mod(c) /\ c.verb = "MOD"
  <2>1. UNCHANGED <<guest, kmsBtns, btns>> /\ reg = Empty
        /\ KmReceive(KeyReport(c.b, "NONE", mods'))
    BY <1>9, AppliedOK DEF Mod
  <2> QED
    BY <1>7, <1>9, <2>1 DEF c
<1>10. CASE Release(c) /\ c.verb = "RELEASE"
  <2>1. UNCHANGED <<guest, kmsBtns>> /\ btns' = {} /\ reg = Empty
        /\ KmReceive(KeyReport(0, "NONE", mods'))
    BY <1>10, AppliedOK DEF Release
  <2> QED
    BY <1>7, <1>10, <2>1 DEF c
<1>11. CASE NoInput(c) /\ c.verb \in {"FBSYNC", "NET", "NOP"}
  <2>1. UNCHANGED <<guest, kmsBtns, btns, reg>>
    BY <1>11 DEF NoInput, input
  <2>2. Shown' = Shown /\ ButtonsReported'
    BY <1>3, <2>1 DEF Shown, ButtonsReported
  <2> QED
    BY <1>5, <1>11, <2>2 DEF c
<1> QED
  BY <1>6, <1>8, <1>9, <1>10, <1>11, AppliedOK

LEMMA ApplyReported ==
  ASSUME Spacing, HoldInv, Reported, DrainApply
  PROVE  Reported' /\ Keeps(Head(q))
<1>1. ModsReported' /\ Kept(Head(q), Modifiers)
  BY ApplyMods DEF Reported
<1>2. ASSUME FixedRoute PROVE ButtonsReported' /\ \A x \in {1, 2} : Kept(Head(q), x)
  BY <1>2, ApplyButtons DEF Reported
<1>3. FixedRoute' <=> FixedRoute
  BY DEF FixedRoute
<1>4. ASSUME NEW x \in Things PROVE Kept(Head(q), x)
  BY <1>1, <1>2, <1>4 DEF Things
<1> QED
  BY <1>1, <1>2, <1>3, <1>4 DEF Reported, Keeps

(* The reader thread adds an entry at most. *)
LEMMA ReaderRing ==
  ASSUME Queued, Reader
  PROVE  q' = q \/ \E e \in Line : q' = Append(q, e) /\ Len(q') = Len(q) + 1
<1>0. q \in Seq(Line)
  BY DEF Queued
<1>1. CASE ReceiveLine
  <2> DEFINE c == owner[rfd]
  <2>1. c \in Clients /\ wire[c] # <<>> /\ (q' = q \/ q' = Append(q, Head(wire[c])))
    BY <1>1 DEF ReceiveLine, Queued, Serving, Push, ivars
  <2> HIDE DEF c
  <2>2. wire[c] \in Seq(Line)
    BY <2>1 DEF Queued
  <2>3. Head(wire[c]) \in Line
    BY <2>1, <2>2, SeqOK
  <2>4. Len(Append(q, Head(wire[c]))) = Len(q) + 1
    BY <1>0, <2>3, SeqOK
  <2> QED
    BY <2>1, <2>3, <2>4
<1>2. CASE ReleaseAll
  <2>1. PICK e \in FromReader : PushOrDrop(e)
    BY <1>2 DEF ReleaseAll, ReleaseHeld, FromReader, ReleaseOf
  <2>2. e \in Line /\ (q' = q \/ q' = Append(q, e))
    BY <2>1 DEF Line, PushOrDrop, Push, ivars
  <2>3. Len(Append(q, e)) = Len(q) + 1
    BY <1>0, <2>2, SeqOK
  <2> QED
    BY <2>2, <2>3
<1> QED
  BY <1>1, <1>2 DEF Reader, CheckQuit, AcceptFails, Publish, PeerGone, CloseConn, Accept, ivars

(* A verb is not applied in a step of another thread. *)
LEMMA DrainAlone ==
  ASSUME Queued, DrainApply
  PROVE  ~Reader /\ \A c \in Clients, v \in Verbs : ~SendVerb(c, v)
<1>1. q' = Tail(q) /\ q # <<>> /\ q \in Seq(Line)
  BY DEF DrainApply, Queued
<1>2. Len(Tail(q)) = Len(q) - 1 /\ Len(q) \in Nat
  BY <1>1, SeqOK
<1>3. q' # q /\ Len(q') # Len(q) + 1
  <2>1. Len(Tail(q)) # Len(q) /\ Len(Tail(q)) # Len(q) + 1
    BY <1>2
  <2> QED
    BY <1>1, <2>1, Zenon
<1> QED
  BY <1>3, ReaderRing DEF SendVerb, ivars

(* The ring grows by one entry at most, and only the reader thread adds.   *)
LEMMA RingOK ==
  ASSUME Queued, [Next]_vars
  PROVE  \/ q' = q
         \/ DrainApply /\ Len(q') <= Len(q)
         \/ Reader /\ \E e \in Line : q' = Append(q, e) /\ Len(q') = Len(q) + 1
<1>0. q \in Seq(Line)
  BY DEF Queued
<1>1. CASE Reader
  BY <1>1, ReaderRing
<1>2. CASE DrainApply
  <2>1. q # <<>> /\ q' = Tail(q)
    BY <1>2 DEF DrainApply
  <2>2. Len(Tail(q)) = Len(q) - 1 /\ Len(q) \in Nat
    BY <1>0, <2>1, SeqOK
  <2>3. Len(Tail(q)) <= Len(q)
    BY <2>2
  <2> QED
    BY <1>2, <2>1, <2>3
<1>3. CASE ~Reader /\ ~DrainApply
  BY <1>3 DEF Next, Client, Connect, Disconnect, SendVerb, Emulation, PassStep, ApplyHead,
              ReadConnFd, SendAck, DrainBegin, DrainEnd, Environment, GuestRead, GuestTablet, Tick,
              SetQuit, Stopping, QuitReadsFd, ShutConn, CloseListener, Join, QuitKeeps, vars, ivars
<1> QED
  BY <1>1, <1>2, <1>3

(* Only the clients and the reader thread move what is counted. *)
LEMMA OthersKeep ==
  ASSUME [Next]_vars, ~Reader, \A c \in Clients, v \in Verbs : ~SendVerb(c, v)
  PROVE  UNCHANGED Reading
<1>1. CASE Emulation
  BY <1>1 DEF Emulation, PassStep, ApplyHead, ReadConnFd, SendAck, DrainKeeps, Reading,
              clientVars, readerVars
<1>2. ASSUME NEW c \in Clients, Client(c) PROVE UNCHANGED Reading
  BY <1>2 DEF Client, Connect, Disconnect, Reading, clientVars, readerVars
<1>3. CASE Environment \/ SetQuit \/ Stopping \/ UNCHANGED vars
  BY <1>3 DEF Environment, Outside, SetQuit, Stopping, QuitReadsFd, ShutConn, CloseListener, Join,
              QuitKeeps, vars, Reading, clientVars, readerVars
<1> QED
  BY <1>1, <1>2, <1>3 DEF Next

(* Nobody but the reader thread, at its releases, drops one or makes it good. *)
LEMMA DroppedKept ==
  ASSUME [Next]_vars, ~ReleaseAll
  PROVE  dropped' = dropped
<1>1. CASE Reader
  BY <1>1 DEF Reader, CheckQuit, AcceptFails, Publish, ReceiveLine, PeerGone, CloseConn, Accept
<1>2. CASE Emulation
  BY <1>2 DEF Emulation, PassStep, ApplyHead, ReadConnFd, SendAck, DrainKeeps
<1>3. ASSUME NEW c \in Clients, Client(c) PROVE dropped' = dropped
  BY <1>3 DEF Client, Connect, Disconnect, SendVerb, history
<1>4. CASE Environment \/ SetQuit \/ Stopping \/ UNCHANGED vars
  BY <1>4 DEF Environment, Outside, SetQuit, Stopping, QuitReadsFd, ShutConn, CloseListener, Join,
              QuitKeeps, vars, history
<1> QED
  BY <1>1, <1>2, <1>3, <1>4 DEF Next

(* Nothing is taken up but by a verb. *)
Still == \A x \in Things : Holding(x)' => Holding(x)

LEMMA ReportedStep ==
  ASSUME Spacing, HoldInv, Reported, [Next]_vars
  PROVE  Reported' /\ (DrainApply \/ Still)
<1>0. UNCHANGED <<mods, btns, kmsBtns, reg, guest>> => Reported' /\ Still
  <2> SUFFICES ASSUME UNCHANGED <<mods, btns, kmsBtns, reg, guest>> PROVE Reported' /\ Still
    OBVIOUS
  <2>1. ModsReported'
    BY DEF Reported, ModsReported
  <2>2. ASSUME FixedRoute PROVE Shown' = Shown /\ ButtonsReported'
    <3>1. UseTablet' <=> UseTablet
      BY <2>2 DEF UseTablet, FixedRoute
    <3>2. Shown' = Shown
      BY <3>1 DEF Shown
    <3> QED
      BY <2>2, <3>1, <3>2 DEF Reported, ButtonsReported
  <2>3. ASSUME NEW x \in Things, Holding(x)' PROVE Holding(x)
    BY <2>2, <2>3 DEF Holding, Things
  <2> QED
    BY <2>1, <2>2, <2>3 DEF Still, Reported, FixedRoute
<1>1. CASE DrainApply
  BY <1>1, ApplyReported
<1>2. CASE GuestRead
  <2>1. UNCHANGED <<tablet, mods, btns, kmsBtns>> /\ reg' = Empty /\ guest' = Taken
    BY <1>2 DEF GuestRead, input
  <2>2. DOMAIN guest = {"pos", "keys", "mods", "mouse", "pen"}
    BY DEF Reported, ModsReported
  <2>3. reg = Empty \/ reg.kind \in {"key", "mouse"}
    BY DEF HoldInv, Spaced
  <2>4. /\ DOMAIN Taken = DOMAIN guest /\ Taken.pen = guest.pen
        /\ Taken.mods = IF reg.kind = "key" THEN reg.mods ELSE guest.mods
        /\ Taken.mouse = IF reg.kind = "mouse" THEN reg.btns ELSE guest.mouse
    <3>1. CASE reg.kind = "key"
      <4>1. PICK k : Taken = [guest EXCEPT !.mods = reg.mods, !.keys = k]
        BY <3>1 DEF Taken
      <4> QED
        BY <2>2, <3>1, <4>1
    <3>2. CASE reg.kind = "mouse"
      <4>1. PICK p : Taken = [guest EXCEPT !.pos = p, !.mouse = reg.btns]
        BY <3>2 DEF Taken
      <4> QED
        BY <2>2, <3>2, <4>1
    <3>3. CASE reg = Empty
      BY <3>3 DEF Taken, Empty
    <3> QED
      BY <2>3, <3>1, <3>2, <3>3
  <2>5. reg'.kind = "empty"
    BY <2>1 DEF Empty
  <2>6. ModsReported'
    BY <2>1, <2>2, <2>4, <2>5 DEF Reported, ModsReported
  <2>7. ASSUME FixedRoute PROVE Shown' = Shown /\ ButtonsReported'
    <3>1. UseTablet' <=> UseTablet
      BY <2>1 DEF UseTablet
    <3>2. Shown' = Shown
      BY <2>1, <2>4, <3>1 DEF Shown
    <3>3. Taken.mouse = kmsBtns
      BY <2>4, <2>7 DEF Reported, ButtonsReported
    <3> QED
      BY <2>1, <2>4, <2>5, <2>7, <3>1, <3>2, <3>3 DEF Reported, ButtonsReported
  <2>8. ASSUME NEW x \in Things, Holding(x)' PROVE Holding(x)
    BY <2>1, <2>7, <2>8 DEF Holding, Things
  <2> QED
    BY <2>6, <2>7, <2>8 DEF Still, Reported, FixedRoute
<1>3. CASE DrainEnd
  <2>1. Settled
    BY DEF HoldInv, Spaced, Settled
  <2> QED
    BY <1>0, <1>3, <2>1 DEF DrainEnd, PtrTick
<1>4. CASE Emulation
  BY <1>0, <1>1, <1>3, <1>4 DEF Emulation, PassStep, ApplyHead, ReadConnFd, SendAck, DrainBegin,
                                ivars, input, device
<1>5. CASE Environment
  BY <1>0, <1>2, <1>5 DEF Environment, GuestTablet, Tick, input, device
<1>6. CASE Reader
  <2>1. CASE ReceiveLine
    BY <1>0, <2>1 DEF ReceiveLine, Push, ivars, input, device
  <2>2. CASE ReleaseAll
    BY <1>0, <2>2 DEF ReleaseAll, ReleaseHeld, PushOrDrop, Push, ivars, input, device
  <2> QED
    BY <1>0, <1>6, <2>1, <2>2 DEF Reader, CheckQuit, AcceptFails, Publish, PeerGone, CloseConn,
                                  Accept, ivars, input, device
<1>7. ASSUME NEW c \in Clients, Client(c) PROVE Reported' /\ (DrainApply \/ Still)
  BY <1>0, <1>7 DEF Client, Connect, Disconnect, SendVerb, ivars, input, device
<1>8. CASE SetQuit \/ Stopping \/ UNCHANGED vars
  BY <1>0, <1>8 DEF SetQuit, Stopping, QuitReadsFd, ShutConn, CloseListener, Join, QuitKeeps,
                    vars, ivars, input, device
<1> QED
  BY <1>4, <1>5, <1>6, <1>7, <1>8 DEF Next

(* The release of a button, or of the keyboard, is put behind all else,    *)
(* or dropped.                                                             *)
LEMMA FollowingStep ==
  ASSUME Spacing, HoldInv, ReleaseInv, [Next]_vars
  PROVE  Following'
<1> SUFFICES ASSUME NEW x \in Things, Released(x)', ReleaseFor(x) \notin dropped'
             PROVE  Behind(q', x) /\ (Holding(x)' => Waits(q', x))
  BY DEF Following, Things, FixedRoute, ReleaseFor
<1>0. q \in Seq(Line)
  BY DEF HoldInv, Queued
<1>1. ASSUME q' = q, Released(x), ReleaseFor(x) \notin dropped, Still
      PROVE  Behind(q', x) /\ (Holding(x)' => Waits(q', x))
  BY <1>1 DEF ReleaseInv, Following, Still
<1>2. CASE DrainApply
  <2>1. q # <<>> /\ q' = Tail(q) /\ Keeps(Head(q))
    BY <1>2, ApplyReported DEF DrainApply, ReleaseInv
  <2>2. rpc' = rpc /\ dropped' = dropped
    BY <1>2, OthersKeep, DrainAlone, DroppedKept DEF Reading, HoldInv, Reader
  <2>3. Behind(q, x) /\ (Holding(x) => Waits(q, x))
    BY <2>2 DEF ReleaseInv, Following, Released
  <2>4. Holding(x)' => Raises(Head(q), x) \/ (Holding(x) /\ ~Drops(Head(q), x))
    BY <2>1 DEF Keeps, Kept
  <2> QED
    BY <1>0, <2>1, <2>3, <2>4, BehindTail
<1>3. CASE ReleaseAll
  <2>1. Still
    BY <1>3, ReportedStep, DrainAlone DEF ReleaseInv, HoldInv, Reader
  <2>2. PICK e \in FromReader :
          /\ PushOrDrop(e)
          /\ \/ e = ReleaseOf("BTN", 1) /\ rpc = "release1" /\ rpc' = "release2"
             \/ e = ReleaseOf("BTN", 2) /\ rpc = "release2" /\ rpc' = "release3"
             \/ e = ReleaseOf("RELEASE", 0) /\ rpc = "release3" /\ rpc' = "loop"
    BY <1>3 DEF ReleaseAll, ReleaseHeld, FromReader, ReleaseOf
  <2>3. e \in Line /\ ~Raises(e, x)
    BY <2>2 DEF Line, FromReader, Command, Raises
  <2>4. e = ReleaseFor(x) \/ Released(x)
    <3>1. x \in {1, 2, Modifiers}
      BY DEF Things
    <3> QED
      BY <2>2, <3>1 DEF Released, ReleaseFor, Modifiers
  <2>5. e = ReleaseFor(x) => Drops(e, x)
    BY DEF ReleaseFor, ReleaseOf, Command, Drops
  <2>6. CASE HasRoom
    <3>1. q' = Append(q, e) /\ dropped' = dropped \ {e}
      BY <2>2, <2>6 DEF PushOrDrop, Push
    <3>2. CASE e = ReleaseFor(x)
      BY <1>0, <2>3, <2>5, <3>1, <3>2, BehindAppend
    <3>3. CASE e # ReleaseFor(x)
      <4>1. Behind(q, x) /\ (Holding(x) => Waits(q, x))
        BY <2>4, <3>1, <3>3 DEF ReleaseInv, Following
      <4>2. Holding(x)' => Holding(x)
        BY <2>1 DEF Still
      <4> QED
        BY <1>0, <2>3, <3>1, <4>1, <4>2, BehindAppend
    <3> QED
      BY <3>2, <3>3
  <2>7. CASE ~HasRoom
    <3>1. q' = q /\ dropped' = dropped \cup {e}
      BY <2>2, <2>7 DEF PushOrDrop, ivars
    <3> QED
      BY <1>1, <2>1, <2>4, <3>1
  <2> QED
    BY <2>6, <2>7
<1>4. CASE Reader /\ ~ReleaseAll
  <2>1. Still
    BY <1>4, ReportedStep, DrainAlone DEF ReleaseInv, HoldInv
  <2>2. /\ ~ReceiveLine /\ ~PeerGone /\ ~CloseConn /\ ~Publish
        /\ CheckQuit \/ AcceptFails \/ \E f \in FDs : Accept(f)
    BY <1>4 DEF Reader, ReceiveLine, PeerGone, CloseConn, Publish, Released, readerVars
  <2>3. q' = q /\ rpc \in {"loop", "accept"}
    BY <2>2 DEF CheckQuit, AcceptFails, Accept, ivars
  <2>4. dropped' = dropped
    BY <1>4, DroppedKept
  <2> QED
    BY <1>1, <2>1, <2>3, <2>4 DEF Released
<1>5. CASE ~Reader /\ ~DrainApply
  <2>1. Still /\ q' = q
    BY <1>5, ReportedStep, RingOK DEF ReleaseInv, HoldInv
  <2>2. rpc' = rpc /\ dropped' = dropped
    BY <1>5, OthersKeep, DroppedKept DEF Reading, SendVerb, readerVars, Reader
  <2> QED
    BY <1>1, <2>1, <2>2 DEF Released
<1> QED
  BY <1>2, <1>3, <1>4, <1>5

LEMMA ReleaseStart == Init => ReleaseInv
<1> SUFFICES ASSUME Init PROVE ReleaseInv
  OBVIOUS
<1>1. q = <<>> /\ mods = {} /\ btns = {} /\ kmsBtns = {} /\ reg = Empty
  BY DEF Init, InputInit
<1>2. PICK p \in Positions :
        guest = [pos |-> p, keys |-> {}, mods |-> {}, mouse |-> {}, pen |-> {}]
  BY DEF Init, InputInit
<1>3. Len(q) = 0
  BY <1>1
<1>4. Shown = {} /\ guest.pen = {} /\ guest.mods = {} /\ guest.mouse = {}
      /\ DOMAIN guest = {"pos", "keys", "mods", "mouse", "pen"}
  BY <1>1, <1>2 DEF Shown
<1>5. Reported
  BY <1>1, <1>4 DEF Reported, ModsReported, ButtonsReported, Empty
<1>6. Following
  BY <1>1, <1>3, <1>4 DEF Following, Behind, Holding
<1> QED
  BY <1>5, <1>6 DEF ReleaseInv

LEMMA ReleaseInvariance ==
  ASSUME Spacing
  PROVE  MCSpec => [](scenario = "hold" => HoldInv /\ ReleaseInv)
<1>1. MCInit => (scenario = "hold" => HoldInv /\ ReleaseInv)
  BY HoldStart, ReleaseStart DEF MCInit
<1>2. (scenario = "hold" => HoldInv /\ ReleaseInv) /\ [MCNext]_<<vars, scenario>>
        => (scenario = "hold" => HoldInv /\ ReleaseInv)'
  <2> SUFFICES ASSUME scenario = "hold" => HoldInv /\ ReleaseInv, [MCNext]_<<vars, scenario>>,
                      scenario' = "hold"
               PROVE  HoldInv' /\ ReleaseInv'
    OBVIOUS
  <2>1. scenario = "hold" /\ [Next]_vars
    BY DEF MCNext
  <2>2. HoldInv /\ ReleaseInv
    BY <2>1
  <2>3. HoldInv'
    BY <2>1, <2>2, QueuedStep, SpacedStep DEF HoldInv
  <2>5. Reported'
    BY <2>1, <2>2, ReportedStep DEF ReleaseInv
  <2>6. Following'
    BY <2>1, <2>2, FollowingStep
  <2> QED
    BY <2>3, <2>5, <2>6 DEF ReleaseInv
<1> QED
  BY <1>1, <1>2, PTL DEF MCSpec

(* Once the last client has gone, and the guest has read what there was,   *)
(* it holds no modifier and, on a fixed route, no button but one whose     *)
(* release did not fit into the ring, whatever the ring's size, the        *)
(* clients and their verbs: a release follows each press that was queued   *)
(* (ctlsock.c:588-596).                                                    *)
THEOREM NothingStaysHeld == ASSUME Spacing PROVE MCSpec => []HeldReleased
<1>1. (scenario = "hold" => HoldInv /\ ReleaseInv) => HeldReleased
  <2> SUFFICES ASSUME ReleaseInv, Quiet
               PROVE  /\ guest.mods # {} => ReleaseOf("RELEASE", 0) \in dropped
                      /\ PTR_MODE # "auto" =>
                           \A b \in guest.mouse \cup guest.pen : ReleaseOf("BTN", b) \in dropped
    BY DEF HeldReleased, ButtonsReleased
  <2>1. q = <<>> /\ reg = Empty /\ rpc \in {"loop", "accept", "done"}
    BY DEF Quiet
  <2>2. ASSUME NEW x \in Things, Holding(x) PROVE ReleaseFor(x) \in dropped
    <3>1. ReleaseFor(x) \notin dropped => Waits(q, x)
      BY <2>1, <2>2 DEF ReleaseInv, Following, Released
    <3>2. ~Waits(<<>>, x)
      BY DEF Waits
    <3> QED
      BY <2>1, <3>1, <3>2
  <2>3. ASSUME guest.mods # {} PROVE ReleaseOf("RELEASE", 0) \in dropped
    <3>1. guest.mods = mods
      BY <2>1 DEF ReleaseInv, Reported, ModsReported, Empty
    <3> QED
      BY <2>2, <2>3, <3>1 DEF Holding, Things, ReleaseFor
  <2>4. ASSUME FixedRoute, NEW b \in guest.mouse \cup guest.pen
        PROVE  ReleaseOf("BTN", b) \in dropped
    <3>1. ButtonsReported
      BY <2>4 DEF ReleaseInv, Reported
    <3>2. guest.mouse = kmsBtns
      BY <2>1, <3>1 DEF ButtonsReported, Empty
    <3>3. b \in Shown /\ b \in {1, 2}
      BY <2>4, <3>1, <3>2 DEF ButtonsReported, Shown
    <3> QED
      BY <2>2, <2>4, <3>3 DEF Holding, Things, ReleaseFor, Modifiers
  <2> QED
    BY <2>3, <2>4 DEF FixedRoute
<1> QED
  BY <1>1, ReleaseInvariance, PTL
=============================================================================
