--------------------------- MODULE KeyPathProofs ---------------------------
(***************************************************************************)
(* The guest's view of the keyboard follows SDL's (KeyPath), for every set *)
(* of keys and every length of the ring.                                   *)
(*                                                                         *)
(* The invariant is an account of each key, and of the modifier's state:   *)
(* the last event about it that is still in SDL's queue says what SDL      *)
(* believes.  If there is none, and the key's latest event was not given   *)
(* up, the last one in the ring says it; if there is none there either,    *)
(* the register does; and then the guest.  The ring is read as the queue   *)
(* it stands for.                                                          *)
(***************************************************************************)
EXTENDS KeyPath, FiniteSetTheorems, SequenceTheorems, TLAPS

All == Keys \cup {Modifier}

(* Does an event tell of the key x, and what?  Every key event carries the *)
(* modifier's state.                                                       *)
Tells(e, x) == IF x = Modifier THEN e.key \notin {Mouse, Pause, Unpause} ELSE e.key = x
Says(e, x)  == IF x = Modifier THEN e.mod ELSE e.down

(* None of the events of a queue tells of x; the last one that does agrees *)
(* with the set of keys D.                                                 *)
Silent(q, x) == \A i \in 1 .. Len(q) : ~Tells(q[i], x)
LastOK(q, x, D) ==
  \A i \in 1 .. Len(q) :
    Tells(q[i], x) /\ (\A j \in 1 .. Len(q) : j > i => ~Tells(q[j], x))
      => (Says(q[i], x) <=> x \in D)

(* Of a queue without its first event. *)
LEMMA TailOK ==
  ASSUME NEW S, NEW q \in Seq(S), q # <<>>, NEW x, NEW D, LastOK(q, x, D)
  PROVE  /\ LastOK(Tail(q), x, D)
         /\ Silent(Tail(q), x) /\ Tells(Head(q), x) => (Says(Head(q), x) <=> x \in D)
         /\ Silent(Tail(q), x) /\ ~Tells(Head(q), x) => Silent(q, x)
<1> DEFINE t == Tail(q)
           n == Len(q)
<1>1. /\ n \in Nat \ {0} /\ Len(t) = n - 1 /\ Head(q) = q[1]
      /\ \A i \in 1 .. n - 1 : t[i] = q[i + 1]
  OBVIOUS
<1>2. ASSUME NEW i \in 1 .. Len(t), Tells(t[i], x),
             \A j \in 1 .. Len(t) : j > i => ~Tells(t[j], x)
      PROVE  Says(t[i], x) <=> x \in D
  <2> HIDE DEF t, n
  <2>1. i + 1 \in 1 .. n /\ t[i] = q[i + 1]
    BY <1>1
  <2>2. ASSUME NEW j \in 1 .. n, j > i + 1 PROVE ~Tells(q[j], x)
    <3>1. j - 1 \in 1 .. Len(t) /\ j - 1 > i /\ t[j - 1] = q[(j - 1) + 1] /\ (j - 1) + 1 = j
      BY <1>1, <2>2
    <3> QED
      BY <1>2, <3>1
  <2> QED
    BY <1>2, <2>1, <2>2 DEF LastOK, n
<1>3. ASSUME Silent(t, x) PROVE \A j \in 1 .. n : j > 1 => ~Tells(q[j], x)
  <2> HIDE DEF t, n
  <2> SUFFICES ASSUME NEW j \in 1 .. n, j > 1 PROVE ~Tells(q[j], x)
    OBVIOUS
  <2>1. j - 1 \in 1 .. Len(t) /\ t[j - 1] = q[(j - 1) + 1] /\ (j - 1) + 1 = j
    BY <1>1
  <2> QED
    BY <1>3, <2>1 DEF Silent
<1>4. LastOK(t, x, D)
  BY <1>2 DEF LastOK
<1>5. 1 \in 1 .. n
  BY <1>1
<1>6. Silent(t, x) /\ Tells(q[1], x) => (Says(q[1], x) <=> x \in D)
  BY <1>3, <1>5 DEF LastOK
<1>7. Silent(t, x) /\ ~Tells(q[1], x) => Silent(q, x)
  <2> SUFFICES ASSUME Silent(t, x), ~Tells(q[1], x), NEW j \in 1 .. n PROVE ~Tells(q[j], x)
    BY DEF Silent
  <2>1. j = 1 \/ j > 1
    BY <1>1
  <2> QED
    BY <1>3, <2>1
<1> QED
  BY <1>1, <1>4, <1>6, <1>7

(* One queue behind another. *)
LEMMA BehindOK ==
  ASSUME NEW S, NEW q \in Seq(S), NEW r \in Seq(S), NEW x
  PROVE  /\ Silent(q \o r, x) => Silent(q, x) /\ Silent(r, x)
         /\ \A D : LastOK(r, x, D) /\ (Silent(r, x) => LastOK(q, x, D)) => LastOK(q \o r, x, D)
<1> DEFINE s == q \o r
           m == Len(q)
           n == Len(r)
<1>1. m \in Nat /\ n \in Nat /\ Len(s) = m + n
  OBVIOUS
<1>2. /\ \A i \in 1 .. m : s[i] = q[i]
      /\ \A i \in m + 1 .. m + n : s[i] = r[i - m]
  <2>1. \A i \in 1 .. m + n : s[i] = IF i <= m THEN q[i] ELSE r[i - m]
    BY ConcatProperties, Zenon
  <2> HIDE DEF s, m, n
  <2> QED
    BY <1>1, <2>1
<1>3. \A i \in 1 .. n : m + i \in 1 .. m + n /\ s[m + i] = r[i]
  <2> SUFFICES ASSUME NEW i \in 1 .. n PROVE m + i \in 1 .. m + n /\ s[m + i] = r[i]
    OBVIOUS
  <2> HIDE DEF s, m, n
  <2>1. m + i \in m + 1 .. m + n /\ (m + i) - m = i
    BY <1>1
  <2> QED
    BY <1>1, <1>2, <2>1
<1> HIDE DEF s, m, n
<1>4. Silent(s, x) => Silent(q, x) /\ Silent(r, x)
  <2> SUFFICES ASSUME Silent(s, x) PROVE Silent(q, x) /\ Silent(r, x)
    OBVIOUS
  <2>1. ASSUME NEW i \in 1 .. m PROVE ~Tells(q[i], x)
    BY <1>1, <1>2 DEF Silent
  <2>2. ASSUME NEW i \in 1 .. n PROVE ~Tells(r[i], x)
    BY <1>1, <1>3 DEF Silent
  <2> QED
    BY <2>1, <2>2 DEF Silent, m, n
<1>5. ASSUME NEW D, LastOK(r, x, D), Silent(r, x) => LastOK(q, x, D) PROVE LastOK(s, x, D)
  <2> SUFFICES ASSUME NEW i \in 1 .. m + n, Tells(s[i], x),
                      \A j \in 1 .. m + n : j > i => ~Tells(s[j], x)
               PROVE  Says(s[i], x) <=> x \in D
    BY <1>1 DEF LastOK
  <2>1. CASE i <= m
    <3>1. ASSUME NEW j \in 1 .. n PROVE ~Tells(r[j], x)
      <4>1. m + j \in 1 .. m + n /\ m + j > i
        BY <1>1, <2>1
      <4> QED
        BY <1>3, <4>1
    <3>2. Silent(r, x)
      BY <3>1 DEF Silent, n
    <3>3. i \in 1 .. m /\ s[i] = q[i]
      BY <1>1, <1>2, <2>1
    <3>4. ASSUME NEW j \in 1 .. m, j > i PROVE ~Tells(q[j], x)
      BY <1>1, <1>2, <3>4
    <3> QED
      BY <1>5, <3>2, <3>3, <3>4 DEF LastOK, m
  <2>2. CASE i > m
    <3>1. i - m \in 1 .. n /\ s[i] = r[i - m]
      BY <1>1, <1>2, <2>2
    <3>2. ASSUME NEW j \in 1 .. n, j > i - m PROVE ~Tells(r[j], x)
      <4>1. m + j \in 1 .. m + n /\ m + j > i
        BY <1>1, <2>2, <3>2
      <4> QED
        BY <1>3, <4>1
    <3> QED
      BY <1>5, <3>1, <3>2 DEF LastOK, n
  <2> QED
    BY <1>1, <2>1, <2>2
<1> QED
  BY <1>4, <1>5 DEF s

(* One event more. *)
LEMMA AppendOK ==
  ASSUME NEW S, NEW q \in Seq(S), NEW e \in S, NEW x
  PROVE  /\ Silent(Append(q, e), x) => Silent(q, x) /\ ~Tells(e, x)
         /\ \A D : /\ Tells(e, x) => (Says(e, x) <=> x \in D)
                   /\ ~Tells(e, x) => LastOK(q, x, D)
                   => LastOK(Append(q, e), x, D)
<1>1. Append(q, e) = q \o <<e>> /\ <<e>> \in Seq(S) /\ Len(<<e>>) = 1 /\ <<e>>[1] = e
  OBVIOUS
<1>2. 1 .. Len(<<e>>) = {1}
  BY <1>1
<1>3. Silent(<<e>>, x) <=> ~Tells(e, x)
  BY <1>1, <1>2 DEF Silent
<1>4. ASSUME NEW D, Tells(e, x) => (Says(e, x) <=> x \in D) PROVE LastOK(<<e>>, x, D)
  BY <1>1, <1>2, <1>4 DEF LastOK
<1> QED
  BY <1>1, <1>3, <1>4, BehindOK

-----------------------------------------------------------------------------
(* The ring as a queue. *)

RingLen(r, w) == IF w >= r THEN w - r ELSE w + MAX_EVENTS - r
Place(r, d)   == IF r + d - 1 >= MAX_EVENTS THEN r + d - 1 - MAX_EVENTS ELSE r + d - 1
RingSeq(f, r, w) == [d \in 1 .. RingLen(r, w) |-> f[Place(r, d)]]

(* What is in the ring is taken from its slots. *)
RingTyped(S, f, r, w) ==
  /\ RingSeq(f, r, w) \in Seq(S) /\ Len(RingSeq(f, r, w)) = RingLen(r, w)
  /\ RingLen(r, w) \in 0 .. MAX_EVENTS - 1
  /\ \A d \in 1 .. RingLen(r, w) :
       Place(r, d) \in Slot /\ RingSeq(f, r, w)[d] = f[Place(r, d)]

LEMMA RingTypeOK ==
  ASSUME NEW S, NEW f \in [Slot -> S], NEW r \in Slot, NEW w \in Slot
  PROVE  RingTyped(S, f, r, w)
<1>1. MAX_EVENTS \in Nat \ {0, 1} /\ r \in 0 .. MAX_EVENTS - 1 /\ w \in 0 .. MAX_EVENTS - 1
  BY KeyAssumption DEF Slot
<1>2. RingLen(r, w) \in 0 .. MAX_EVENTS - 1
  BY <1>1 DEF RingLen
<1>3. ASSUME NEW d \in 1 .. RingLen(r, w) PROVE Place(r, d) \in Slot
  BY <1>1, <1>2 DEF Place, Slot
<1> DEFINE q == RingSeq(f, r, w)
           n == RingLen(r, w)
<1>4. q = [d \in 1 .. n |-> f[Place(r, d)]]
  BY DEF RingSeq
<1> HIDE DEF q, n
<1>5. n \in Nat /\ \A d \in 1 .. n : f[Place(r, d)] \in S
  BY <1>2, <1>3 DEF n
<1>6. q \in Seq(S) /\ Len(q) = n
  BY <1>4, <1>5
<1>7. \A d \in 1 .. n : q[d] = f[Place(r, d)]
  BY <1>4
<1> QED
  BY <1>2, <1>3, <1>6, <1>7 DEF q, n, RingTyped

(* A new event comes last. *)
ComesLast(S, f, r, w, e) ==
  /\ Next1(w) \in Slot /\ [f EXCEPT ![w] = e] \in [Slot -> S]
  /\ RingSeq([f EXCEPT ![w] = e], r, Next1(w)) = Append(RingSeq(f, r, w), e)

LEMMA RingPut ==
  ASSUME NEW S, NEW f \in [Slot -> S], NEW r \in Slot, NEW w \in Slot, NEW e \in S,
         Next1(w) # r
  PROVE  ComesLast(S, f, r, w, e)
<1>1. MAX_EVENTS \in Nat \ {0, 1} /\ r \in 0 .. MAX_EVENTS - 1 /\ w \in 0 .. MAX_EVENTS - 1
  BY KeyAssumption DEF Slot
<1> DEFINE v == Next1(w)
           g == [f EXCEPT ![w] = e]
           n == RingLen(r, w)
           q == RingSeq(f, r, w)
           p == RingSeq(g, r, v)
<1>2. v \in Slot /\ g \in [Slot -> S]
  BY <1>1 DEF Next1, Slot
<1>3. n \in Nat /\ RingLen(r, v) = n + 1 /\ Place(r, n + 1) = w
  BY <1>1 DEF Next1, RingLen, Place
<1>4. \A d \in 1 .. n : Place(r, d) # w
  BY <1>1 DEF RingLen, Place
<1>5. /\ q \in Seq(S) /\ Len(q) = n
      /\ \A d \in 1 .. n : Place(r, d) \in Slot /\ q[d] = f[Place(r, d)]
  <2>1. RingTyped(S, f, r, w)
    BY RingTypeOK
  <2> QED
    BY <2>1, Zenon DEF RingTyped
<1>6. /\ p \in Seq(S) /\ Len(p) = n + 1
      /\ \A d \in 1 .. n + 1 : p[d] = g[Place(r, d)]
  <2>1. RingTyped(S, g, r, v)
    BY <1>2, RingTypeOK
  <2> QED
    BY <1>3, <2>1, Zenon DEF RingTyped
<1>7. g[w] = e /\ \A d \in 1 .. n : g[Place(r, d)] = f[Place(r, d)]
  BY <1>4, <1>5
<1> HIDE DEF v, g, n, q, p
<1>8. \A d \in 1 .. n + 1 : p[d] = Append(q, e)[d]
  <2> SUFFICES ASSUME NEW d \in 1 .. n + 1 PROVE p[d] = Append(q, e)[d]
    OBVIOUS
  <2>1. CASE d = n + 1
    <3>1. Append(q, e)[d] = e
      BY <1>3, <1>5, <2>1
    <3> QED
      BY <1>3, <1>6, <1>7, <2>1, <3>1
  <2>2. CASE d \in 1 .. n
    <3>1. Append(q, e)[d] = q[d]
      BY <1>3, <1>5, <2>2
    <3> QED
      BY <1>3, <1>5, <1>6, <1>7, <2>2, <3>1
  <2>3. d = n + 1 \/ d \in 1 .. n
    BY <1>3
  <2> QED
    BY <2>1, <2>2, <2>3
<1>9. Append(q, e) \in Seq(S) /\ Len(Append(q, e)) = n + 1
  BY <1>5
<1>10. p = Append(q, e)
  BY <1>6, <1>8, <1>9, SeqEqual
<1> QED
  BY <1>2, <1>10, Zenon DEF v, g, q, p, ComesLast

(* The first event goes, and its slot is blank. *)
GoesFirst(S, f, r, w, e) ==
  /\ Next1(r) \in Slot /\ [f EXCEPT ![r] = e] \in [Slot -> S]
  /\ RingSeq(f, r, w) # <<>> /\ Head(RingSeq(f, r, w)) = f[r]
  /\ RingSeq([f EXCEPT ![r] = e], Next1(r), w) = Tail(RingSeq(f, r, w))

LEMMA RingTake ==
  ASSUME NEW S, NEW f \in [Slot -> S], NEW r \in Slot, NEW w \in Slot, NEW e \in S, r # w
  PROVE  GoesFirst(S, f, r, w, e)
<1>1. MAX_EVENTS \in Nat \ {0, 1} /\ r \in 0 .. MAX_EVENTS - 1 /\ w \in 0 .. MAX_EVENTS - 1
  BY KeyAssumption DEF Slot
<1> DEFINE v == Next1(r)
           g == [f EXCEPT ![r] = e]
           n == RingLen(r, w)
           q == RingSeq(f, r, w)
           p == RingSeq(g, v, w)
<1>2. v \in Slot /\ g \in [Slot -> S]
  BY <1>1 DEF Next1, Slot
<1>3. n \in Nat \ {0} /\ RingLen(v, w) = n - 1 /\ Place(r, 1) = r
  BY <1>1 DEF Next1, RingLen, Place
<1>4. \A d \in 1 .. n - 1 : Place(v, d) = Place(r, d + 1) /\ Place(r, d + 1) # r
  BY <1>1 DEF Next1, RingLen, Place
<1>5. /\ q \in Seq(S) /\ Len(q) = n
      /\ \A d \in 1 .. n : Place(r, d) \in Slot /\ q[d] = f[Place(r, d)]
  <2>1. RingTyped(S, f, r, w)
    BY RingTypeOK
  <2> QED
    BY <2>1, Zenon DEF RingTyped
<1>6. /\ p \in Seq(S) /\ Len(p) = n - 1
      /\ \A d \in 1 .. n - 1 : p[d] = g[Place(v, d)]
  <2>1. RingTyped(S, g, v, w)
    BY <1>2, RingTypeOK
  <2> QED
    BY <1>3, <2>1, Zenon DEF RingTyped
<1>7. \A d \in 1 .. n - 1 : d + 1 \in 1 .. n /\ g[Place(r, d + 1)] = f[Place(r, d + 1)]
  <2> SUFFICES ASSUME NEW d \in 1 .. n - 1
               PROVE  d + 1 \in 1 .. n /\ g[Place(r, d + 1)] = f[Place(r, d + 1)]
    OBVIOUS
  <2>1. d + 1 \in 1 .. n
    BY <1>3
  <2> QED
    BY <1>4, <1>5, <2>1
<1> HIDE DEF v, g, n, q, p
<1>8. q # <<>> /\ Head(q) = f[r]
  <2>1. q # <<>> /\ Head(q) = q[1] /\ 1 \in 1 .. n
    BY <1>3, <1>5
  <2> QED
    BY <1>3, <1>5, <2>1
<1>9. \A d \in 1 .. n - 1 : p[d] = Tail(q)[d]
  <2> SUFFICES ASSUME NEW d \in 1 .. n - 1 PROVE p[d] = Tail(q)[d]
    OBVIOUS
  <2>1. Tail(q)[d] = q[d + 1]
    BY <1>3, <1>5
  <2> QED
    BY <1>4, <1>5, <1>6, <1>7, <2>1
<1>10. Tail(q) \in Seq(S) /\ Len(Tail(q)) = n - 1
  BY <1>5, <1>8
<1>11. p = Tail(q)
  BY <1>6, <1>9, <1>10, SeqEqual
<1> QED
  BY <1>2, <1>8, <1>11, Zenon DEF v, g, q, p, GoesFirst

-----------------------------------------------------------------------------
(* SDL_ResetKeyboard: every key that was down comes up, and last of all    *)
(* the modifier's state is told to be up.                                  *)
Magic == <<Event(None, TRUE, TRUE), Event(None, FALSE, FALSE)>>

LEMMA LettersOK ==
  ASSUME NEW S, IsFiniteSet(S)
  PROVE  /\ SetToSeq(S) \in Seq(S)
         /\ \A x \in S : \E i \in DOMAIN SetToSeq(S) : SetToSeq(S)[i] = x
<1> DEFINE n == Cardinality(S)
           F == Bijection(1 .. n, S)
           f == SetToSeq(S)
<1>1. n \in Nat /\ F # {}
  BY FS_CardinalityType DEF ExistsBijection
<1>2. \E h \in [1 .. n -> S] : IsInjective(h)
  BY <1>1 DEF Bijection, Injection
<1>3. f \in [1 .. n -> S] /\ IsInjective(f)
  BY <1>2 DEF SetToSeq
<1>4. f \in Injection(1 .. n, S) /\ Cardinality(1 .. n) = n
  BY <1>1, <1>3, FS_Interval DEF Injection
<1>5. f \in Surjection(1 .. n, S)
  BY <1>1, <1>4, FS_Injection
<1> QED
  BY <1>1, <1>3, <1>5 DEF Surjection

(* Of a key that was down the last event says that it is up, and of every  *)
(* key all that say anything.                                              *)
LEMMA KeyUpsOK ==
  ASSUME sdlDown \in SUBSET All, IsFiniteSet(sdlDown)
  PROVE  /\ KeyUps \in Seq(Events)
         /\ \A x \in Keys : LastOK(KeyUps, x, {})
         /\ \A x \in Keys \cap sdlDown : ~Silent(KeyUps, x)
<1> DEFINE S == sdlDown \ {Modifier}
           letters == SetToSeq(S)
           p == [i \in DOMAIN letters |-> Event(letters[i], FALSE, Modifier \in sdlDown)]
           m == IF Modifier \in sdlDown THEN <<Event(Modifier, FALSE, FALSE)>> ELSE <<>>
<1>1. S \subseteq Keys /\ IsFiniteSet(S) /\ S = sdlDown \ {Modifier}
  BY FS_Subset DEF All
<1>3. KeyUps = p \o m
  BY DEF KeyUps
<1> HIDE DEF S
<1>2. SetToSeq(S) \in Seq(S) /\ \A x \in S : \E i \in DOMAIN SetToSeq(S) : SetToSeq(S)[i] = x
  BY <1>1, LettersOK, Zenon
<1> HIDE DEF letters
<1>4. /\ DOMAIN letters = 1 .. Len(letters) /\ Len(letters) \in Nat
      /\ \A i \in DOMAIN letters : letters[i] \in S
      /\ \A x \in S : \E i \in DOMAIN letters : letters[i] = x
  <2>1. letters \in Seq(S)
    BY <1>2 DEF letters
  <2>2. \A x \in S : \E i \in DOMAIN letters : letters[i] = x
    BY <1>2 DEF letters
  <2> QED
    BY <2>1, <2>2, LenProperties, ElementOfSeq
<1>5. \A y \in All : Event(y, FALSE, Modifier \in sdlDown) \in Events
                     /\ Event(y, FALSE, FALSE) \in Events
  BY DEF Event, Events, All
<1>6. p \in Seq(Events) /\ Len(p) = Len(letters)
      /\ \A i \in 1 .. Len(p) : p[i] = Event(letters[i], FALSE, Modifier \in sdlDown)
  <2> DEFINE ev(y) == Event(y, FALSE, Modifier \in sdlDown)
             n == Len(letters)
  <2>1. n \in Nat /\ \A i \in 1 .. n : ev(letters[i]) \in Events
    BY <1>1, <1>4, <1>5 DEF All
  <2>2. p = [i \in 1 .. n |-> ev(letters[i])]
    BY <1>4
  <2> HIDE DEF ev, n, p
  <2>3. p \in Seq(Events) /\ Len(p) = n
    BY <2>1, <2>2
  <2>4. \A i \in 1 .. n : p[i] = ev(letters[i])
    BY <2>2
  <2> QED
    BY <2>3, <2>4 DEF ev, n
<1> HIDE DEF p
<1>7. m \in Seq(Events)
  <2>1. Event(Modifier, FALSE, FALSE) \in Events
    BY <1>5 DEF All
  <2>2. \A e \in Events : <<e>> \in Seq(Events)
    <3> HIDE DEF Events
    <3> QED
      OBVIOUS
  <2>3. <<>> \in Seq(Events)
    OBVIOUS
  <2> QED
    BY <2>1, <2>2, <2>3, Zenon
<1>8. ASSUME NEW x \in Keys PROVE LastOK(m, x, {})
  <2>1. x # Modifier
    BY KeyAssumption
  <2>2. CASE Modifier \in sdlDown
    <3>1. m = <<Event(Modifier, FALSE, FALSE)>>
      BY <2>2
    <3>2. \A i \in 1 .. Len(m) : m[i] = Event(Modifier, FALSE, FALSE)
      <4> HIDE DEF m
      <4>1. Len(m) = 1 /\ m[1] = Event(Modifier, FALSE, FALSE)
        BY <3>1
      <4>2. 1 .. Len(m) = {1}
        BY <4>1
      <4> QED
        BY <4>1, <4>2
    <3>3. ~Says(Event(Modifier, FALSE, FALSE), x)
      BY <2>1 DEF Says, Event
    <3> HIDE DEF m
    <3> QED
      BY <3>2, <3>3 DEF LastOK
  <2>3. CASE Modifier \notin sdlDown
    <3>1. Len(m) = 0
      BY <2>3
    <3> HIDE DEF m
    <3> QED
      BY <3>1 DEF LastOK
  <2> QED
    BY <2>2, <2>3
<1> HIDE DEF m
<1>9. ASSUME NEW x \in Keys PROVE LastOK(p, x, {}) /\ (x \in sdlDown => ~Silent(p, x))
  <2>1. x # Modifier
    BY KeyAssumption
  <2>2. \A i \in 1 .. Len(p) : ~Says(p[i], x)
    <3> SUFFICES ASSUME NEW i \in 1 .. Len(p) PROVE ~Says(p[i], x)
      OBVIOUS
    <3>1. p[i] = Event(letters[i], FALSE, Modifier \in sdlDown)
      BY <1>6, Zenon
    <3>2. \A k, b : ~Event(k, FALSE, b).down
      BY DEF Event
    <3> QED
      BY <2>1, <3>1, <3>2, Zenon DEF Says
  <2>3. LastOK(p, x, {})
    BY <2>2 DEF LastOK
  <2>4. ASSUME x \in sdlDown PROVE ~Silent(p, x)
    <3>1. PICK i \in DOMAIN letters : letters[i] = x
      BY <1>1, <1>4, <2>1, <2>4
    <3>2. i \in 1 .. Len(p) /\ p[i].key = x
      <4>1. i \in 1 .. Len(p) /\ p[i] = Event(letters[i], FALSE, Modifier \in sdlDown)
        BY <1>4, <1>6
      <4>2. \A k, b : Event(k, FALSE, b).key = k
        BY DEF Event
      <4> QED
        BY <3>1, <4>1, <4>2, Zenon
    <3> QED
      BY <2>1, <3>2 DEF Silent, Tells
  <2> QED
    BY <2>3, <2>4
<1>10. p \o m \in Seq(Events)
  BY <1>6, <1>7
<1>11. \A x \in Keys : LastOK(p \o m, x, {}) /\ (x \in sdlDown => ~Silent(p \o m, x))
  BY <1>6, <1>7, <1>8, <1>9, BehindOK
<1> QED
  BY <1>3, <1>10, <1>11

-----------------------------------------------------------------------------
(* The invariant. *)

Ringed == [key : All \cup {None, Mouse}, down : BOOLEAN, mod : BOOLEAN]

Typed ==
  /\ sdlQueue \in Seq(Events) /\ sdlDown \in SUBSET All /\ IsFiniteSet(sdlDown)
  /\ mainEvent \in [Slot -> Ringed] /\ mainEventWrite \in Slot /\ mainEventRead \in Slot
  /\ kmdata \in Ringed /\ guest \in [keys : SUBSET Keys, mod : BOOLEAN]
  /\ overrun => received

Backlog == RingSeq(mainEvent, mainEventRead, mainEventWrite)

(* What the guest believes of x when it has read the register. *)
Latest(x) ==
  IF received /\ Tells(kmdata, x) THEN Says(kmdata, x)
  ELSE IF x = Modifier THEN guest.mod ELSE x \in guest.keys

(* The last word on x on the emulation thread's side is that of D. *)
Agreed(x, D) ==
  /\ LastOK(Backlog, x, D)
  /\ Silent(Backlog, x) /\ ~overrun => (Latest(x) <=> x \in D)

(* The last event of x that is under way says what SDL believes; if there  *)
(* is none before the ring, the last one in the ring does, and so on up to *)
(* the guest.                                                              *)
Followed(x) ==
  /\ LastOK(sdlQueue, x, sdlDown)
  /\ x \notin lost /\ Silent(sdlQueue, x) => Agreed(x, sdlDown)

IInv == Typed /\ \A x \in All : Followed(x)

(* At first nothing is pressed. *)
LEMMA InitOK == Init => IInv
<1> SUFFICES ASSUME Init PROVE IInv
  OBVIOUS
<1>1. /\ sdlDown = {} /\ sdlQueue = <<>> /\ mainEvent = [i \in Slot |-> NoEvent]
      /\ mainEventWrite = 0 /\ mainEventRead = 0 /\ kmdata = NoEvent /\ received = FALSE
      /\ overrun = FALSE /\ guest = [keys |-> {}, mod |-> FALSE]
  BY Zenon DEF Init
<1>2. NoEvent \in Ringed
  BY DEF NoEvent, Event, Ringed
<1>3. 0 \in Slot
  BY KeyAssumption DEF Slot
<1>4. Typed
  BY <1>1, <1>2, <1>3, FS_EmptySet DEF Typed
<1>5. RingTyped(Ringed, mainEvent, mainEventRead, mainEventWrite) /\ RingLen(0, 0) = 0
  BY <1>4, RingTypeOK DEF Typed, RingLen
<1>6. Len(Backlog) = 0 /\ Len(sdlQueue) = 0
  BY <1>1, <1>5 DEF Backlog, RingTyped
<1>7. ASSUME NEW x \in All PROVE Followed(x)
  <2>1. \A D : LastOK(sdlQueue, x, D) /\ LastOK(Backlog, x, D)
    BY <1>6 DEF LastOK
  <2>2. Latest(x) <=> x \in sdlDown
    BY <1>1 DEF Latest
  <2> QED
    BY <2>1, <2>2 DEF Followed, Agreed
<1> QED
  BY <1>4, <1>7 DEF IInv

(* Nothing under way: what the guest believes is what SDL believes. *)
LEMMA AgreesOK == IInv => GuestAgrees
<1> SUFFICES ASSUME IInv, Quiet PROVE /\ \A k \in Keys \ lost : (k \in guest.keys) = (k \in sdlDown)
                                      /\ Modifier \notin lost => guest.mod = (Modifier \in sdlDown)
  BY DEF GuestAgrees
<1>1. /\ sdlQueue = <<>> /\ mainEventRead = mainEventWrite /\ ~received /\ ~overrun
  BY DEF Quiet, IInv, Typed
<1>2. RingTyped(Ringed, mainEvent, mainEventRead, mainEventWrite)
  BY RingTypeOK DEF IInv, Typed
<1>3. RingLen(mainEventRead, mainEventRead) = 0
  <2>1. mainEventRead \in 0 .. MAX_EVENTS - 1 /\ MAX_EVENTS \in Nat
    BY KeyAssumption DEF IInv, Typed, Slot
  <2> QED
    BY <2>1 DEF RingLen
<1>4. Len(Backlog) = 0 /\ Len(sdlQueue) = 0
  BY <1>1, <1>2, <1>3 DEF Backlog, RingTyped
<1>5. ASSUME NEW x \in All \ lost PROVE Latest(x) <=> x \in sdlDown
  <2>1. Silent(sdlQueue, x) /\ Silent(Backlog, x)
    BY <1>4 DEF Silent
  <2> QED
    BY <1>1, <2>1 DEF IInv, Followed, Agreed
<1>6. ASSUME NEW k \in Keys \ lost PROVE (k \in guest.keys) = (k \in sdlDown)
  <2>1. k # Modifier /\ k \in All
    BY KeyAssumption DEF All
  <2> QED
    BY <1>1, <1>5, <2>1 DEF Latest
<1>7. ASSUME Modifier \notin lost PROVE guest.mod = (Modifier \in sdlDown)
  <2>1. guest.mod \in BOOLEAN
    BY DEF IInv, Typed
  <2> QED
    BY <1>1, <1>5, <1>7, <2>1 DEF Latest, All
<1> QED
  BY <1>6, <1>7

-----------------------------------------------------------------------------
(* The steps. *)

(* Two views that agree on x. *)
LEMMA LastSame ==
  ASSUME NEW q, NEW x, NEW D, NEW E, x \in D <=> x \in E, LastOK(q, x, D)
  PROVE  LastOK(q, x, E)
  BY DEF LastOK

(* The names are no keys, and differ. *)
LEMMA Names ==
  /\ PauseKey \in Keys /\ Modifier \notin Keys /\ None \notin Keys /\ Mouse \notin Keys
  /\ Pause \notin Keys /\ Unpause \notin Keys
  /\ Modifier # None /\ Modifier # Mouse /\ Modifier # Pause /\ Modifier # Unpause
  /\ None # Mouse /\ None # Pause /\ None # Unpause /\ Mouse # Pause /\ Mouse # Unpause
<1>1. /\ PauseKey \in Keys /\ Modifier \notin Keys /\ None \notin Keys /\ Mouse \notin Keys
      /\ Pause \notin Keys /\ Unpause \notin Keys
  BY KeyAssumption
<1>2. /\ Modifier # None /\ Modifier # Mouse /\ Modifier # Pause /\ Modifier # Unpause
      /\ None # Mouse /\ None # Pause /\ None # Unpause /\ Mouse # Pause /\ Mouse # Unpause
  BY DEF Modifier, None, Mouse, Pause, Unpause
<1> QED
  BY <1>1, <1>2

(* A key event given up or kept is about the keys it tells of. *)
LEMMA AboutOK ==
  ASSUME NEW e \in Events, NEW x \in All
  PROVE  /\ Tells(e, x) => x \in About(e)
         /\ e.key \notin {Pause, Unpause} /\ x \in About(e) => Tells(e, x)
  BY Names DEF Tells, About, All, Events

(* The fields of an event. *)
LEMMA EventOK ==
  ASSUME NEW k \in All \cup {None, Mouse, Pause, Unpause}, NEW d \in BOOLEAN, NEW m \in BOOLEAN
  PROVE  /\ Event(k, d, m) \in Events
         /\ Event(k, d, m).key = k /\ Event(k, d, m).down = d /\ Event(k, d, m).mod = m
  BY DEF Event, Events, All

(* The emulation thread's side and the guest left alone. *)
LEMMA AgreedKept ==
  ASSUME UNCHANGED ring, kmdata' = kmdata, received' = received, overrun' = overrun,
         guest' = guest, NEW x, NEW D, NEW E, x \in D <=> x \in E, Agreed(x, D)
  PROVE  /\ LastOK(Backlog', x, E)
         /\ Silent(Backlog', x) /\ ~overrun' => (Latest(x)' <=> x \in E)
<1>1. Backlog' = Backlog
  BY DEF Backlog, ring
<1>2. Latest(x)' <=> Latest(x)
  BY DEF Latest
<1>3. LastOK(Backlog, x, E)
  BY LastSame DEF Agreed
<1> QED
  BY <1>1, <1>2, <1>3, Zenon DEF Agreed

(* An event of the user's. *)
LEMMA UserEvent ==
  ASSUME Typed, UserKeeps, NEW e \in Events, sdlQueue' = Append(sdlQueue, e),
         NEW x \in All, Followed(x),
         Tells(e, x) => (Says(e, x) <=> x \in sdlDown'),
         ~Tells(e, x) => (x \in sdlDown' <=> x \in sdlDown)
  PROVE  Followed(x)'
<1>1. sdlQueue \in Seq(Events)
  BY Zenon DEF Typed
<1>2. /\ UNCHANGED ring /\ kmdata' = kmdata /\ received' = received /\ overrun' = overrun
      /\ guest' = guest /\ lost' = lost
  BY DEF UserKeeps, kms
<1>3. LastOK(sdlQueue, x, sdlDown)
  BY Zenon DEF Followed
<1>4. ~Tells(e, x) => LastOK(sdlQueue, x, sdlDown')
  BY <1>3, LastSame
<1>5. LastOK(sdlQueue', x, sdlDown')
  BY <1>1, <1>4, AppendOK
<1>6. ASSUME x \notin lost, Silent(sdlQueue', x)
      PROVE  /\ LastOK(Backlog', x, sdlDown')
             /\ Silent(Backlog', x) /\ ~overrun' => (Latest(x)' <=> x \in sdlDown')
  <2>1. Silent(sdlQueue, x) /\ ~Tells(e, x)
    BY <1>1, <1>6, AppendOK
  <2>2. Agreed(x, sdlDown)
    BY <1>6, <2>1, Zenon DEF Followed
  <2> QED
    BY <1>2, <2>1, <2>2, AgreedKept
<1> QED
  BY <1>2, <1>5, <1>6 DEF Followed, Agreed

(* The user's keys, the mouse and the requests of another thread. *)
LEMMA UserOK == IInv /\ User => IInv'
<1> SUFFICES ASSUME IInv, User PROVE IInv'
  OBVIOUS
<1>1. /\ sdlQueue \in Seq(Events) /\ sdlDown \in SUBSET All /\ IsFiniteSet(sdlDown)
      /\ Typed /\ \A x \in All : Followed(x)
  BY Zenon DEF IInv, Typed
<1>2. ASSUME UserKeeps, sdlQueue' \in Seq(Events), sdlDown' \in SUBSET All, IsFiniteSet(sdlDown')
      PROVE  Typed'
  BY <1>1, <1>2 DEF Typed, UserKeeps, ring, kms
<1>3. ASSUME NEW k \in All, Press(k) PROVE IInv'
  <2> DEFINE e == Event(k, TRUE, Modifier \in sdlDown')
  <2>1. /\ sdlDown' = sdlDown \cup {k} /\ sdlQueue' = Append(sdlQueue, e) /\ UserKeeps
    BY <1>3, Zenon DEF Press
  <2>2. sdlDown' \in SUBSET All /\ IsFiniteSet(sdlDown')
    BY <1>1, <2>1, FS_AddElement
  <2>3. /\ e \in Events /\ e.key = k /\ e.down /\ (e.mod <=> Modifier \in sdlDown')
    <3>1. (Modifier \in sdlDown') \in BOOLEAN
      OBVIOUS
    <3>2. e \in Events /\ e.key = k /\ e.down = TRUE /\ e.mod = (Modifier \in sdlDown')
      BY <3>1, EventOK, Zenon
    <3> QED
      BY <3>2, Zenon
  <2> HIDE DEF e
  <2>4. sdlQueue' \in Seq(Events)
    BY <1>1, <2>1, <2>3
  <2>5. ASSUME NEW x \in All PROVE Followed(x)'
    <3>1. Tells(e, x) => (Says(e, x) <=> x \in sdlDown')
      BY <2>1, <2>3 DEF Tells, Says
    <3>2. ~Tells(e, x) => (x \in sdlDown' <=> x \in sdlDown)
      BY <2>1, <2>3, Names DEF Tells, All
    <3> QED
      BY <1>1, <2>1, <2>3, <3>1, <3>2, UserEvent
  <2> QED
    BY <1>2, <2>1, <2>2, <2>4, <2>5 DEF IInv
<1>4. ASSUME NEW k \in All, Release(k) PROVE IInv'
  <2> DEFINE e == Event(k, FALSE, Modifier \in sdlDown')
  <2>1. /\ sdlDown' = sdlDown \ {k} /\ UserKeeps
        /\ sdlQueue' = IF k \in sdlDown THEN Append(sdlQueue, e) ELSE sdlQueue
    BY <1>4, Zenon DEF Release
  <2>2. sdlDown' \in SUBSET All /\ IsFiniteSet(sdlDown')
    BY <1>1, <2>1, FS_RemoveElement
  <2>3. /\ e \in Events /\ e.key = k /\ ~e.down /\ (e.mod <=> Modifier \in sdlDown')
    <3>1. (Modifier \in sdlDown') \in BOOLEAN
      OBVIOUS
    <3>2. e \in Events /\ e.key = k /\ e.down = FALSE /\ e.mod = (Modifier \in sdlDown')
      BY <3>1, EventOK, Zenon
    <3> QED
      BY <3>2, Zenon
  <2> HIDE DEF e
  <2>4. sdlQueue' \in Seq(Events)
    BY <1>1, <2>1, <2>3
  <2>5. ASSUME NEW x \in All PROVE Followed(x)'
    <3>1. CASE k \in sdlDown
      <4>1. Tells(e, x) => (Says(e, x) <=> x \in sdlDown')
        BY <2>1, <2>3 DEF Tells, Says
      <4>2. ~Tells(e, x) => (x \in sdlDown' <=> x \in sdlDown)
        BY <2>1, <2>3, Names DEF Tells, All
      <4> QED
        BY <1>1, <2>1, <2>3, <3>1, <4>1, <4>2, UserEvent
    <3>2. CASE k \notin sdlDown
      <4>1. sdlDown' = sdlDown /\ sdlQueue' = sdlQueue
        BY <2>1, <3>2
      <4>2. /\ UNCHANGED ring /\ kmdata' = kmdata /\ received' = received /\ overrun' = overrun
            /\ guest' = guest /\ lost' = lost
        BY <2>1 DEF UserKeeps, kms
      <4>3. Followed(x)
        BY <1>1
      <4>4. Agreed(x, sdlDown) =>
              /\ LastOK(Backlog', x, sdlDown)
              /\ Silent(Backlog', x) /\ ~overrun' => (Latest(x)' <=> x \in sdlDown)
        BY <4>2, AgreedKept
      <4> QED
        BY <4>1, <4>2, <4>3, <4>4 DEF Followed, Agreed
    <3> QED
      BY <3>1, <3>2
  <2> QED
    BY <1>2, <2>1, <2>2, <2>4, <2>5 DEF IInv
<1>5. ASSUME NEW y \in {Mouse, Pause, Unpause}, sdlDown' = sdlDown, UserKeeps,
             sdlQueue' = Append(sdlQueue, Event(y, FALSE, FALSE))
      PROVE  IInv'
  <2> DEFINE e == Event(y, FALSE, FALSE)
  <2>1. e \in Events /\ e.key = y
    BY DEF Event, Events
  <2> HIDE DEF e
  <2>2. sdlQueue' \in Seq(Events)
    <3>1. sdlQueue' = Append(sdlQueue, e)
      BY <1>5 DEF e
    <3> QED
      BY <1>1, <2>1, <3>1
  <2>3. ASSUME NEW x \in All PROVE Followed(x)'
    <3>1. ~Tells(e, x)
      BY <2>1, Names DEF Tells, All
    <3> QED
      BY <1>1, <1>5, <2>1, <3>1, UserEvent DEF e
  <2> QED
    BY <1>1, <1>2, <1>5, <2>2, <2>3 DEF IInv
<1>6. CASE Move
  <2>1. sdlDown' = sdlDown /\ UserKeeps /\ sdlQueue' = Append(sdlQueue, Event(Mouse, FALSE, FALSE))
    BY <1>6, Zenon DEF Move
  <2> QED
    BY <1>5, <2>1
<1>7. ASSUME NEW y \in {Pause, Unpause}, GuiEvent_SendSpecialEvent(y) PROVE IInv'
  <2>1. /\ sdlQueue' = Append(sdlQueue, Event(y, FALSE, FALSE))
        /\ UNCHANGED <<user, bEmulationActive, ring, emu, kms, guest, lost>>
    BY <1>7, Zenon DEF GuiEvent_SendSpecialEvent
  <2>2. sdlDown' = sdlDown /\ UserKeeps
    <3> HIDE DEF ring, kms
    <3> QED
      BY <2>1 DEF user, UserKeeps
  <2> QED
    BY <1>5, <2>1, <2>2
<1> QED
  BY <1>3, <1>4, <1>6, <1>7 DEF User, All

(* The events that end a reset of the keyboard tell of the modifier only,  *)
(* that it is up.                                                          *)
LEMMA MagicOK ==
  /\ Magic \in Seq(Events)
  /\ \A x \in All : LastOK(Magic, x, {})
  /\ ~Silent(Magic, Modifier)
<1> DEFINE a == Event(None, TRUE, TRUE)
           b == Event(None, FALSE, FALSE)
<1>1. /\ a \in Events /\ a.key = None
      /\ b \in Events /\ b.key = None /\ b.mod = FALSE
  BY EventOK
<1> HIDE DEF a, b
<1>2. Magic = <<a, b>>
  BY DEF Magic, a, b
<1>3. Magic \in Seq(Events) /\ Len(Magic) = 2 /\ Magic[1] = a /\ Magic[2] = b
  <2> HIDE DEF Events
  <2> QED
    BY <1>1, <1>2
<1>4. 1 .. Len(Magic) = {1, 2}
  BY <1>3
<1> HIDE DEF Magic
<1>5. \A x \in Keys : ~Tells(a, x) /\ ~Tells(b, x)
  BY <1>1, Names DEF Tells
<1>6. Tells(a, Modifier) /\ Tells(b, Modifier) /\ ~Says(b, Modifier)
  BY <1>1, Names DEF Tells, Says
<1>7. \A x \in Keys : LastOK(Magic, x, {})
  BY <1>3, <1>4, <1>5 DEF LastOK
<1>8. LastOK(Magic, Modifier, {})
  <2> SUFFICES ASSUME NEW i \in {1, 2}, Tells(Magic[i], Modifier),
                      \A j \in {1, 2} : j > i => ~Tells(Magic[j], Modifier)
               PROVE  Says(Magic[i], Modifier) <=> Modifier \in {}
    BY <1>4 DEF LastOK
  <2>1. i = 2
    BY <1>3, <1>6
  <2> QED
    BY <1>3, <1>6, <2>1
<1>9. ~Silent(Magic, Modifier)
  BY <1>3, <1>4, <1>6 DEF Silent
<1> QED
  BY <1>3, <1>7, <1>8, <1>9 DEF All

(* A reset of the keyboard behind the events still in SDL's queue: of      *)
(* every key the last word is that it is up.                               *)
LEMMA ResetOK ==
  ASSUME sdlDown \in SUBSET All, IsFiniteSet(sdlDown), NEW rest \in Seq(Events),
         NEW x \in All, LastOK(rest, x, sdlDown)
  PROVE  /\ (rest \o KeyUps) \o Magic \in Seq(Events)
         /\ LastOK((rest \o KeyUps) \o Magic, x, {})
         /\ Silent((rest \o KeyUps) \o Magic, x) => Silent(rest, x) /\ x \notin sdlDown
<1> DEFINE u == rest \o KeyUps
<1>1. KeyUps \in Seq(Events)
  BY KeyUpsOK
<1>2. u \in Seq(Events)
  BY <1>1
<1>3. Magic \in Seq(Events) /\ LastOK(Magic, x, {}) /\ ~Silent(Magic, Modifier)
  BY MagicOK
<1>4. u \o Magic \in Seq(Events)
  BY <1>2, <1>3
<1>5. Silent(u, x) => Silent(rest, x) /\ Silent(KeyUps, x)
  BY <1>1, BehindOK
<1>6. CASE x = Modifier
  <2>1. LastOK(u \o Magic, x, {}) /\ ~Silent(u \o Magic, x)
    BY <1>2, <1>3, <1>6, BehindOK
  <2> QED
    BY <1>4, <2>1
<1>7. CASE x \in Keys
  <2>1. LastOK(KeyUps, x, {}) /\ (Silent(KeyUps, x) => x \notin sdlDown)
    BY <1>7, KeyUpsOK
  <2>2. Silent(KeyUps, x) => LastOK(rest, x, {})
    BY <2>1, LastSame
  <2>3. LastOK(u, x, {})
    BY <1>1, <2>1, <2>2, BehindOK
  <2>4. LastOK(u \o Magic, x, {}) /\ (Silent(u \o Magic, x) => Silent(u, x))
    BY <1>2, <1>3, <2>3, BehindOK
  <2> QED
    BY <1>4, <1>5, <2>1, <2>4
<1> QED
  BY <1>6, <1>7 DEF All

(* A pause, the end of one, and neither: an event is handled that is not   *)
(* passed on.                                                              *)
LEMMA PauseOK ==
  ASSUME IInv, sdlQueue # <<>>, NEW active, PauseOrNot(active, Tail(sdlQueue)),
         UNCHANGED <<ring, kms, guest>>,
         \A x \in All \ lost' : x \notin lost /\ ~Tells(Head(sdlQueue), x)
  PROVE  IInv'
<1>1. /\ sdlQueue \in Seq(Events) /\ sdlDown \in SUBSET All /\ IsFiniteSet(sdlDown)
      /\ Typed /\ \A x \in All : Followed(x)
  BY Zenon DEF IInv, Typed
<1>2. /\ UNCHANGED ring /\ kmdata' = kmdata /\ received' = received /\ overrun' = overrun
      /\ guest' = guest
  BY DEF kms
<1> DEFINE rest == Tail(sdlQueue)
           reset == (rest \o KeyUps) \o Magic
<1>3. rest \in Seq(Events)
  BY <1>1
<1>4. \/ sdlQueue' = reset /\ sdlDown' = {}
      \/ sdlQueue' = rest /\ sdlDown' = sdlDown
  BY Zenon DEF PauseOrNot, GuiEvent_ResetKeys, Magic
<1>5. ASSUME NEW x \in All
      PROVE  /\ LastOK(rest, x, sdlDown)
             /\ Silent(rest, x) /\ ~Tells(Head(sdlQueue), x) => Silent(sdlQueue, x)
  BY <1>1, TailOK DEF Followed
<1>6. /\ reset \in Seq(Events)
      /\ \A x \in All : /\ LastOK(reset, x, {})
                        /\ Silent(reset, x) => Silent(rest, x) /\ x \notin sdlDown
  <2> HIDE DEF rest
  <2>1. Modifier \in All
    BY DEF All
  <2> QED
    BY <1>1, <1>3, <1>5, <2>1, ResetOK
<1> HIDE DEF rest, reset
<1>7. Typed'
  <2>1. sdlQueue' \in Seq(Events) /\ sdlDown' \in SUBSET All /\ IsFiniteSet(sdlDown')
    BY <1>1, <1>3, <1>4, <1>6, FS_EmptySet
  <2> QED
    BY <1>1, <1>2, <2>1 DEF Typed, ring
<1>8. ASSUME NEW x \in All PROVE Followed(x)'
  <2>1. LastOK(sdlQueue', x, sdlDown')
    BY <1>4, <1>5, <1>6
  <2>2. ASSUME x \notin lost', Silent(sdlQueue', x)
        PROVE  /\ LastOK(Backlog', x, sdlDown')
               /\ Silent(Backlog', x) /\ ~overrun' => (Latest(x)' <=> x \in sdlDown')
    <3>1. Silent(rest, x) /\ (x \in sdlDown' <=> x \in sdlDown)
      BY <1>4, <1>6, <2>2
    <3>2. x \notin lost /\ Silent(sdlQueue, x)
      BY <1>5, <2>2, <3>1
    <3>3. Agreed(x, sdlDown)
      BY <1>1, <3>2 DEF Followed
    <3> QED
      BY <1>2, <3>1, <3>3, AgreedKept
  <2> QED
    BY <2>1, <2>2, Zenon DEF Followed, Agreed
<1> QED
  BY <1>7, <1>8 DEF IInv

(* What the ring holds, as a queue. *)
LEMMA BacklogOK ==
  ASSUME Typed
  PROVE  Backlog \in Seq(Ringed)
<1>1. RingTyped(Ringed, mainEvent, mainEventRead, mainEventWrite)
  BY RingTypeOK DEF Typed
<1> QED
  BY <1>1, Zenon DEF RingTyped, Backlog

(* An event goes into the ring. *)
LEMMA PutOK ==
  ASSUME IInv, sdlQueue # <<>>, Head(sdlQueue).key \notin {Pause, Unpause},
         bEmulationActive' = bEmulationActive,
         Put(Head(sdlQueue)), sdlQueue' = Tail(sdlQueue), sdlDown' = sdlDown,
         UNCHANGED <<kms, guest>>
  PROVE  IInv'
<1> DEFINE e == Head(sdlQueue)
           rest == Tail(sdlQueue)
<1>1. /\ sdlQueue \in Seq(Events) /\ sdlDown \in SUBSET All /\ IsFiniteSet(sdlDown)
      /\ Typed /\ \A x \in All : Followed(x)
  BY Zenon DEF IInv, Typed
<1>2. e \in Events /\ rest \in Seq(Events)
  BY <1>1
<1>3. \A x \in All : /\ Tells(e, x) <=> x \in About(e)
                     /\ LastOK(rest, x, sdlDown)
                     /\ Silent(rest, x) /\ Tells(e, x) => (Says(e, x) <=> x \in sdlDown)
                     /\ Silent(rest, x) /\ ~Tells(e, x) => Silent(sdlQueue, x)
  <2> SUFFICES ASSUME NEW x \in All
               PROVE  /\ Tells(e, x) <=> x \in About(e)
                      /\ LastOK(rest, x, sdlDown)
                      /\ Silent(rest, x) /\ Tells(e, x) => (Says(e, x) <=> x \in sdlDown)
                      /\ Silent(rest, x) /\ ~Tells(e, x) => Silent(sdlQueue, x)
    OBVIOUS
  <2>1. LastOK(sdlQueue, x, sdlDown)
    BY <1>1 DEF Followed
  <2>2. Tells(e, x) <=> x \in About(e)
    BY <1>2, AboutOK
  <2> QED
    BY <1>1, <2>1, <2>2, TailOK
<1>4. /\ kmdata' = kmdata /\ received' = received /\ overrun' = overrun /\ guest' = guest
      /\ sdlQueue' = rest
  BY DEF kms
<1>5. CASE lost' = lost \cup About(e) /\ UNCHANGED ring
  <2>1. PauseOrNot(bEmulationActive, rest)
    BY Zenon DEF PauseOrNot
  <2>2. \A x \in All \ lost' : x \notin lost /\ ~Tells(e, x)
    BY <1>3, <1>5
  <2>3. UNCHANGED <<ring, kms, guest>>
    BY <1>5, Zenon
  <2> QED
    BY <2>1, <2>2, <2>3, PauseOK
<1>6. CASE /\ lost' = lost \ About(e) /\ mainEvent' = [mainEvent EXCEPT ![mainEventWrite] = e]
           /\ mainEventWrite' = Next1(mainEventWrite) /\ mainEventRead' = mainEventRead
           /\ Next1(mainEventWrite) # mainEventRead
  <2>1. e \in Ringed
    BY <1>2 DEF Events, Ringed, All
  <2>2. Backlog \in Seq(Ringed)
    BY <1>1, BacklogOK
  <2> HIDE DEF e, rest
  <2>3. /\ mainEventWrite' \in Slot /\ mainEvent' \in [Slot -> Ringed]
        /\ Backlog' = Append(Backlog, e)
    <3>1. /\ mainEvent \in [Slot -> Ringed] /\ mainEventWrite \in Slot /\ mainEventRead \in Slot
      BY <1>1, Zenon DEF Typed
    <3>2. /\ Next1(mainEventWrite) \in Slot /\ [mainEvent EXCEPT ![mainEventWrite] = e] \in [Slot -> Ringed]
          /\ RingSeq([mainEvent EXCEPT ![mainEventWrite] = e], mainEventRead, Next1(mainEventWrite))
               = Append(Backlog, e)
      <4>1. ComesLast(Ringed, mainEvent, mainEventRead, mainEventWrite, e)
        BY <1>6, <2>1, <3>1, RingPut
      <4> QED
        BY <4>1, Zenon DEF ComesLast, Backlog
    <3>3. Backlog' = RingSeq(mainEvent', mainEventRead', mainEventWrite')
      BY DEF Backlog
    <3> HIDE DEF RingSeq
    <3> QED
      BY <1>6, <3>2, <3>3 DEF e
  <2>4. Typed'
    BY <1>1, <1>2, <1>4, <1>6, <2>3 DEF Typed
  <2>5. ASSUME NEW x \in All PROVE Followed(x)'
    <3>1. LastOK(sdlQueue', x, sdlDown')
      BY <1>3, <1>4
    <3>2. ASSUME x \notin lost', Silent(sdlQueue', x)
          PROVE  /\ LastOK(Backlog', x, sdlDown')
                 /\ Silent(Backlog', x) /\ ~overrun' => (Latest(x)' <=> x \in sdlDown')
      <4>1. Silent(rest, x)
        BY <1>4, <3>2
      <4>2. CASE Tells(e, x)
        <5>1. Says(e, x) <=> x \in sdlDown
          BY <1>3, <4>1, <4>2
        <5>2. LastOK(Append(Backlog, e), x, sdlDown) /\ ~Silent(Append(Backlog, e), x)
          BY <2>1, <2>2, <4>2, <5>1, AppendOK
        <5> QED
          BY <2>3, <5>2
      <4>3. CASE ~Tells(e, x)
        <5>1. x \notin lost /\ Silent(sdlQueue, x)
          BY <1>3, <1>6, <3>2, <4>1, <4>3
        <5>2. Agreed(x, sdlDown)
          BY <1>1, <5>1 DEF Followed
        <5>3. /\ LastOK(Append(Backlog, e), x, sdlDown)
              /\ Silent(Append(Backlog, e), x) => Silent(Backlog, x)
          BY <2>1, <2>2, <4>3, <5>2, AppendOK DEF Agreed
        <5>4. Latest(x)' <=> Latest(x)
          BY <1>4 DEF Latest
        <5> QED
          BY <1>4, <2>3, <5>2, <5>3, <5>4 DEF Agreed
      <4> QED
        BY <4>2, <4>3
    <3> QED
      BY <3>1, <3>2, Zenon DEF Followed, Agreed
  <2> QED
    BY <2>4, <2>5 DEF IInv
<1>7. \/ lost' = lost \cup About(e) /\ UNCHANGED ring
      \/ /\ lost' = lost \ About(e) /\ mainEvent' = [mainEvent EXCEPT ![mainEventWrite] = e]
         /\ mainEventWrite' = Next1(mainEventWrite) /\ mainEventRead' = mainEventRead
         /\ Next1(mainEventWrite) # mainEventRead
  BY Zenon DEF Put, Keep, Lose
<1> QED
  BY <1>5, <1>6, <1>7

(* The main thread. *)
LEMMA MainOK == IInv /\ Main => IInv'
<1> SUFFICES ASSUME IInv, GuiEvent_EventHandler PROVE IInv'
  BY DEF Main
<1> DEFINE e == Head(sdlQueue)
           rest == Tail(sdlQueue)
<1>1. /\ sdlQueue # <<>> /\ Handled(e, rest)
      /\ UNCHANGED <<held, pressed, emu, kms, guest, others>>
  BY Zenon DEF GuiEvent_EventHandler
<1>2. sdlQueue \in Seq(Events)
  BY Zenon DEF IInv, Typed
<1>3. e \in Events
  BY <1>1, <1>2
<1>4. UNCHANGED <<kms, guest>>
  BY <1>1, Zenon
<1> HIDE DEF e, rest
<1>5. CASE e.key \in {Pause, Unpause}
  <2>1. PauseOrNot(e.key = Unpause, rest) /\ UNCHANGED ring /\ lost' = lost
    <3>1. PauseOrNot(e.key = Unpause, rest) /\ UNCHANGED <<ring, lost>>
      <4>1. ~Shortcut(e)
        BY <1>5, Names DEF Shortcut
      <4> QED
        BY <1>1, <1>5, <4>1, Zenon DEF Handled
    <3> QED
      BY <3>1, Zenon
  <2>2. \A x \in All : ~Tells(e, x)
    BY <1>5, Names DEF Tells, All
  <2>3. UNCHANGED <<ring, kms, guest>>
    BY <1>4, <2>1, Zenon
  <2> QED
    BY <1>1, <2>1, <2>2, <2>3, PauseOK, Zenon DEF e, rest
<1>6. CASE e.key \notin {Pause, Unpause} /\ Shortcut(e)
  <2> DEFINE active == IF e.down THEN ~bEmulationActive ELSE bEmulationActive
  <2>1. PauseOrNot(active, rest) /\ Lose(e) /\ UNCHANGED ring
    BY <1>1, <1>6, Zenon DEF Handled
  <2> HIDE DEF active
  <2>2. \A x \in All \ lost' : x \notin lost /\ ~Tells(e, x)
    BY <1>3, <2>1, AboutOK DEF Lose
  <2>3. UNCHANGED <<ring, kms, guest>>
    BY <1>4, <2>1, Zenon
  <2> QED
    BY <1>1, <2>1, <2>2, <2>3, PauseOK, Zenon DEF e, rest
<1>7. CASE e.key \notin {Pause, Unpause} /\ ~Shortcut(e)
  <2>1. /\ Put(e) /\ sdlQueue' = rest
        /\ bEmulationActive' = bEmulationActive /\ sdlDown' = sdlDown
    <3>1. Put(e) /\ sdlQueue' = rest /\ UNCHANGED <<bEmulationActive, sdlDown>>
      BY <1>1, <1>7, Zenon DEF Handled
    <3> QED
      BY <3>1, Zenon
  <2> QED
    BY <1>1, <1>4, <1>7, <2>1, PutOK, Zenon DEF e, rest
<1> QED
  BY <1>5, <1>6, <1>7

-----------------------------------------------------------------------------
(* The emulation thread takes an event out of the ring: the register has   *)
(* it, or it is lost.                                                      *)
LEMMA TakeOK == IInv /\ GuiEvent_EventQueueHandler => IInv'
<1> SUFFICES ASSUME IInv, GuiEvent_EventQueueHandler PROVE IInv'
  OBVIOUS
<1> DEFINE e == mainEvent[mainEventRead]
<1>1. Typed /\ \A x \in All : Followed(x)
  BY Zenon DEF IInv
<1>2. /\ mainEvent \in [Slot -> Ringed] /\ mainEventWrite \in Slot /\ mainEventRead \in Slot
      /\ kmdata \in Ringed
  BY <1>1, Zenon DEF Typed
<1>3. e \in Ringed /\ NoEvent \in Ringed
  <2>1. NoEvent \in Ringed
    BY DEF NoEvent, Event, Ringed
  <2> QED
    BY <1>2, <2>1
<1>4. sdlQueue' = sdlQueue /\ sdlDown' = sdlDown /\ guest' = guest
  <2>1. EmuKeeps
    BY Zenon DEF GuiEvent_EventQueueHandler
  <2> QED
    BY <2>1 DEF EmuKeeps, user
<1> HIDE DEF e
<1>5. CASE mainEventRead = mainEventWrite
  <2>1. UNCHANGED <<ring, kmdata, received, overrun, lost>>
    BY <1>5, Zenon DEF GuiEvent_EventQueueHandler
  <2>2. Backlog' = Backlog
    BY <2>1 DEF Backlog, ring
  <2>3. Typed'
    BY <1>1, <1>4, <2>1 DEF Typed, ring
  <2>4. ASSUME NEW x \in All PROVE Followed(x)'
    <3>1. Latest(x)' <=> Latest(x)
      BY <1>4, <2>1 DEF Latest
    <3>2. lost' = lost /\ overrun' = overrun
      BY <2>1
    <3> QED
      BY <1>1, <1>4, <2>2, <3>1, <3>2 DEF Followed, Agreed
  <2> QED
    BY <2>3, <2>4 DEF IInv
<1>6. CASE mainEventRead # mainEventWrite
  <2>1. /\ mainEventRead' = Next1(mainEventRead)
        /\ mainEvent' = [mainEvent EXCEPT ![mainEventRead] = NoEvent]
        /\ kms_km_receive(e) /\ UNCHANGED mainEventWrite
    BY <1>6, Zenon DEF GuiEvent_EventQueueHandler, e
  <2>2. GoesFirst(Ringed, mainEvent, mainEventRead, mainEventWrite, NoEvent)
    BY <1>2, <1>3, <1>6, RingTake
  <2>3. /\ Next1(mainEventRead) \in Slot
        /\ [mainEvent EXCEPT ![mainEventRead] = NoEvent] \in [Slot -> Ringed]
        /\ Backlog # <<>> /\ Head(Backlog) = e
        /\ RingSeq([mainEvent EXCEPT ![mainEventRead] = NoEvent], Next1(mainEventRead),
                   mainEventWrite) = Tail(Backlog)
    BY <2>2, Zenon DEF GoesFirst, Backlog, e
  <2>4. mainEventRead' \in Slot /\ mainEvent' \in [Slot -> Ringed] /\ Backlog' = Tail(Backlog)
    <3>1. Backlog' = RingSeq(mainEvent', mainEventRead', mainEventWrite')
      BY DEF Backlog
    <3> HIDE DEF RingSeq
    <3> QED
      BY <2>1, <2>3, <3>1
  <2>5. \/ polled /\ kmdata' = e /\ received' /\ (overrun' <=> overrun \/ received) /\ lost' = lost
        \/ /\ kmdata' = kmdata /\ received' = received /\ overrun' = overrun
           /\ lost' = lost \cup About(e)
    BY <2>1 DEF kms_km_receive, Lose
  <2>6. Backlog \in Seq(Ringed)
    BY <1>1, BacklogOK
  <2>7. Typed'
    <3>1. kmdata' \in Ringed /\ (overrun' => received')
      BY <1>1, <1>2, <1>3, <2>5 DEF Typed
    <3> QED
      BY <1>1, <1>4, <2>1, <2>4, <3>1 DEF Typed
  <2>8. ASSUME NEW x \in All PROVE Followed(x)'
    <3>1. LastOK(sdlQueue', x, sdlDown')
      BY <1>1, <1>4 DEF Followed
    <3>2. ASSUME x \notin lost', Silent(sdlQueue', x)
          PROVE  /\ LastOK(Backlog', x, sdlDown')
                 /\ Silent(Backlog', x) /\ ~overrun' => (Latest(x)' <=> x \in sdlDown')
      <4>1. x \notin lost /\ (x \in About(e) => polled /\ kmdata' = e /\ received'
                                                /\ (overrun' <=> overrun \/ received))
        BY <2>5, <3>2
      <4>2. Agreed(x, sdlDown)
        BY <1>1, <1>4, <3>2, <4>1 DEF Followed
      <4>3. /\ LastOK(Tail(Backlog), x, sdlDown)
            /\ Silent(Tail(Backlog), x) /\ Tells(e, x) => (Says(e, x) <=> x \in sdlDown)
            /\ Silent(Tail(Backlog), x) /\ ~Tells(e, x) => Silent(Backlog, x)
        BY <2>3, <2>6, <4>2, TailOK DEF Agreed
      <4>4. ASSUME Silent(Tail(Backlog), x), ~overrun' PROVE Latest(x)' <=> x \in sdlDown
        <5>1. CASE Tells(e, x)
          <6>1. e \in Events
            BY <1>3 DEF Ringed, Events, All
          <6>2. kmdata' = e /\ received'
            BY <4>1, <5>1, <6>1, AboutOK
          <6> QED
            BY <4>3, <4>4, <5>1, <6>2 DEF Latest
        <5>2. CASE ~Tells(e, x)
          <6>1. ~overrun /\ (Latest(x) <=> x \in sdlDown)
            BY <2>5, <4>2, <4>3, <4>4, <5>2 DEF Agreed
          <6>2. Latest(x)' <=> Latest(x)
            BY <1>4, <2>5, <4>4, <5>2 DEF Latest
          <6> QED
            BY <6>1, <6>2
        <5> QED
          BY <5>1, <5>2
      <4> QED
        BY <1>4, <2>4, <4>3, <4>4
    <3> QED
      BY <3>1, <3>2, Zenon DEF Followed, Agreed
  <2> QED
    BY <2>7, <2>8 DEF IInv
<1> QED
  BY <1>5, <1>6

(* The driver reads the register. *)
LEMMA ReadOK == IInv /\ KMS_KM_Data_Read => IInv'
<1> SUFFICES ASSUME IInv, KMS_KM_Data_Read PROVE IInv'
  OBVIOUS
<1>1. Typed /\ \A x \in All : Followed(x)
  BY Zenon DEF IInv
<1>2. /\ received /\ ~overrun /\ guest' = Told(guest, kmdata)
      /\ received' = FALSE /\ kmdata' = NoEvent /\ overrun' = overrun /\ lost' = lost
  BY DEF KMS_KM_Data_Read
<1>3. UNCHANGED ring /\ sdlQueue' = sdlQueue /\ sdlDown' = sdlDown
  <2>1. GuestKeeps
    BY Zenon DEF KMS_KM_Data_Read
  <2> QED
    BY <2>1 DEF GuestKeeps, user
<1>4. /\ guest' \in [keys : SUBSET Keys, mod : BOOLEAN]
      /\ \A x \in Keys : x \in guest'.keys <=> IF kmdata.key = x THEN kmdata.down
                                                                 ELSE x \in guest.keys
      /\ guest'.mod <=> IF kmdata.key = Mouse THEN guest.mod ELSE kmdata.mod
  <2>1. /\ kmdata.key \in All \cup {None, Mouse} /\ kmdata.down \in BOOLEAN
        /\ kmdata.mod \in BOOLEAN /\ guest \in [keys : SUBSET Keys, mod : BOOLEAN]
    BY <1>1 DEF Typed, Ringed
  <2>2. CASE kmdata.key = Mouse
    <3>1. guest' = guest
      BY <1>2, <2>2, Zenon DEF Told
    <3>2. \A x \in Keys : kmdata.key # x
      BY <2>2, Names
    <3> QED
      BY <2>1, <2>2, <3>1, <3>2, Zenon
  <2>3. CASE kmdata.key # Mouse
    <3> DEFINE K == IF kmdata.key \in {None, Modifier} THEN guest.keys
                    ELSE IF kmdata.down THEN guest.keys \cup {kmdata.key}
                    ELSE guest.keys \ {kmdata.key}
    <3>1. guest' = [keys |-> K, mod |-> kmdata.mod]
      BY <1>2, <2>3, Zenon DEF Told
    <3>2. K \in SUBSET Keys
      BY <2>1, <2>3 DEF All
    <3>3. \A x \in Keys : x \in K <=> IF kmdata.key = x THEN kmdata.down ELSE x \in guest.keys
      BY <2>1, <2>3, Names
    <3> HIDE DEF K
    <3>4. guest' \in [keys : SUBSET Keys, mod : BOOLEAN] /\ guest'.keys = K
          /\ guest'.mod = kmdata.mod
      BY <2>1, <3>1, <3>2
    <3> QED
      BY <2>3, <3>3, <3>4, Zenon
  <2> QED
    BY <2>2, <2>3
<1>5. Backlog' = Backlog
  BY <1>3 DEF Backlog, ring
<1>6. kmdata \in Ringed /\ NoEvent \in Ringed
  BY <1>1 DEF NoEvent, Event, Ringed, Typed
<1>7. Typed'
  BY <1>1, <1>2, <1>3, <1>4, <1>6 DEF Typed, ring
<1>8. ASSUME NEW x \in All PROVE Latest(x)' <=> Latest(x)
  <2>1. CASE x = Modifier
    <3>1. Tells(kmdata, x) <=> kmdata.key # Mouse
      BY <1>6, <2>1, Names DEF Tells, Ringed, All
    <3> QED
      BY <1>2, <1>4, <2>1, <3>1, Zenon DEF Latest, Says
  <2>2. CASE x \in Keys
    <3>1. x # Modifier
      BY <2>2, Names
    <3> QED
      BY <1>2, <1>4, <2>2, <3>1, Zenon DEF Latest, Says, Tells
  <2> QED
    BY <2>1, <2>2 DEF All
<1>9. ASSUME NEW x \in All PROVE Followed(x)'
  BY <1>1, <1>2, <1>3, <1>5, <1>8 DEF Followed, Agreed
<1> QED
  BY <1>7, <1>9 DEF IInv

(* What the guest gave up, or a reset took from it, is all lost. *)
LEMMA AllLost ==
  ASSUME IInv, kmdata' = NoEvent, received' = FALSE, overrun' = FALSE,
         lost' = Keys \cup {Modifier}, guest' \in [keys : SUBSET Keys, mod : BOOLEAN],
         UNCHANGED <<user, sdlQueue, ring>>
  PROVE  IInv'
<1>1. Typed /\ \A x \in All : Followed(x)
  BY Zenon DEF IInv
<1>2. sdlQueue' = sdlQueue /\ sdlDown' = sdlDown /\ UNCHANGED ring
  BY DEF user
<1>3. NoEvent \in Ringed
  BY DEF NoEvent, Event, Ringed
<1>4. Typed'
  BY <1>1, <1>2, <1>3 DEF Typed, ring
<1>5. ASSUME NEW x \in All PROVE Followed(x)'
  <2>1. x \in lost' /\ LastOK(sdlQueue, x, sdlDown)
    BY <1>1 DEF All, Followed
  <2> QED
    BY <1>2, <2>1 DEF Followed
<1> QED
  BY <1>4, <1>5 DEF IInv

(* Steps that touch nothing on the way. *)
LEMMA NothingMoves ==
  ASSUME IInv, UNCHANGED <<sdlDown, sdlQueue, ring, kmdata, received, overrun, guest, lost>>
  PROVE  IInv'
<1>1. Typed /\ \A x \in All : Followed(x)
  BY Zenon DEF IInv
<1>2. Typed'
  BY <1>1 DEF Typed, ring
<1>3. Backlog' = Backlog
  BY DEF Backlog, ring
<1>4. ASSUME NEW x \in All PROVE Followed(x)'
  <2>1. Latest(x)' <=> Latest(x)
    BY DEF Latest
  <2> QED
    BY <1>1, <1>3, <2>1 DEF Followed, Agreed
<1> QED
  BY <1>2, <1>4 DEF IInv

(* Every step. *)
LEMMA NextOK == IInv /\ [Next]_vars => IInv'
<1> SUFFICES ASSUME IInv, [Next]_vars PROVE IInv'
  OBVIOUS
<1>1. CASE User
  BY <1>1, UserOK
<1>2. CASE Main
  BY <1>2, MainOK
<1>3. CASE Wake
  <2>1. UNCHANGED <<sdlDown, sdlQueue, ring, kmdata, received, overrun, guest, lost>>
    BY <1>3 DEF Wake, EmuKeeps, user
  <2> QED
    BY <2>1, NothingMoves
<1>4. CASE GuiEvent_EventQueueHandler
  BY <1>4, TakeOK
<1>5. CASE KMS_KM_Data_Read
  BY <1>5, ReadOK
<1>6. CASE KMS_Ctrl_KM_Write
  <2>1. UNCHANGED <<user, sdlQueue, ring>>
    BY <1>6 DEF KMS_Ctrl_KM_Write, GuestKeeps
  <2>2. /\ kmdata' = NoEvent /\ received' = FALSE /\ overrun' = FALSE
        /\ lost' = Keys \cup {Modifier} /\ guest' = guest
    BY <1>6 DEF KMS_Ctrl_KM_Write
  <2>3. guest \in [keys : SUBSET Keys, mod : BOOLEAN]
    BY Zenon DEF IInv, Typed
  <2> QED
    BY <2>1, <2>2, <2>3, AllLost
<1>7. CASE GuestPolls
  <2>1. UNCHANGED <<sdlDown, sdlQueue, ring, kmdata, received, overrun, guest, lost>>
    BY <1>7 DEF GuestPolls, user
  <2> QED
    BY <2>1, NothingMoves
<1>8. CASE KMS_Reset
  <2>1. UNCHANGED <<user, sdlQueue, ring>>
    BY <1>8 DEF KMS_Reset
  <2>2. /\ kmdata' = NoEvent /\ received' = FALSE /\ overrun' = FALSE
        /\ lost' = Keys \cup {Modifier} /\ guest' = [keys |-> {}, mod |-> FALSE]
    BY <1>8 DEF KMS_Reset
  <2> QED
    BY <2>1, <2>2, AllLost
<1>9. CASE UNCHANGED vars
  <2>1. UNCHANGED <<sdlDown, sdlQueue, ring, kmdata, received, overrun, guest, lost>>
    BY <1>9 DEF vars, user, kms
  <2> QED
    BY <2>1, NothingMoves
<1> QED
  BY <1>1, <1>2, <1>3, <1>4, <1>5, <1>6, <1>7, <1>8, <1>9 DEF Next, Emulation, GuestDriver

(* When nothing is under way any more, the guest sees pressed what SDL     *)
(* sees pressed, but for the keys of which an event was lost where the     *)
(* code gives events up (gui-sdl/sdlevent.c, shortcut.c, kms.c).           *)
THEOREM KeyboardAgrees == Spec => []GuestAgrees
<1>1. Init => IInv
  BY InitOK
<1>2. IInv /\ [Next]_vars => IInv'
  BY NextOK
<1>3. IInv => GuestAgrees
  BY AgreesOK
<1> QED
  BY <1>1, <1>2, <1>3, PTL DEF Spec
=============================================================================
