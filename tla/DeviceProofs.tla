---------------------------- MODULE DeviceProofs ----------------------------
(***************************************************************************)
(* Sound output, the capture's resampler and a NeXTdimension board.        *)
(*                                                                         *)
(* SndFifo: for every ratio of the two rates, every block size and every   *)
(* staging buffer, what the resampler emits is the uniform resampling of   *)
(* the whole input, whatever the blocks are.  The invariant is the         *)
(* accumulator's law: the phase is the distance between what has been      *)
(* emitted and what has been passed.                                       *)
(*                                                                         *)
(* Sound: whatever is started, stopped, chained and reset around it, the   *)
(* sound output plays every word at most once and in its turn, and reports *)
(* no buffer complete of which something is still to play: for every size  *)
(* of the pieces and of the buffers.  The invariant says where the DMA     *)
(* channel is in the sound: of its buffer the host was sent exactly what   *)
(* the channel has read, and nothing that lies beyond.  A buffer chained   *)
(* behind begins where the last one ends or later, for the guest lays its  *)
(* buffers one behind the other.                                           *)
(*                                                                         *)
(* Dimension: for any number of writes, pauses and boards, no message that *)
(* matters is lost between the threads that post and the one that takes,   *)
(* and the i860 executes nothing before it has seen its reset.  The        *)
(* invariant follows the reset message from the constructor through the    *)
(* port into the batch the i860's thread handles, and says that a new      *)
(* batch is only taken when the last one is done.                          *)
(***************************************************************************)
EXTENDS SndFifo, Sound, Dimension, SequenceTheorems, TLAPS

PhaseLaw ==
  /\ made \in Nat /\ passed \in Nat /\ phase \in Nat
  /\ made * STEP = passed * ONE + phase
  /\ phase < ONE + STEP
  /\ left \in Nat /\ (left = 0 => phase < STEP)
  /\ pc = "idle" => left = 0

Neighbour ==
  /\ prev = IF passed = 0 THEN 0 ELSE passed - 1
  /\ ~primed => passed = 0 /\ phase = 0 /\ left = 0

IInv == PhaseLaw /\ Neighbour /\ NoSeam

(* Division of a number of the form a * d + r. *)
LEMMA DivMod ==
  ASSUME NEW d \in Nat \ {0}, NEW a \in Nat, NEW r \in 0 .. d - 1
  PROVE  (a * d + r) \div d = a /\ (a * d + r) % d = r
  OBVIOUS

(* Nothing has been sampled at first. *)
LEMMA InitOK == Init => IInv
  BY FifoAssumption DEF FifoAssumption, Init, IInv, PhaseLaw, Neighbour, NoSeam

(* Every step keeps the law; only Stage makes an output frame. *)
LEMMA NextOK == IInv /\ Next => IInv'
<1> SUFFICES ASSUME IInv, Next PROVE IInv'
  OBVIOUS
<1>0. /\ ONE \in Nat \ {0} /\ STEP \in Nat \ {0} /\ STEP < ONE
      /\ MaxBlock \in Nat
  BY FifoAssumption DEF FifoAssumption
<1>1. ASSUME UNCHANGED <<sampler, pc, left, passed, made, out>> PROVE IInv'
  BY <1>1 DEF IInv, PhaseLaw, Neighbour, NoSeam, sampler, At
<1>2. ASSUME NEW n \in 1 .. MaxBlock, Write(n) PROVE IInv'
  <2>1. n \in Nat /\ n # 0
    BY <1>0
  <2>2. (phase' = phase \/ (phase' = 0 /\ phase = 0 /\ passed = 0)) /\ left' = n
    BY <1>2 DEF Write, IInv, Neighbour, sampler
  <2>3. PhaseLaw'
    BY <1>0, <1>2, <2>1, <2>2 DEF Write, IInv, PhaseLaw
  <2>4. Neighbour'
    BY <1>2 DEF Write, IInv, Neighbour, Cur, sampler
  <2>5. NoSeam'
    BY <1>2 DEF Write, IInv, NoSeam, At
  <2> QED
    BY <2>3, <2>4, <2>5 DEF IInv
<1>3. CASE Stage
  <2>1. /\ phase \in 0 .. ONE - 1 /\ passed \in Nat /\ made \in Nat
        /\ made * STEP = passed * ONE + phase
        /\ made' = made + 1 /\ phase' = phase + STEP /\ passed' = passed
        /\ left' = left /\ pc' = pc /\ left \in Nat /\ left # 0 /\ pc = "frames"
    <3>1. /\ phase < ONE /\ left > 0 /\ pc = "frames"
          /\ made' = made + 1 /\ phase' = phase + STEP /\ passed' = passed
          /\ left' = left /\ pc' = pc
      BY <1>3 DEF Stage
    <3>2. /\ made \in Nat /\ passed \in Nat /\ phase \in Nat /\ left \in Nat
          /\ made * STEP = passed * ONE + phase
      BY DEF IInv, PhaseLaw
    <3>3. phase \in 0 .. ONE - 1
      BY <1>0, <3>1, <3>2
    <3>4. left # 0
      BY <3>1, <3>2
    <3> QED
      BY <3>1, <3>2, <3>3, <3>4
  <2>2. made' * STEP = made * STEP + STEP
    BY <1>0, <2>1
  <2>3. PhaseLaw'
    BY <1>0, <2>1, <2>2 DEF PhaseLaw
  <2>4. Neighbour'
    BY <1>3, <2>1 DEF Stage, IInv, Neighbour
  <2>5. At(made) = <<IF passed = 0 THEN 0 ELSE passed - 1, passed, phase>>
    <3>1. (passed * ONE + phase) \div ONE = passed /\ (passed * ONE + phase) % ONE = phase
      BY <1>0, <2>1, DivMod
    <3> QED
      BY <2>1, <3>1 DEF At
  <2>6. out' = At(made)
    BY <1>3, <2>5 DEF Stage, Cur, IInv, Neighbour
  <2>7. made' - 1 = made
    BY <2>1
  <2>8. NoSeam'
    BY <2>6, <2>7 DEF NoSeam, At
  <2> QED
    BY <2>3, <2>4, <2>8 DEF IInv
<1>4. CASE Advance
  <2>1. /\ phase \in Nat /\ phase >= ONE /\ phase < ONE + STEP
        /\ passed \in Nat /\ made \in Nat
        /\ made * STEP = passed * ONE + phase
        /\ made' = made /\ phase' = phase - ONE /\ passed' = passed + 1
        /\ left' = left - 1 /\ pc' = pc /\ left \in Nat /\ left # 0 /\ pc = "frames"
    BY <1>0, <1>4 DEF Advance, IInv, PhaseLaw
  <2>2. passed' * ONE = passed * ONE + ONE
    BY <1>0, <2>1
  <2>3. PhaseLaw'
    BY <1>0, <2>1, <2>2 DEF PhaseLaw
  <2>4. Neighbour'
    BY <1>0, <1>4, <2>1 DEF Advance, Cur, IInv, Neighbour
  <2>5. NoSeam'
    BY <1>4 DEF Advance, IInv, NoSeam, At
  <2> QED
    BY <2>3, <2>4, <2>5 DEF IInv
<1>5. CASE Finish
  BY <1>5 DEF Finish, IInv, PhaseLaw, Neighbour, NoSeam, sampler, At
<1>6. CASE Flush
  BY <1>1, <1>6 DEF Flush
<1>7. CASE UnInit \/ Read
  BY <1>1, <1>7 DEF UnInit, Read, block
<1> QED
  BY <1>2, <1>3, <1>4, <1>5, <1>6, <1>7 DEF Next, Sampling

(* The law holds in every reachable state. *)
THEOREM Invariance == Spec => []IInv
<1>1. IInv /\ UNCHANGED vars => IInv'
  BY DEF IInv, PhaseLaw, Neighbour, NoSeam, At, vars, sampler, block
<1> QED
  BY InitOK, NextOK, <1>1, PTL DEF Spec

(* "block boundaries introduce no discontinuity" (sndfifo.c:28-30): for      *)
(* every pair of rates and every sequence of blocks.                        *)
THEOREM Seamless == Spec => []NoSeam
<1>1. IInv => NoSeam
  BY DEF IInv
<1> QED
  BY Invariance, <1>1, PTL

(* Between two calls every output frame the input allows has been made.     *)
THEOREM Complete == Spec => []KeepsUp
<1>1. IInv => KeepsUp
  <2> SUFFICES ASSUME IInv, pc = "idle"
               PROVE  made * STEP \in passed * ONE .. passed * ONE + STEP - 1
    BY DEF KeepsUp
  <2>1. /\ made \in Nat /\ passed \in Nat /\ phase \in Nat /\ phase < STEP
        /\ made * STEP = passed * ONE + phase
    BY DEF IInv, PhaseLaw
  <2>2. ONE \in Nat /\ STEP \in Nat
    BY FifoAssumption DEF FifoAssumption
  <2>3. passed * ONE \in Nat
    BY <2>1, <2>2
  <2> QED
    BY <2>1, <2>2, <2>3
<1> QED
  BY Invariance, <1>1, PTL

-----------------------------------------------------------------------------
(* What was heard came in its order. *)
Increasing(s) == \A i, j \in DOMAIN s : i < j => s[i] < s[j]

(* The elements of a sequence. *)
WordsOf(s) == {s[i] : i \in DOMAIN s}

(* A piece of n words from base on, put behind what was heard before it.    *)
Extended(s, base, n) == s \o [i \in 1 .. n |-> base + i]

(* t is p behind s. *)
Joined(s, p, t) ==
  /\ t \in Seq(Nat) /\ Len(s) \in Nat
  /\ DOMAIN s = 1 .. Len(s) /\ DOMAIN t = 1 .. Len(s) + Len(p)
  /\ \A i \in 1 .. Len(s) : t[i] = s[i]
  /\ \A i \in Len(s) + 1 .. Len(s) + Len(p) : t[i] = p[i - Len(s)]

(* The second of two pieces begins where the first ends. *)
LEMMA Concatenated ==
  ASSUME NEW s \in Seq(Nat), NEW p \in Seq(Nat)
  PROVE  Joined(s, p, s \o p)
<1> DEFINE t == s \o p
<1>1. t \in Seq(Nat) /\ Len(s) \in Nat /\ Len(p) \in Nat
  OBVIOUS
<1>2. Len(t) = Len(s) + Len(p)
  OBVIOUS
<1>3. DOMAIN s = 1 .. Len(s) /\ DOMAIN t = 1 .. Len(t)
  BY <1>1
<1>4. \A i \in 1 .. Len(s) + Len(p) : t[i] = IF i <= Len(s) THEN s[i] ELSE p[i - Len(s)]
  BY ConcatProperties, Zenon
<1>5. \A i \in 1 .. Len(s) : t[i] = s[i]
  BY <1>1, <1>4
<1>6. \A i \in Len(s) + 1 .. Len(s) + Len(p) : t[i] = p[i - Len(s)]
  BY <1>1, <1>4
<1> QED
  BY <1>1, <1>2, <1>3, <1>5, <1>6 DEF Joined

(* t goes on with n numbers from base on after the m numbers of s, none of *)
(* which is greater.                                                       *)
GoesOn(s, t, m, n, base) ==
  /\ DOMAIN s = 1 .. m /\ DOMAIN t = 1 .. m + n
  /\ \A i \in 1 .. m : s[i] \in Nat /\ s[i] <= base /\ t[i] = s[i]
  /\ \A i \in m + 1 .. m + n : t[i] = base + (i - m)

(* It keeps the order and adds these numbers. *)
LEMMA PieceAdded ==
  ASSUME NEW m \in Nat, NEW n \in Nat, NEW base \in Nat, NEW s, NEW t,
         Increasing(s), GoesOn(s, t, m, n, base)
  PROVE  Increasing(t) /\ WordsOf(t) = WordsOf(s) \cup (base + 1 .. base + n)
<1>1. /\ DOMAIN s = 1 .. m /\ DOMAIN t = 1 .. m + n
      /\ \A i \in 1 .. m : s[i] \in Nat /\ s[i] <= base /\ t[i] = s[i]
      /\ \A i \in m + 1 .. m + n : t[i] = base + (i - m)
  BY Zenon DEF GoesOn
<1>5. Increasing(t)
  <2> SUFFICES ASSUME NEW i \in DOMAIN t, NEW j \in DOMAIN t, i < j PROVE t[i] < t[j]
    BY DEF Increasing
  <2>1. CASE j <= m
    BY <1>1, <2>1, SMTT(30) DEF Increasing
  <2>2. CASE i <= m /\ j > m
    BY <1>1, <2>2
  <2>3. CASE i > m
    BY <1>1, <2>3
  <2> QED
    BY <1>1, <2>1, <2>2, <2>3
<1>6. ASSUME NEW x
      PROVE  x \in {t[i] : i \in DOMAIN t}
               <=> x \in {s[i] : i \in DOMAIN s} \/ x \in base + 1 .. base + n
  <2>1. ASSUME NEW i \in DOMAIN t, x = t[i]
        PROVE  x \in {s[k] : k \in DOMAIN s} \/ x \in base + 1 .. base + n
    <3>1. CASE i <= m
      BY <1>1, <2>1, <3>1
    <3>2. CASE i > m
      BY <1>1, <2>1, <3>2
    <3> QED
      BY <1>1, <3>1, <3>2
  <2>2. ASSUME NEW i \in DOMAIN s, x = s[i]
        PROVE  x \in {t[k] : k \in DOMAIN t}
    <3>1. i \in DOMAIN t /\ t[i] = s[i]
      BY <1>1
    <3> QED
      BY <2>2, <3>1
  <2>3. ASSUME x \in base + 1 .. base + n
        PROVE  x \in {t[k] : k \in DOMAIN t}
    <3>1. m + (x - base) \in m + 1 .. m + n
      BY <1>1, <2>3
    <3>2. t[m + (x - base)] = x
      BY <1>1, <2>3, <3>1
    <3> QED
      BY <1>1, <3>1, <3>2
  <2> QED
    BY <2>1, <2>2, <2>3
<1>7. WordsOf(t) = WordsOf(s) \cup (base + 1 .. base + n)
  BY <1>6 DEF WordsOf
<1> QED
  BY <1>5, <1>7

(* A piece of n words from base on, put behind what was heard before it.    *)
LEMMA ConcatOK ==
  ASSUME NEW s \in Seq(Nat), NEW base \in Nat, NEW n \in Nat,
         Increasing(s), \A i \in DOMAIN s : s[i] <= base
  PROVE  /\ Extended(s, base, n) \in Seq(Nat) /\ Increasing(Extended(s, base, n))
         /\ WordsOf(Extended(s, base, n)) = WordsOf(s) \cup (base + 1 .. base + n)
<1> DEFINE p == [i \in 1 .. n |-> base + i]
           t == Extended(s, base, n)
<1>1. p \in Seq(Nat) /\ Len(p) = n /\ \A i \in 1 .. n : p[i] = base + i
  OBVIOUS
<1>2. t = s \o p
  BY DEF Extended
<1> HIDE DEF p, t
<1>0. Joined(s, p, t)
  BY <1>1, <1>2, Concatenated, Zenon
<1>3. /\ t \in Seq(Nat) /\ Len(s) \in Nat
      /\ DOMAIN s = 1 .. Len(s) /\ DOMAIN t = 1 .. Len(s) + Len(p)
      /\ \A i \in 1 .. Len(s) : t[i] = s[i]
      /\ \A i \in Len(s) + 1 .. Len(s) + Len(p) : t[i] = p[i - Len(s)]
  BY <1>0, Zenon DEF Joined
<1>4. \A i \in 1 .. Len(s) : s[i] \in Nat /\ s[i] <= base
  <2>1. ASSUME NEW i \in 1 .. Len(s) PROVE s[i] \in Nat
    BY ElementOfSeq, Zenon
  <2>2. ASSUME NEW i \in 1 .. Len(s) PROVE s[i] <= base
    BY <1>3, Zenon
  <2> QED
    BY <2>1, <2>2, Zenon
<1>5. \A i \in Len(s) + 1 .. Len(s) + n : t[i] = base + (i - Len(s))
  BY <1>1, <1>3
<1>6. Increasing(t) /\ WordsOf(t) = WordsOf(s) \cup (base + 1 .. base + n)
  <2>1. DOMAIN t = 1 .. Len(s) + n
    BY <1>1, <1>3
  <2>2. \A i \in 1 .. Len(s) : s[i] \in Nat /\ s[i] <= base /\ t[i] = s[i]
    BY <1>3, <1>4
  <2> DEFINE m == Len(s)
  <2>3. m \in Nat /\ GoesOn(s, t, m, n, base)
    BY <1>3, <1>5, <2>1, <2>2, Zenon DEF GoesOn
  <2> HIDE DEF m
  <2> QED
    BY <2>3, PieceAdded
<1> QED
  BY <1>3, <1>6 DEF t

(* The words sent to the host, and what a channel can be. *)
Heard == WordsOf(heard)

Channels == [enable : BOOLEAN, supdate : BOOLEAN, complete : BOOLEAN,
             base : Nat, next : Nat, limit : Nat, stop : Nat]

(* The channel reads what the guest has laid out, one buffer after another. *)
Laid(d) ==
  /\ d \in Channels
  /\ d.enable => /\ d.base <= d.next /\ d.next <= d.limit /\ d.limit <= laid
                 /\ d.supdate => d.limit <= d.stop /\ d.stop <= laid

(* Everything the channel has read of its buffer was heard, and nothing that *)
(* it has still to read.                                                    *)
Tracked(d) ==
  d.enable => /\ \A x \in Heard : x <= d.next
              /\ d.base + 1 .. d.next \subseteq Heard

(* The inductive invariant. *)
Followed ==
  /\ laid \in Nat /\ snd_buffer_len \in Nat /\ heard \in Seq(Nat)
  /\ Laid(chan) /\ Tracked(chan)
  /\ Increasing(heard)
  /\ \A x \in Heard : x <= laid
  /\ kms \in [enable : BOOLEAN, underrun : BOOLEAN] /\ (active => kms.enable)
  /\ completed \subseteq Heard /\ completed \cap queued = {}

(* A buffer that ends leads to the next one, which begins where it ended.   *)
LEMMA InterruptedOK ==
  ASSUME NEW d, Laid(d), Tracked(d), laid \in Nat
  PROVE  /\ Laid(Interrupted(d)) /\ Tracked(Interrupted(d))
         /\ Interrupted(d).enable => d.enable /\ Interrupted(d).next = d.next
<1>1. CASE ~AtLimit(d)
  BY <1>1 DEF Interrupted, AtLimit
<1>2. CASE AtLimit(d) /\ d.supdate
  <2> DEFINE e == Interrupted(d)
  <2>1. e = [d EXCEPT !.complete = TRUE, !.supdate = FALSE, !.base = d.limit, !.limit = d.stop]
    BY <1>2 DEF Interrupted
  <2>2. d \in Channels /\ d.enable /\ d.next = d.limit
    BY <1>2 DEF AtLimit, Laid
  <2> HIDE DEF e
  <2>3. /\ e \in Channels /\ e.enable = d.enable /\ e.next = d.next
        /\ e.base = d.limit /\ e.limit = d.stop /\ ~e.supdate
    BY <2>1, <2>2 DEF Channels
  <2>4. Laid(e)
    BY <1>2, <2>2, <2>3 DEF Laid, Channels
  <2>5. Tracked(e)
    BY <2>2, <2>3 DEF Tracked, Channels
  <2> QED
    BY <2>2, <2>3, <2>4, <2>5 DEF e
<1>3. CASE AtLimit(d) /\ ~d.supdate
  <2> DEFINE e == Interrupted(d)
  <2>1. e = [d EXCEPT !.complete = TRUE, !.enable = FALSE] /\ d \in Channels
    BY <1>3 DEF Interrupted, Laid
  <2> HIDE DEF e
  <2>2. e \in Channels /\ ~e.enable
    BY <2>1 DEF Channels
  <2> QED
    BY <2>2 DEF Laid, Tracked, e
<1> QED
  BY <1>1, <1>2, <1>3

(* A piece ends within the buffer. *)
LEMMA FetchedOK ==
  ASSUME NEW d, Laid(d)
  PROVE  /\ Piece(d) \in Nat /\ (Piece(d) # 0 => d.enable)
         /\ Fetched(d).enable = d.enable
         /\ Fetched(d).base = d.base /\ Fetched(d).next = d.next + Piece(d)
         /\ laid \in Nat => Laid(Fetched(d))
<1>1. d \in Channels /\ SND_BUFFER_LIMIT \in Nat \ {0}
  BY SoundAssumption DEF Laid
<1>2. Piece(d) \in Nat /\ (Piece(d) # 0 => d.enable) /\ (d.enable => Piece(d) <= d.limit - d.next)
  BY <1>1 DEF Piece, Laid, Channels
<1> DEFINE e == Fetched(d)
<1>3. e = [d EXCEPT !.next = d.next + Piece(d)]
  BY <1>1 DEF Fetched, Channels
<1> HIDE DEF e
<1>4. /\ e \in Channels /\ e.next = d.next + Piece(d)
      /\ e.enable = d.enable /\ e.supdate = d.supdate
      /\ e.base = d.base /\ e.limit = d.limit /\ e.stop = d.stop
  BY <1>1, <1>2, <1>3 DEF Channels
<1>5. laid \in Nat => Laid(e)
  BY <1>1, <1>2, <1>4 DEF Laid, Channels
<1> QED
  BY <1>2, <1>4, <1>5 DEF e

(* The handler reports what was played and reads on; what it reads it plays. *)
LEMMA HandlerOK == Followed /\ SND_Out_Handler => Followed'
<1> SUFFICES ASSUME Followed, SND_Out_Handler PROVE Followed'
  OBVIOUS
<1> DEFINE d == IF snd_buffer_len > 0 THEN Interrupted(chan) ELSE chan
           n == Piece(d)
<1>1. /\ laid \in Nat /\ snd_buffer_len \in Nat /\ heard \in Seq(Nat)
      /\ Laid(chan) /\ Tracked(chan) /\ Increasing(heard)
      /\ \A x \in Heard : x <= laid
      /\ completed \subseteq Heard /\ kms.enable
  BY Zenon DEF Followed, SND_Out_Handler
<1>2. /\ queued = {} /\ (Play \/ Underrun) /\ laid' = laid
      /\ snd_buffer_len' = n /\ chan' = Fetched(d)
      /\ completed' = completed \cup
           (IF snd_buffer_len > 0 /\ AtLimit(chan) THEN chan.base + 1 .. chan.limit ELSE {})
  BY <1>1, Zenon DEF SND_Out_Handler, AskKms, Request
<1>3. kms' \in [enable : BOOLEAN, underrun : BOOLEAN] /\ (active => kms'.enable)
  <2>1. kms' \in [enable : BOOLEAN, underrun : BOOLEAN] /\ kms'.enable = kms.enable
    <3>0. kms \in [enable : BOOLEAN, underrun : BOOLEAN]
      BY Zenon DEF Followed
    <3>1. CASE Play
      BY <3>0, <3>1, Zenon DEF Play
    <3>2. CASE Underrun
      BY <3>0, <3>2 DEF Underrun
    <3> QED
      BY <1>2, <3>1, <3>2, Zenon
  <2> QED
    BY <1>1, <2>1, Zenon
<1>4. active' = active
  BY Zenon DEF SND_Out_Handler
<1>5. /\ Laid(d) /\ Tracked(d)
      /\ d.enable => chan.enable /\ d.next = chan.next
  BY <1>1, InterruptedOK
<1>6. completed' \subseteq Heard
  BY <1>1, <1>2 DEF Tracked, AtLimit
<1> HIDE DEF d
<1>7. /\ n \in Nat /\ (n # 0 => d.enable)
      /\ chan'.enable = d.enable /\ chan'.base = d.base /\ chan'.next = d.next + n
      /\ Laid(chan')
  BY <1>1, <1>2, <1>5, FetchedOK
<1>8. d \in Channels /\ d.next \in Nat /\ d.base \in Nat
  BY <1>5 DEF Laid, Channels
<1>9. Laid(chan)'
  BY <1>2, <1>7 DEF Laid
<1> HIDE DEF n
<1>10. CASE Play
  <2>1. n > 0 /\ heard' = heard \o Sent
        /\ queued' = IF inited THEN {Sent[i] : i \in DOMAIN Sent} ELSE {}
    BY <1>2, <1>10, Zenon DEF Play
  <2>2. Sent = [i \in 1 .. n |-> d.next + i]
    <3>1. Sent = [i \in 1 .. n |-> chan'.next - n + i]
      BY <1>2 DEF Sent
    <3>2. chan'.next - n = d.next
      BY <1>7, <1>8
    <3> QED
      BY <3>1, <3>2, Zenon
  <2>3. d.enable
    BY <1>7, <2>1
  <2>4. \A i \in DOMAIN heard : heard[i] <= d.next
    BY <1>5, <2>3 DEF Tracked, Heard, WordsOf
  <2>5. /\ heard' \in Seq(Nat) /\ Increasing(heard')
        /\ Heard' = Heard \cup (d.next + 1 .. d.next + n)
    <3>1. heard' = Extended(heard, d.next, n)
      BY <2>1, <2>2, Zenon DEF Extended
    <3>2. /\ heard' \in Seq(Nat) /\ Increasing(heard')
          /\ WordsOf(heard') = WordsOf(heard) \cup (d.next + 1 .. d.next + n)
      BY <1>1, <1>7, <1>8, <2>4, <3>1, ConcatOK
    <3> QED
      BY <3>2 DEF Heard, WordsOf
  <2>6. \A x \in Heard : x \in Nat /\ x <= d.next
    BY <1>1, <2>4 DEF Heard, WordsOf
  <2>7. /\ \A x \in Heard' : x <= d.next + n
        /\ d.base + 1 .. d.next + n \subseteq Heard'
    <3>1. d.base + 1 .. d.next \subseteq Heard
      BY <1>5, <2>3 DEF Tracked
    <3>2. d.base + 1 .. d.next + n \subseteq (d.base + 1 .. d.next) \cup (d.next + 1 .. d.next + n)
      BY <1>7, <1>8
    <3>3. \A x \in Heard' : x <= d.next + n
      BY <1>7, <1>8, <2>5, <2>6
    <3> QED
      BY <2>5, <3>1, <3>2, <3>3
  <2>8. Tracked(chan)'
    BY <1>7, <2>7, Zenon DEF Tracked
  <2>9. d.next + n <= laid
    <3>1. chan'.next <= laid
      <4>1. /\ chan' \in Channels /\ chan'.next <= chan'.limit /\ chan'.limit <= laid
        BY <1>7, <2>3 DEF Laid
      <4>2. chan'.next \in Nat /\ chan'.limit \in Nat
        BY <4>1 DEF Channels
      <4> QED
        BY <1>1, <4>1, <4>2
    <3> QED
      BY <1>7, <3>1
  <2>10. \A x \in Heard' : x <= laid'
    BY <1>1, <1>2, <1>7, <1>8, <2>5, <2>6, <2>7, <2>9
  <2>11. completed' \subseteq Heard' /\ completed' \cap queued' = {}
    <3>1. queued' \subseteq d.next + 1 .. d.next + n
      BY <1>7, <1>8, <2>1, <2>2
    <3>2. \A x \in completed' : x \in Nat /\ x <= d.next
      BY <1>6, <2>6
    <3> QED
      BY <1>6, <1>7, <1>8, <2>5, <3>1, <3>2
  <2>12. Increasing(heard)'
    BY <2>5 DEF Increasing
  <2> QED
    BY <1>1, <1>2, <1>3, <1>4, <1>7, <1>9, <2>5, <2>8, <2>10, <2>11, <2>12, Zenon DEF Followed
<1>11. CASE Underrun
  <2>1. n = 0 /\ heard' = heard /\ queued' = {}
    BY <1>2, <1>11, Zenon DEF Underrun
  <2>2. Heard' = Heard /\ Increasing(heard)'
    BY <1>1, <2>1 DEF Heard, Increasing
  <2>3. chan'.next = d.next
    BY <1>7, <1>8, <2>1
  <2>4. Tracked(chan)'
    BY <1>5, <1>7, <2>2, <2>3, Zenon DEF Tracked
  <2>5. completed' \subseteq Heard' /\ completed' \cap queued' = {}
    BY <1>6, <2>1, <2>2
  <2>6. \A x \in Heard' : x <= laid'
    BY <1>1, <1>2, <2>2
  <2> QED
    BY <1>1, <1>2, <1>3, <1>4, <1>7, <1>9, <2>1, <2>2, <2>4, <2>5, <2>6, Zenon DEF Followed
<1> QED
  BY <1>2, <1>10, <1>11

(* Nothing else sends words to the host or reports a buffer complete. *)
LEMMA UnheardOK ==
  ASSUME Followed, heard' = heard, completed' = completed,
         queued' \subseteq queued, laid' \in Nat, laid <= laid',
         snd_buffer_len' \in Nat, Laid(chan)', Tracked(chan)',
         kms' \in [enable : BOOLEAN, underrun : BOOLEAN], active' => kms'.enable
  PROVE  Followed'
<1>1. /\ laid \in Nat /\ heard \in Seq(Nat) /\ Increasing(heard)
      /\ (\A x \in Heard : x <= laid)
      /\ completed \subseteq Heard /\ completed \cap queued = {}
  BY Zenon DEF Followed
<1>2. Heard' = Heard /\ Increasing(heard)' /\ heard' \in Seq(Nat)
  BY <1>1 DEF Heard, Increasing
<1>3. \A x \in Heard : x \in Nat
  BY <1>1 DEF Heard, WordsOf
<1>4. \A x \in Heard' : x <= laid'
  BY <1>1, <1>2, <1>3
<1>5. completed' \subseteq Heard' /\ completed' \cap queued' = {}
  BY <1>1, <1>2
<1> QED
  BY <1>2, <1>4, <1>5, Zenon DEF Followed

(* A channel that has not moved. *)
LEMMA StillTracked == Followed /\ heard' = heard /\ laid' = laid /\ chan' = chan
                        => Laid(chan)' /\ Tracked(chan)'
<1> SUFFICES ASSUME Followed, heard' = heard, laid' = laid, chan' = chan
             PROVE  Laid(chan)' /\ Tracked(chan)'
  OBVIOUS
<1>1. Laid(chan) /\ Tracked(chan)
  BY Zenon DEF Followed
<1>2. Heard' = Heard
  BY DEF Heard
<1>3. Laid(chan)'
  BY <1>1 DEF Laid
<1>4. Tracked(chan)'
  BY <1>1, <1>2 DEF Tracked
<1> QED
  BY <1>3, <1>4

(* A channel that is switched off. *)
LEMMA OffOK == ASSUME chan' = NoDma PROVE Laid(chan)' /\ Tracked(chan)'
<1>1. chan' \in Channels /\ ~chan'.enable
  BY DEF NoDma, Channels
<1> QED
  BY <1>1 DEF Laid, Tracked

(* The host, the event after a stop, and what does not touch the channel. *)
LEMMA AsideOK ==
  ASSUME Followed,
         OutputEnds \/ HostPlays \/ StartOutput \/ StopOutput \/ DisableKms \/ EnableKms
           \/ AckUnderrun \/ Sound_Pause \/ UNCHANGED sndVars
  PROVE  Followed'
<1> DEFINE K == [enable : BOOLEAN, underrun : BOOLEAN]
           Aside == /\ queued' \subseteq queued /\ snd_buffer_len' \in Nat
                    /\ kms' \in K /\ (active' => kms'.enable)
<1>1. /\ laid \in Nat /\ snd_buffer_len \in Nat /\ kms \in K /\ (active => kms.enable)
  BY Zenon DEF Followed
<1>2. /\ heard' = heard /\ completed' = completed /\ laid' = laid /\ chan' = chan
  BY Zenon DEF OutputEnds, HostPlays, StartOutput, StopOutput, DisableKms, EnableKms,
               AckUnderrun, Sound_Pause, Stopping, sndVars
<1>3. Laid(chan)' /\ Tracked(chan)'
  BY <1>2, StillTracked
<1>4. Aside
  <2>1. CASE OutputEnds
    BY <1>1, <2>1, Zenon DEF OutputEnds
  <2>2. CASE HostPlays
    BY <1>1, <2>2, Zenon DEF HostPlays
  <2>3. CASE StartOutput
    BY <1>1, <2>3 DEF StartOutput
  <2>4. CASE StopOutput
    BY <1>1, <2>4 DEF StopOutput
  <2>5. CASE DisableKms
    BY <1>1, <2>5 DEF DisableKms, kms_reset
  <2>6. CASE EnableKms
    BY <1>1, <2>6 DEF EnableKms
  <2>7. CASE AckUnderrun
    BY <1>1, <2>7 DEF AckUnderrun
  <2>8. CASE Sound_Pause
    BY <1>1, <2>8 DEF Sound_Pause
  <2>9. CASE UNCHANGED sndVars
    BY <1>1, <2>9, Zenon DEF sndVars
  <2> QED
    BY <2>1, <2>2, <2>3, <2>4, <2>5, <2>6, <2>7, <2>8, <2>9
<1>5. laid' \in Nat /\ laid <= laid'
  BY <1>1, <1>2
<1> QED
  BY <1>2, <1>3, <1>4, <1>5, UnheardOK

(* What the guest does to the channel: a buffer it lays out comes behind   *)
(* the others, so nothing of it was heard.                                 *)
LEMMA ChannelOK ==
  ASSUME Followed, \/ \E n \in Lengths : StartDma(n) \/ Chain(n)
                   \/ Acknowledge \/ ResetDma \/ ResetSound
  PROVE  Followed'
<1> DEFINE K == [enable : BOOLEAN, underrun : BOOLEAN]
<1>1. /\ laid \in Nat /\ snd_buffer_len \in Nat /\ kms \in K /\ (active => kms.enable)
      /\ Laid(chan) /\ Tracked(chan) /\ (\A x \in Heard : x <= laid)
  BY Zenon DEF Followed
<1>2. ASSUME NEW n \in Lengths, StartDma(n) PROVE Followed'
  <2>1. n \in Nat /\ laid' = laid + n
    BY <1>2, SoundAssumption DEF StartDma, LayOut
  <2>2. /\ heard' = heard /\ completed' = completed /\ queued' = queued
        /\ snd_buffer_len' = snd_buffer_len /\ kms' = kms /\ active' = active
    BY <1>2, Zenon DEF StartDma, Channel
  <2>3. /\ chan' \in Channels /\ ~chan'.supdate
        /\ chan'.base = laid /\ chan'.next = laid /\ chan'.limit = laid'
    <3>1. chan' = [NoDma EXCEPT !.enable = TRUE, !.base = laid, !.next = laid,
                                !.limit = laid + n]
      BY <1>2, Zenon DEF StartDma, Channel
    <3>2. NoDma \in Channels /\ ~NoDma.supdate
      BY DEF NoDma, Channels
    <3>3. laid \in Nat /\ laid + n \in Nat
      BY <1>1, <2>1
    <3> QED
      BY <2>1, <3>1, <3>2, <3>3 DEF Channels
  <2>4. Laid(chan)'
    BY <1>1, <2>1, <2>3 DEF Laid
  <2>5. Heard' = Heard
    BY <2>2 DEF Heard
  <2>6. Tracked(chan)'
    BY <1>1, <2>3, <2>5 DEF Tracked
  <2>7. laid' \in Nat /\ laid <= laid'
    BY <1>1, <2>1
  <2> QED
    BY <1>1, <2>2, <2>4, <2>6, <2>7, UnheardOK
<1>3. ASSUME NEW n \in Lengths, Chain(n) PROVE Followed'
  <2>1. n \in Nat /\ laid' = laid + n
    BY <1>3, SoundAssumption DEF Chain, LayOut
  <2>2. /\ heard' = heard /\ completed' = completed /\ queued' = queued
        /\ snd_buffer_len' = snd_buffer_len /\ kms' = kms /\ active' = active
    BY <1>3, Zenon DEF Chain, Channel
  <2>3. /\ chan' \in Channels /\ chan'.enable = chan.enable
        /\ chan'.base = chan.base /\ chan'.next = chan.next /\ chan'.limit = chan.limit
        /\ chan'.stop = laid'
    <3>1. chan' = [chan EXCEPT !.supdate = TRUE, !.complete = FALSE, !.stop = laid + n]
      BY <1>3, Zenon DEF Chain, Channel
    <3>2. chan \in Channels
      BY <1>1, Zenon DEF Laid
    <3>3. laid + n \in Nat
      BY <1>1, <2>1
    <3> QED
      BY <2>1, <3>1, <3>2, <3>3 DEF Channels
  <2>4. Laid(chan)'
    BY <1>1, <2>1, <2>3 DEF Laid, Channels
  <2>5. Heard' = Heard
    BY <2>2 DEF Heard
  <2>6. Tracked(chan)'
    BY <1>1, <2>3, <2>5, Zenon DEF Tracked
  <2>7. laid' \in Nat /\ laid <= laid'
    BY <1>1, <2>1
  <2> QED
    BY <1>1, <2>2, <2>4, <2>6, <2>7, UnheardOK
<1>4. CASE Acknowledge
  <2>2. /\ heard' = heard /\ completed' = completed /\ queued' = queued /\ laid' = laid
        /\ snd_buffer_len' = snd_buffer_len /\ kms' = kms /\ active' = active
    BY <1>4, Zenon DEF Acknowledge, Channel
  <2>3. /\ chan' \in Channels /\ chan'.enable = chan.enable /\ chan'.supdate = chan.supdate
        /\ chan'.base = chan.base /\ chan'.next = chan.next /\ chan'.limit = chan.limit
        /\ chan'.stop = chan.stop
    BY <1>1, <1>4 DEF Acknowledge, Channel, Channels, Laid
  <2>4. Laid(chan)'
    BY <1>1, <2>2, <2>3 DEF Laid, Channels
  <2>5. Heard' = Heard
    BY <2>2 DEF Heard
  <2>6. Tracked(chan)'
    BY <1>1, <2>3, <2>5, Zenon DEF Tracked
  <2>7. laid' \in Nat /\ laid <= laid'
    BY <1>1, <2>2
  <2> QED
    BY <1>1, <2>2, <2>4, <2>6, <2>7, UnheardOK
<1>5. CASE ResetDma
  <2>1. /\ heard' = heard /\ completed' = completed /\ queued' = queued /\ laid' = laid
        /\ snd_buffer_len' = snd_buffer_len /\ kms' = kms /\ active' = active /\ chan' = NoDma
    BY <1>5, Zenon DEF ResetDma, Stopping
  <2>2. Laid(chan)' /\ Tracked(chan)'
    BY <2>1, OffOK
  <2>3. laid' \in Nat /\ laid <= laid'
    BY <1>1, <2>1
  <2> QED
    BY <1>1, <2>1, <2>2, <2>3, UnheardOK
<1>6. CASE ResetSound
  <2>1. /\ heard' = heard /\ completed' = completed /\ queued' = queued /\ laid' = laid
        /\ snd_buffer_len' = 0 /\ active' = FALSE /\ chan' = NoDma
        /\ kms' = [enable |-> FALSE, underrun |-> FALSE]
    BY <1>6, Zenon DEF ResetSound, kms_reset, Stopping
  <2>2. Laid(chan)' /\ Tracked(chan)'
    BY <2>1, OffOK
  <2>3. laid' \in Nat /\ laid <= laid' /\ kms' \in K /\ snd_buffer_len' \in Nat
    BY <1>1, <2>1
  <2> QED
    BY <1>1, <2>1, <2>2, <2>3, UnheardOK
<1> QED
  BY <1>2, <1>3, <1>4, <1>5, <1>6

(* At first nothing was laid out or heard. *)
LEMMA NothingHeard == SoundInit => Followed
<1> SUFFICES ASSUME SoundInit PROVE Followed
  OBVIOUS
<1>1. /\ laid = 0 /\ snd_buffer_len = 0 /\ heard = <<>> /\ completed = {} /\ queued = {}
      /\ active = FALSE /\ chan = NoDma /\ kms = [enable |-> FALSE, underrun |-> FALSE]
  BY Zenon DEF SoundInit
<1>2. Heard = {} /\ Increasing(heard) /\ heard \in Seq(Nat)
  BY <1>1 DEF Heard, WordsOf, Increasing
<1>3. chan \in Channels /\ ~chan.enable
  BY <1>1 DEF NoDma, Channels
<1>4. Laid(chan) /\ Tracked(chan)
  BY <1>3 DEF Laid, Tracked
<1> QED
  BY <1>1, <1>2, <1>4 DEF Followed

(* What was heard rises word by word, and what is complete was heard. *)
LEMMA FollowedPlays == Followed => PlayedOnce
<1> SUFFICES ASSUME Followed PROVE PlayedOnce
  OBVIOUS
<1>1. Increasing(heard) /\ completed \subseteq Heard /\ completed \cap queued = {}
  BY Zenon DEF Followed
<1>2. \A i, j \in DOMAIN heard : i < j => heard[i] < heard[j]
  BY <1>1, Zenon DEF Increasing
<1>3. completed \subseteq {heard[i] : i \in DOMAIN heard} \ queued
  BY <1>1 DEF Heard, WordsOf
<1> QED
  BY <1>2, <1>3, Zenon DEF PlayedOnce

(* However the guest stops, starts, chains and resets its output and the   *)
(* host's device is closed and opened, no word of the sound is sent to the *)
(* host twice or out of its turn, and a buffer is reported complete only   *)
(* when all of it was sent and none is left to play (kms_sndout_request,   *)
(* SND_Out_Handler).                                                       *)
THEOREM WordsPlayedOnce == SoundSpec => []PlayedOnce
<1>1. SoundInit => Followed
  BY NothingHeard
<1>2. Followed /\ [SoundNext]_sndVars => Followed'
  <2> SUFFICES ASSUME Followed, [SoundNext]_sndVars PROVE Followed'
    OBVIOUS
  <2>1. CASE SND_Out_Handler
    BY <2>1, HandlerOK
  <2>2. CASE OutputEnds \/ HostPlays \/ StartOutput \/ StopOutput \/ DisableKms \/ EnableKms
               \/ AckUnderrun \/ Sound_Pause \/ UNCHANGED sndVars
    BY <2>2, AsideOK
  <2>3. CASE (\E n \in Lengths : StartDma(n) \/ Chain(n)) \/ Acknowledge \/ ResetDma \/ ResetSound
    BY <2>3, ChannelOK
  <2> QED
    BY <2>1, <2>2, <2>3, Zenon DEF SoundNext, Guest
<1>3. Followed => PlayedOnce
  BY FollowedPlays
<1> QED
  BY <1>1, <1>2, <1>3, PTL DEF SoundSpec

-----------------------------------------------------------------------------
(* The message port of a board (Dimension).                                *)

Sending == {"load", "cas"}

Places ==
  {"idle", "dead", "construct", "create", "join", "gone", "load", "cas", "clear", "clear2",
   "check", "take", "blank", "set", "set2", "unset", "unset2", "handle", "run", "burst"}

(* Every variable the argument looks at has its type. *)
BoardTypeOK ==
  /\ m_port \subseteq Msgs /\ sent \subseteq Msgs /\ taken \subseteq Msgs
  /\ where \in [Threads -> Places] /\ then \in [Threads -> Places]
  /\ msg \in [Threads -> Msgs] /\ old \in [Threads -> SUBSET Msgs]
  /\ wasReset \in BOOLEAN

(* The i860's thread has a batch only from Take to Handle; what interrupts *)
(* it in between leads back to the batch, a burst back to the burst.       *)
BatchDone ==
  /\ where["i860"] \in {"take", "run", "burst", "dead"} => taken = {}
  /\ where["i860"] \in Sending =>
       /\ then["i860"] \in {"clear", "handle", "burst"}
       /\ then["i860"] = "burst" => taken = {}

(* While a board is made or gone no thread runs on it, and the main thread *)
(* sends two messages only.                                                *)
Making ==
  /\ where["main"] \in {"construct", "create", "gone"} => where["i860"] = "dead"
  /\ where["main"] \in Sending =>
       \/ then["main"] = "create" /\ msg["main"] = "RESET" /\ where["i860"] = "dead"
       \/ then["main"] = "join" /\ msg["main"] = "KILL"
  /\ where["main"] \notin {"clear", "clear2", "check"}

(* Until the i860 has been reset, the reset is on its way. *)
ResetComes ==
  /\ where["main"] = "create" => "RESET" \in m_port
  /\ ~wasReset /\ where["i860"] = "take" => "RESET" \in m_port
  /\ ~wasReset /\ where["i860"] \notin {"dead", "take"} => "RESET" \in taken

BoardInv == BoardTypeOK /\ BatchDone /\ Making /\ ResetComes /\ NoMessageLost

(* A board starts with an empty port and no thread of its own. *)
LEMMA BoardStart == BoardInit => BoardInv
  BY DEF BoardInit, BoardInv, BoardTypeOK, BatchDone, Making, ResetComes, NoMessageLost,
         Sending, Places, Threads, Msgs

(* A step of send_msg by any thread. *)
LEMMA SendOK ==
  ASSUME BoardInv, NEW t \in Threads, PortLoad(t) \/ Cas(t)
  PROVE  BoardInv'
<1> USE DEF BoardInv, BoardTypeOK, BatchDone, Making, ResetComes, NoMessageLost, Sending, Places,
            Threads, Msgs, Is, Goto, mc, video, i860
<1>1. CASE PortLoad(t)
  BY <1>1 DEF PortLoad
<1>2. CASE Cas(t) /\ m_port # old[t]
  <2>1. /\ where[t] = "cas" /\ where' = [where EXCEPT ![t] = "load"]
        /\ old' = [old EXCEPT ![t] = {}]
        /\ UNCHANGED <<m_port, sent, msg, then, taken, wasReset>>
    BY <1>2 DEF Cas, Reread
  <2> QED
    BY <2>1
<1>3. CASE Cas(t) /\ m_port = old[t]
  <2>1. /\ Is(t, "cas") /\ m_port' = Merged(m_port, msg[t])
        /\ sent' = sent \cup {msg[t]} /\ msg' = [msg EXCEPT ![t] = "LOWER"]
        /\ then' = [then EXCEPT ![t] = "idle"] /\ where' = [where EXCEPT ![t] = then[t]]
        /\ old' = [old EXCEPT ![t] = {}]
        /\ UNCHANGED <<taken, wasReset>>
    BY <1>3 DEF Cas, Post
  <2>2. /\ m_port' \subseteq Msgs /\ msg[t] \in m_port'
        /\ m_port \ {"RAISE", "LOWER"} \subseteq m_port'
    BY <2>1 DEF Merged
  <2>3. BoardTypeOK' /\ NoMessageLost'
    BY <2>1, <2>2
  <2>4. BatchDone'
    BY <2>1
  <2>5. Making'
    BY <2>1
  <2>6. ResetComes'
    BY <2>1, <2>2
  <2> QED
    BY <2>3, <2>4, <2>5, <2>6
<1> QED
  BY <1>1, <1>2, <1>3

(* A step of a write to CSR0, by one of the two processors. *)
LEMMA CsrOK ==
  ASSUME BoardInv, NEW t \in {"m68k", "i860"},
         ClearReset(t) \/ CheckInterrupt(t) \/ (\E v \in Values : WriteCsr0(t, v))
  PROVE  BoardInv'
<1> USE DEF BoardInv, BoardTypeOK, BatchDone, Making, ResetComes, NoMessageLost, Sending, Places,
            Threads, Msgs, Is, Goto, port, video, i860
<1>1. CASE ClearReset(t)
  <2>1. /\ \/ where[t] = "clear" /\ where' = [where EXCEPT ![t] = "clear2"]
           \/ where[t] = "clear2" /\ where' = [where EXCEPT ![t] = "check"]
        /\ UNCHANGED <<m_port, sent, msg, old, then, taken, wasReset>>
    BY <1>1 DEF ClearReset, Load, Store
  <2> QED
    BY <2>1
<1>2. CASE CheckInterrupt(t)
  BY <1>2 DEF CheckInterrupt, Send, Continue
<1>3. ASSUME NEW v \in Values, WriteCsr0(t, v) PROVE BoardInv'
  BY <1>3 DEF WriteCsr0, Send, Running
<1> QED
  BY <1>1, <1>2, <1>3

(* The i860's thread takes what is in the port, handles it, and runs. *)
LEMMA I860OK == BoardInv /\ (Take \/ Blank \/ Handle \/ Run \/ BurstEnd) => BoardInv'
<1> SUFFICES ASSUME BoardInv, Take \/ Blank \/ Handle \/ Run \/ BurstEnd PROVE BoardInv'
  OBVIOUS
<1> USE DEF BoardInv, BoardTypeOK, BatchDone, Making, ResetComes, NoMessageLost, Sending, Places,
            Threads, Msgs, Is, Goto, port, mc, video, i860
<1>1. CASE Take
  BY <1>1 DEF Take
<1>2. CASE Blank
  <2>1. /\ where["i860"] \in {"blank", "set", "set2", "unset", "unset2"}
        /\ \E p \in {"set", "set2", "unset", "unset2", "check"} :
             where' = [where EXCEPT !["i860"] = p]
        /\ UNCHANGED <<m_port, sent, msg, old, then, taken, wasReset>>
    BY <1>2 DEF Blank, BlankArgument, SetBlankState, Load, Store
  <2> QED
    BY <2>1
<1>3. CASE Handle
  <2>1. /\ where["i860"] = "handle"
        /\ \/ where' = [where EXCEPT !["i860"] = "dead"] /\ UNCHANGED wasReset
           \/ /\ where' = [where EXCEPT !["i860"] = "run"]
              /\ wasReset' = (wasReset \/ "RESET" \in taken)
        /\ taken' = {} /\ sent' = sent \ (taken \ m_port)
        /\ UNCHANGED <<m_port, msg, old, then>>
    BY <1>3 DEF Handle, Handled, Act
  <2>2. wasReset' \in BOOLEAN
    BY <2>1
  <2> QED
    BY <2>1, <2>2
<1>4. CASE Run \/ BurstEnd
  BY <1>4 DEF Run, BurstEnd
<1> QED
  BY <1>1, <1>2, <1>3, <1>4

(* The blank posts a message; the main thread makes, halts and removes the board. *)
LEMMA BoardOK ==
  BoardInv /\ (Vbl \/ Construct \/ Create \/ JoinBoard \/ PauseBoard \/ ResumeBoard \/ Remove)
    => BoardInv'
<1> SUFFICES ASSUME BoardInv, Vbl \/ Construct \/ Create \/ JoinBoard \/ PauseBoard
                            \/ ResumeBoard \/ Remove
             PROVE  BoardInv'
  OBVIOUS
<1> USE DEF BoardInv, BoardTypeOK, BatchDone, Making, ResetComes, NoMessageLost, Sending, Places,
            Threads, Msgs, Is, Goto, port, mc, video, i860
<1>1. CASE Vbl
  BY <1>1 DEF Vbl, Send
<1>2. CASE Construct
  BY <1>2 DEF Construct, NewBoard, Send
<1>3. CASE Create
  BY <1>3 DEF Create
<1>4. CASE JoinBoard
  BY <1>4 DEF JoinBoard
<1>5. CASE PauseBoard \/ ResumeBoard
  BY <1>5 DEF PauseBoard, ResumeBoard
<1>6. CASE Remove
  BY <1>6 DEF Remove, Send
<1> QED
  BY <1>1, <1>2, <1>3, <1>4, <1>5, <1>6

(* The invariant holds in every reachable state. *)
THEOREM BoardInvariance == BoardSpec => []BoardInv
<1>1. BoardInv /\ [BoardNext]_boardVars => BoardInv'
  <2> SUFFICES ASSUME BoardInv, [BoardNext]_boardVars PROVE BoardInv'
    OBVIOUS
  <2>1. CASE I860
    BY <2>1, SendOK, CsrOK, I860OK DEF I860, Threads
  <2>2. CASE M68k
    BY <2>2, SendOK, CsrOK, BoardOK DEF M68k, Threads
  <2>3. CASE MainStep
    BY <2>3, SendOK, BoardOK DEF MainStep, Threads
  <2>4. CASE \E t \in {"m68k", "i860"}, v \in Values : WriteCsr0(t, v)
    BY <2>4, CsrOK
  <2>5. CASE UNCHANGED boardVars
    BY <2>5 DEF BoardInv, BoardTypeOK, BatchDone, Making, ResetComes, NoMessageLost, boardVars,
                port, mc, i860
  <2> QED
    BY <2>1, <2>2, <2>3, <2>4, <2>5, BoardOK DEF BoardNext
<1> QED
  BY BoardStart, <1>1, PTL DEF BoardSpec

(* A reset, a blank and the end of the thread are not lost by another      *)
(* thread that posts at the same time (dimension.cpp:184).                 *)
THEOREM MessagesArrive == BoardSpec => []NoMessageLost
<1>1. BoardInv => NoMessageLost
  BY DEF BoardInv
<1> QED
  BY BoardInvariance, <1>1, PTL

(* The i860 executes nothing before it has been reset, also after a pause  *)
(* that ends before its thread has come to the message (i860.cpp:543).     *)
THEOREM ResetComesFirst == BoardSpec => []NeverRunsUnreset
<1>1. BoardInv => NeverRunsUnreset
  BY DEF BoardInv, BatchDone, ResetComes, NeverRunsUnreset, Is
<1> QED
  BY BoardInvariance, <1>1, PTL
=============================================================================
