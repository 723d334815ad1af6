------------------------------ MODULE SndFifo -------------------------------
(***************************************************************************)
(* The audio pipe of src/src/sndfifo.c: SndFifo_Write resamples each block *)
(* of 44.1 kHz frames to 48 kHz and hands the result to a non-blocking     *)
(* pipe that may take all of it, a part of it or nothing.                  *)
(*                                                                         *)
(* Abstractions: an input frame is its number; an output frame is what it  *)
(* is interpolated from, <<left, right, fraction>>; ONE is 2^32 and STEP is*)
(* FIFO_STEP, scaled down.  The pipe and its reader are external.          *)
(***************************************************************************)
EXTENDS Integers

CONSTANTS
  ONE, STEP,        \* one input frame of phase, and what an output frame takes
  FIFO_OUTFRAMES,   \* the staging buffer
  MaxBlock,         \* frames snd.c hands over in one call
  MaxFrames,        \* bound: input frames in a behaviour
  Capacity,         \* of the pipe, in bytes
  Quantum           \* a partial write takes a multiple of these bytes

ASSUME FifoAssumption ==
  /\ ONE \in Nat /\ STEP \in 1 .. ONE - 1
  /\ FIFO_OUTFRAMES \in Nat \ {0} /\ MaxBlock \in Nat \ {0}
  /\ MaxFrames \in Nat /\ Capacity \in Nat /\ Quantum \in Nat \ {0}

VARIABLES
  fd,               \* is the pipe open?
  phase, prev, primed, partial,   \* fifo_phase, _prev, _primed, _partial
  pc,               \* "idle", or "frames" inside SndFifo_Write
  left,             \* input frames of this block not yet passed
  o,                \* output frames staged
  fill,             \* bytes in the pipe
  passed, made,     \* history: input frames passed, output frames made
  out,              \* history: the last output frame
  last              \* history: where the last byte went, and which byte it was

sampler == <<phase, prev, primed>>
block   == <<pc, left, o>>
pipe    == <<partial, fill, last>>
vars    == <<fd, sampler, block, pipe, passed, made, out>>

Init ==
  /\ fd \in BOOLEAN             \* SndFifo_Init: configured and opened, or not
  /\ phase = 0 /\ prev = 0 /\ primed = FALSE /\ partial = 0
  /\ pc = "idle" /\ left = 0 /\ o = 0
  /\ fill = 0
  /\ passed = 0 /\ made = 0 /\ out = <<0, 0, 0>>
  /\ last = [place |-> 3, byte |-> 3]

(* The number of the input frame the loop is at. *)
Cur == passed

-----------------------------------------------------------------------------
(* fifo_emit: of the len bytes staged, n are taken from offset skip on.     *)

Took(n) == (n + last.place) % 4

(* What the pipe takes of len bytes: all that fits, a part, or nothing; a   *)
(* closed descriptor takes nothing.                                        *)
Accepted(len) ==
  IF ~fd THEN {0}
  ELSE IF fill + len <= Capacity THEN {len}
  ELSE {n \in 0 .. Capacity - fill : n % Quantum = 0}

Emit ==
  LET len == 4 * o
      skip == IF partial = 0 THEN 0 ELSE 4 - partial
  IN  /\ o' = 0
      /\ IF skip >= len
         THEN partial' = (partial + len) % 4 /\ UNCHANGED <<fill, last>>
         ELSE \E n \in Accepted(len - skip) :
                /\ fill' = fill + n
                /\ IF n = 0 THEN UNCHANGED last
                   ELSE last' = [place |-> Took(n), byte |-> (skip + n - 1) % 4]
                /\ partial' = IF n < len - skip THEN n % 4 ELSE 0

-----------------------------------------------------------------------------
(* SndFifo_Write. *)

(* Mutant: each block starts a new phase. *)
WriteAfresh(n) ==
  /\ pc = "idle" /\ fd
  /\ primed' = TRUE /\ prev' = Cur /\ phase' = 0
  /\ pc' = "frames" /\ left' = n
  /\ UNCHANGED <<fd, o, pipe, passed, made, out>>

Write(n) ==
  /\ pc = "idle" /\ fd
  /\ IF primed THEN UNCHANGED sampler
     ELSE primed' = TRUE /\ prev' = Cur /\ phase' = 0
  /\ pc' = "frames" /\ left' = n
  /\ UNCHANGED <<fd, o, pipe, passed, made, out>>

(* One more output frame between prev and cur. *)
Stage ==
  /\ pc = "frames" /\ left > 0
  /\ phase < ONE /\ o < FIFO_OUTFRAMES
  /\ out' = <<prev, Cur, phase>>
  /\ made' = made + 1
  /\ o' = o + 1
  /\ phase' = phase + STEP
  /\ UNCHANGED <<fd, prev, primed, pc, left, pipe, passed>>

(* Mutant: the output frame that found the buffer full is skipped. *)
FlushLosesFrame ==
  /\ pc = "frames" /\ left > 0
  /\ phase < ONE /\ o >= FIFO_OUTFRAMES
  /\ Emit
  /\ phase' = phase + STEP
  /\ UNCHANGED <<fd, prev, primed, pc, left, passed, made, out>>

(* The staging buffer is full in the middle of a block. *)
Flush ==
  /\ pc = "frames" /\ left > 0
  /\ phase < ONE /\ o >= FIFO_OUTFRAMES
  /\ Emit
  /\ UNCHANGED <<fd, sampler, pc, left, passed, made, out>>

Advance ==
  /\ pc = "frames" /\ left > 0
  /\ phase >= ONE
  /\ phase' = phase - ONE
  /\ prev' = Cur
  /\ passed' = passed + 1
  /\ left' = left - 1
  /\ UNCHANGED <<fd, primed, pc, o, pipe, made, out>>

Finish ==
  /\ pc = "frames" /\ left = 0
  /\ pc' = "idle"
  /\ IF o > 0 THEN Emit ELSE UNCHANGED <<o, pipe>>
  /\ UNCHANGED <<fd, sampler, left, passed, made, out>>

(* SndFifo_UnInit: the main thread closes the pipe when it quits, wherever  *)
(* the emulation thread is.                                                *)
UnInit ==
  /\ fd' = FALSE
  /\ UNCHANGED <<sampler, block, pipe, passed, made, out>>

Sampling == Stage \/ Flush \/ Advance \/ Finish

(* The reader, if there is one, takes what it likes. *)
Read ==
  /\ \E n \in 1 .. fill : fill' = fill - n
  /\ UNCHANGED <<fd, sampler, block, partial, last, passed, made, out>>

Next ==
  \/ \E n \in 1 .. MaxBlock : passed + n <= MaxFrames /\ Write(n)
  \/ Sampling
  \/ UnInit
  \/ Read

Spec == Init /\ [][Next]_vars

-----------------------------------------------------------------------------
(* Properties. *)

(* The output is the input seen at STEP/ONE intervals, and the blocks it    *)
(* came in cannot be told from it: "block boundaries introduce no          *)
(* discontinuity" (sndfifo.c:28-30).  Output frame j lies at j * STEP.     *)
At(j) ==
  LET i == (j * STEP) \div ONE
  IN  <<IF i = 0 THEN 0 ELSE i - 1, i, (j * STEP) % ONE>>

NoSeam == made > 0 => out = At(made - 1)

(* Nothing is missing either: what has been made reaches up to the input.  *)
KeepsUp == pc = "idle" => made * STEP \in passed * ONE .. passed * ONE + STEP - 1

(* "a partial write can never shift the stream's framing by a byte or two" *)
(* (sndfifo.c:43-44): byte b of a frame is written at a place 4 * k + b.   *)
Framing == last.byte = last.place
=============================================================================
