------------------------------- MODULE Sound --------------------------------
(***************************************************************************)
(* Sound output: the guest hands buffers to the sound-out DMA channel      *)
(* (dma.c) and starts and stops the output with commands to the KMS        *)
(* (kms.c); an event that reschedules itself (snd.c) asks for a piece of   *)
(* the buffer, sends it to the host and reports the buffer complete when   *)
(* it asks for the next one.                                               *)
(*                                                                         *)
(* Abstractions: a word of four bytes is one frame; the guest lays its     *)
(* buffers one behind the other, so that a word's address tells its place  *)
(* in the sound; the host plays all it was sent at once, and what fits its *)
(* own buffer counts as played (Audio_Output_Queue_Size).  Volume, filters,*)
(* sample doubling, bus errors and sound input are left out.               *)
(***************************************************************************)
EXTENDS Integers, Sequences

CONSTANTS
  SND_BUFFER_LIMIT,      \* words sent at a time
  Lengths,               \* of the guest's buffers, in words
  MaxSound,              \* bound: words of sound
  MaxStops,              \* bound: stops, resets and pauses
  Settings               \* may the user change the sound settings while it plays?

ASSUME SoundAssumption ==
  /\ SND_BUFFER_LIMIT \in Nat \ {0} /\ Lengths \subseteq Nat \ {0}
  /\ MaxSound \in Nat /\ MaxStops \in Nat /\ Settings \in BOOLEAN

VARIABLES
  active, inited,        \* sound_output_active, sound_output_inited
  pending,               \* is EVENT_SND_OUTPUT scheduled?
  queued,                \* the addresses of the words the host has still to play
  snd_buffer_len,
  kms,                   \* [enable, underrun]: KMS_ENABLE, SNDOUT_DMA_UNDERRUN
  INT_SOUND_OVRUN,
  chan,                  \* the DMA channel: [enable, supdate, complete, base, next, limit, stop]
  laid,                  \* words of the buffers the guest has laid out
  heard,                 \* history: the addresses sent to the host
  completed,             \* history: the addresses in buffers reported complete
  stops

sndVars == <<active, inited, pending, queued, snd_buffer_len, kms, INT_SOUND_OVRUN, chan,
             laid, heard, completed, stops>>

NoDma == [enable |-> FALSE, supdate |-> FALSE, complete |-> FALSE,
          base |-> 0, next |-> 0, limit |-> 0, stop |-> 0]

SoundInit ==
  /\ active = FALSE /\ inited \in BOOLEAN /\ pending = FALSE /\ queued = {}
  /\ snd_buffer_len = 0 /\ kms = [enable |-> FALSE, underrun |-> FALSE]
  /\ INT_SOUND_OVRUN = FALSE /\ chan = NoDma
  /\ laid = 0 /\ heard = <<>> /\ completed = {} /\ stops = 0

-----------------------------------------------------------------------------
(* The event. *)

AtLimit(d) == d.enable /\ d.next = d.limit

(* dma_interrupt: the channel goes on with the next buffer, or stops. *)
Interrupted(d) ==
  IF ~AtLimit(d) THEN d
  ELSE IF d.supdate
       THEN [d EXCEPT !.complete = TRUE, !.supdate = FALSE,
                      !.base = d.limit, !.limit = d.stop]
       ELSE [d EXCEPT !.complete = TRUE, !.enable = FALSE]

Piece(d) ==
  IF ~d.enable THEN 0
  ELSE IF d.limit - d.next < SND_BUFFER_LIMIT THEN d.limit - d.next ELSE SND_BUFFER_LIMIT

Fetched(d) == [d EXCEPT !.next = @ + Piece(d)]

(* Mutant: what was sent last is forgotten before it is looked at. *)
RequestForgets ==
  /\ snd_buffer_len' = Piece(chan)
  /\ chan' = Fetched(chan)
  /\ UNCHANGED completed

(* Mutant: a buffer that has been read is complete, played or not. *)
RequestCompletesEarly ==
  /\ snd_buffer_len' = Piece(chan)
  /\ chan' = Interrupted(Fetched(chan))
  /\ completed' = completed \cup
       (IF AtLimit(Fetched(chan)) THEN chan.base + 1 .. chan.limit ELSE {})

(* kms_sndout_request: what was sent last has been played.  Nothing else   *)
(* reports a buffer complete.                                              *)
Request ==
  LET d == IF snd_buffer_len > 0 THEN Interrupted(chan) ELSE chan
  IN  /\ snd_buffer_len' = Piece(d)
      /\ chan' = Fetched(d)
      /\ completed' = completed \cup
           (IF snd_buffer_len > 0 /\ AtLimit(chan) THEN chan.base + 1 .. chan.limit ELSE {})

(* kms_command_out: a KMS that is not enabled hears no request. *)
AskKms ==
  IF kms.enable THEN Request ELSE UNCHANGED <<snd_buffer_len, chan, completed>>

(* snd_send_samples: the words read last. *)
Sent == [i \in 1 .. snd_buffer_len' |-> chan'.next - snd_buffer_len' + i]

Play ==
  /\ snd_buffer_len' > 0
  /\ heard' = heard \o Sent
  /\ queued' = IF inited THEN {Sent[i] : i \in DOMAIN Sent} ELSE {}
  /\ UNCHANGED <<kms, INT_SOUND_OVRUN>>

(* kms_sndout_underrun *)
Underrun ==
  /\ snd_buffer_len' = 0
  /\ kms' = [kms EXCEPT !.underrun = @ \/ kms.enable]
  /\ INT_SOUND_OVRUN' = (INT_SOUND_OVRUN \/ kms.enable)
  /\ UNCHANGED <<heard, queued>>

(* SND_Out_Handler; while the host has something to play the event only    *)
(* reschedules itself.                                                     *)
SND_Out_Handler ==
  /\ pending /\ active /\ queued = {}
  /\ AskKms /\ (Play \/ Underrun)
  /\ UNCHANGED <<active, inited, pending, laid, stops>>

(* The event after a stop. *)
OutputEnds ==
  /\ pending /\ ~active /\ pending' = FALSE
  /\ UNCHANGED <<active, inited, queued, snd_buffer_len, kms, INT_SOUND_OVRUN, chan, laid,
                 heard, completed, stops>>

HostPlays ==
  /\ queued # {} /\ queued' = {}
  /\ UNCHANGED <<active, inited, pending, snd_buffer_len, kms, INT_SOUND_OVRUN, chan, laid,
                 heard, completed, stops>>

-----------------------------------------------------------------------------
(* The guest, and what else happens to the sound. *)

StartOutput ==
  /\ kms.enable /\ active' = TRUE /\ pending' = TRUE
  /\ queued' = IF active THEN queued ELSE {}
  /\ UNCHANGED <<inited, snd_buffer_len, kms, INT_SOUND_OVRUN, chan, laid, heard, completed,
                 stops>>

Stopping ==
  /\ stops < MaxStops /\ stops' = stops + 1
  /\ UNCHANGED <<inited, laid, heard, completed>>

StopOutput ==
  /\ kms.enable /\ active
  /\ active' = FALSE /\ kms' = [kms EXCEPT !.underrun = FALSE]
  /\ Stopping
  /\ UNCHANGED <<pending, queued, snd_buffer_len, INT_SOUND_OVRUN, chan>>

kms_reset ==
  /\ kms' = [enable |-> FALSE, underrun |-> FALSE] /\ INT_SOUND_OVRUN' = FALSE
  /\ active' = FALSE

(* KMS_Ctrl_TX_Write *)
DisableKms ==
  /\ kms.enable /\ kms_reset /\ Stopping
  /\ UNCHANGED <<pending, queued, snd_buffer_len, chan>>

EnableKms ==
  /\ ~kms.enable /\ kms' = [kms EXCEPT !.enable = TRUE]
  /\ UNCHANGED <<active, inited, pending, queued, snd_buffer_len, INT_SOUND_OVRUN, chan, laid,
                 heard, completed, stops>>

(* KMS_Ctrl_Snd_Write *)
AckUnderrun ==
  /\ kms.underrun /\ ~active
  /\ kms' = [kms EXCEPT !.underrun = FALSE] /\ INT_SOUND_OVRUN' = FALSE
  /\ UNCHANGED <<active, inited, pending, queued, snd_buffer_len, chan, laid, heard,
                 completed, stops>>

(* DMA_CSR_Write *)
Channel(d) ==
  /\ chan' = d
  /\ UNCHANGED <<active, inited, pending, queued, snd_buffer_len, kms, INT_SOUND_OVRUN, heard,
                 completed, stops>>

LayOut(n) == laid + n <= MaxSound /\ laid' = laid + n

StartDma(n) ==
  /\ ~chan.enable /\ LayOut(n)
  /\ Channel([NoDma EXCEPT !.enable = TRUE, !.base = laid, !.next = laid, !.limit = laid + n])

Chain(n) ==
  /\ chan.enable /\ ~chan.supdate /\ LayOut(n)
  /\ Channel([chan EXCEPT !.supdate = TRUE, !.complete = FALSE, !.stop = laid + n])

Acknowledge ==
  /\ chan.complete /\ Channel([chan EXCEPT !.complete = FALSE])
  /\ UNCHANGED laid

(* The guest gives up what it has laid out. *)
ResetDma ==
  /\ chan # NoDma /\ chan' = NoDma
  /\ Stopping
  /\ UNCHANGED <<active, pending, queued, snd_buffer_len, kms, INT_SOUND_OVRUN>>

(* A reset of the machine: DMA_Reset, KMS_Reset, Sound_Reset and, if it is *)
(* a cold one, CycInt_Reset.                                               *)
ResetSound ==
  /\ chan' = NoDma /\ kms_reset /\ snd_buffer_len' = 0
  /\ pending' \in {pending, FALSE}
  /\ Stopping /\ UNCHANGED queued

(* A pause of the emulation closes the host's device and its end opens one *)
(* if sound is enabled now.                                                *)
Sound_Pause ==
  /\ stops < MaxStops /\ stops' = stops + 1
  /\ inited' \in (IF Settings THEN BOOLEAN ELSE {inited}) /\ queued' = {}
  /\ snd_buffer_len' = IF inited' = inited THEN snd_buffer_len ELSE 0    \* Sound_Reset
  /\ UNCHANGED <<active, pending, kms, INT_SOUND_OVRUN, chan, laid, heard, completed>>

Guest ==
  \/ StartOutput \/ StopOutput \/ DisableKms \/ EnableKms \/ AckUnderrun
  \/ (\E n \in Lengths : StartDma(n) \/ Chain(n)) \/ Acknowledge \/ ResetDma

SoundNext ==
  \/ SND_Out_Handler \/ OutputEnds \/ HostPlays
  \/ Guest \/ ResetSound \/ Sound_Pause

(* Events come and the host plays; nobody makes the guest do anything. *)
SoundFairness == WF_sndVars(SND_Out_Handler) /\ WF_sndVars(HostPlays)

SoundSpec == SoundInit /\ [][SoundNext]_sndVars /\ SoundFairness

-----------------------------------------------------------------------------
(* Properties. *)

(* No word is played twice or out of its turn, whatever is stopped,        *)
(* started and reset in between, and a buffer is reported complete only    *)
(* when the host has nothing of it to play but what its own buffer holds   *)
(* (snd.c:461, kms.c:239).                                                 *)
PlayedOnce ==
  /\ \A i, j \in DOMAIN heard : i < j => heard[i] < heard[j]
  /\ completed \subseteq {heard[i] : i \in DOMAIN heard} \ queued

(* While the output goes on the guest is told of a buffer's completion,    *)
(* however the pieces divide it and whatever is chained behind it, unless  *)
(* the channel has stopped (kms.c:242).                                    *)
Playing == active /\ chan.enable

BufferCompletes == Playing ~> (chan.complete \/ ~Playing)
=============================================================================
