----------------------------- MODULE MCDevices ------------------------------
(***************************************************************************)
(* The devices that work with somebody outside the emulation thread, in    *)
(* three scenarios of one run; "scenario" never changes.                   *)
(*   "pipe"   SndFifo with 4 input frames for every 5 output frames, a     *)
(*            staging buffer that a long block overflows, and a pipe of a  *)
(*            few frames.                                                  *)
(*   "sound"  Sound, which feeds that pipe and the host's audio device.    *)
(*   "board"  Dimension with two writes to CSR0, a pause and two boards.   *)
(***************************************************************************)
EXTENDS SndFifo, Sound, Dimension

VARIABLE scenario

CsrValues == {{"IMASK", "INT"}, {"RESET", "VBL_IMASK"}}

(* The scenarios that do not use a device leave it as one initial state. *)
MCInit ==
  /\ scenario \in {"pipe", "sound", "board"}
  /\ Init /\ SoundInit /\ BoardInit
  /\ fd \/ scenario = "pipe"
  /\ inited \/ scenario = "sound"

MCNext ==
  /\ \/ scenario = "pipe" /\ Next /\ UNCHANGED <<sndVars, boardVars>>
     \/ scenario = "sound" /\ SoundNext /\ UNCHANGED <<vars, boardVars>>
     \/ scenario = "board" /\ BoardNext /\ UNCHANGED <<vars, sndVars>>
  /\ UNCHANGED scenario

InBoard(A) == scenario = "board" /\ A

MCSpec ==
  /\ MCInit /\ [][MCNext]_<<vars, sndVars, boardVars, scenario>>
  /\ SoundFairness
  /\ WF_boardVars(InBoard(I860)) /\ WF_boardVars(InBoard(M68k)) /\ WF_boardVars(InBoard(MainStep))

-----------------------------------------------------------------------------
(* The properties of Dimension that hold where the board runs. *)

(* The pin follows CSR0 in the end (nd_devs.cpp:209).                      *)
BoardIntCatchesUp == scenario = "board" => IntCatchesUp

(* Removing a board ends (i860.cpp:552).                                   *)
BoardRemoved == scenario = "board" => RemoveCompletes
=============================================================================
