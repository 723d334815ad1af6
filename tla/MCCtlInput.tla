----------------------------- MODULE MCCtlInput -----------------------------
(***************************************************************************)
(* What the control socket does to the guest's input, in two scenarios of  *)
(* one run; "scenario" never changes.                                      *)
(*   "hold"     CtlSock: two clients, one after the other, hold a button,  *)
(*              a key and a modifier.                                      *)
(*   "pointer"  the drain alone (CtlInput), its client waiting for acks.   *)
(*              The screen is a few positions wide, a slam carries less    *)
(*              than its width, and the settle window lasts for all the    *)
(*              slams and steps there can be.                              *)
(***************************************************************************)
EXTENDS MCCtlSock

VARIABLE scenario

Cmd(verb, a, b) == Command(verb, a, b, 0, 0)

PointerCommands ==
  {Cmd("MOVEA", x, 0) : x \in {0, 4}} \cup
  {Cmd("BTN", 1, 1), Cmd("BTN", 1, 0), Cmd("BTN", 3, 1), Cmd("NOP", 0, 0)}

(* Where the guest's pointer is does not matter to "hold".                 *)
MCInit ==
  /\ scenario \in {"hold", "pointer"} /\ Init
  /\ guest.pos = 0 \/ scenario = "pointer"

(* Only the automatic route looks at what the guest does with its tablet. *)
MCNext ==
  /\ \/ scenario = "hold" /\ Next
     \/ scenario = "pointer" /\ InputNext /\ Outside
  /\ PTR_MODE # "auto" => UNCHANGED tablet
  /\ UNCHANGED scenario

(* The fairness of CtlSock. *)
InHold(A) == scenario = "hold" /\ A

MCSpec ==
  /\ MCInit /\ [][MCNext]_<<vars, scenario>>
  /\ WF_vars(InHold(Reader)) /\ WF_vars(InHold(Emulation)) /\ WF_vars(InHold(Stopping))
  /\ WF_vars(InHold(GuestRead /\ Outside)) /\ SF_vars(InHold(Tick /\ Outside))

-----------------------------------------------------------------------------
(* The properties of CtlInput and CtlSock, each in its scenario.           *)

(* Once the last client has gone the guest holds no button and no modifier *)
(* but one whose release did not fit into the ring (ctlsock.c:588-596).    *)
HeldReleased == scenario = "hold" => ButtonsReleased

(* No report overruns another one in the register (ctlsock.c:854-856).     *)
HeldNoOverrun == scenario = "hold" => NoOverrun

(* CtlSock_UnInit ends from every state (ctlsock.c:1027-1049).             *)
SocketEnds == scenario = "hold" => ShutdownCompletes

(* A click lands where the last MOVEA put the guest's pointer              *)
(* (ctlsock.c:640-666).                                                    *)
PointerClicks == scenario = "pointer" => ClickOnTarget

(* What ctl_cur_x believes is where that pointer is (ctlsock.c:75-77).     *)
PointerAgrees == scenario = "pointer" => DeadReckoning
=============================================================================
