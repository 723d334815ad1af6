----------------------------- MODULE Dimension ------------------------------
(***************************************************************************)
(* One NeXTdimension board of src/src/dimension with its i860 on a thread  *)
(* of its own.  The guest's two processors share the memory controller's   *)
(* CSR0 without a lock; everything else reaches the i860's thread as a     *)
(* message: a bit of m_port, set by compare-and-swap and taken with all    *)
(* the others at once.  The main thread halts the board while the machine  *)
(* is paused and replaces it in a cold reset.                              *)
(*                                                                         *)
(* Abstractions: CSR0 is the set of its bits; of the four interrupt        *)
(* sources the i860's own and the display's blank stand for all (BE and    *)
(* video blank are alike); 16 cycles of the i860 are some writes to CSR0,  *)
(* and whether i860cycles lets it run them is a choice; the debugger is    *)
(* not entered, and the wait for the emulation thread to pause does not    *)
(* time out.  Loads and stores of CSR0 are steps.                          *)
(***************************************************************************)
EXTENDS Integers, FiniteSets

CONSTANTS
  Values,           \* what the guest writes to CSR0
  MaxWrites,        \* bound: writes of the guest to CSR0
  MaxPauses,        \* bound: pauses of the emulation
  MaxLives          \* bound: boards made one after the other

Bits == {"RESET", "IMASK", "INT", "VBL_IMASK", "VBL_INT", "VBLANK"}

ASSUME DimensionAssumption ==
  /\ Values \subseteq SUBSET Bits
  /\ {MaxWrites, MaxPauses, MaxLives} \subseteq Nat

Msgs == {"RESET", "KILL", "RAISE", "LOWER", "BLANK"}
Threads == {"m68k", "i860", "main"}

VARIABLES
  m_port,                \* the messages waiting
  csr0,
  display_vbl, bBlankToggle,
  m_halt,
  intr,                  \* the i860's INT pin (EPSR.INT)
  wasReset,              \* has this i860 been reset?
  taken,                 \* the messages the i860's thread is handling
  where,                    \* where each thread is
  msg, old, then,        \* send_msg: the message, the port as read, what follows
  reg,                   \* CSR0 as a thread has loaded it
  halted,                \* the machine is paused
  sent,                  \* history: the messages sent and not yet handled
  count                  \* how often the bounded events have happened

port  == <<m_port, msg, old, then, sent>>
i860  == <<m_halt, intr, wasReset>>
video == <<display_vbl, bBlankToggle>>
mc    == <<csr0, reg>>
boardVars == <<port, mc, video, i860, taken, where, halted, count>>

(* MC::check_interrupt: some source is pending and enabled. *)
Level(c) == {"INT", "IMASK"} \subseteq c \/ {"VBL_INT", "VBL_IMASK"} \subseteq c

Is(t, place) == where[t] = place
Goto(t, place) == where' = [where EXCEPT ![t] = place]
Count(event) == count' = [count EXCEPT ![event] = @ + 1]

(* nextbus_init at start-up: the main thread makes the board. *)
BoardInit ==
  /\ m_port = {} /\ csr0 = {} /\ sent = {} /\ taken = {}
  /\ display_vbl = FALSE /\ bBlankToggle = FALSE
  /\ m_halt = TRUE /\ intr = FALSE /\ wasReset = FALSE
  /\ where = [t \in Threads |-> CASE t = "m68k" -> "idle" [] t = "i860" -> "dead"
                               [] OTHER -> "construct"]
  /\ msg = [t \in Threads |-> "LOWER"] /\ old = [t \in Threads |-> {}]
  /\ then = [t \in Threads |-> "idle"] /\ reg = [t \in Threads |-> {}]
  /\ halted = TRUE
  /\ count = [writes |-> 0, pauses |-> 0, lives |-> 1]

-----------------------------------------------------------------------------
(* NextDimension::send_msg. *)

Send(t, m, next) ==
  /\ msg' = [msg EXCEPT ![t] = m] /\ then' = [then EXCEPT ![t] = next]
  /\ Goto(t, "load")

PortLoad(t) ==
  /\ Is(t, "load") /\ Goto(t, "cas")
  /\ old' = [old EXCEPT ![t] = m_port]
  /\ UNCHANGED <<m_port, msg, then, sent, mc, video, i860, taken, halted, count>>

(* Raising and lowering the interrupt cancel each other. *)
Merged(p, m) ==
  (p \ (CASE m = "LOWER" -> {"RAISE"} [] m = "RAISE" -> {"LOWER"} [] OTHER -> {})) \cup {m}

(* The call returns, and its locals are forgotten. *)
Post(t) ==
  /\ m_port' = Merged(old[t], msg[t])
  /\ sent' = sent \cup {msg[t]}
  /\ msg' = [msg EXCEPT ![t] = "LOWER"] /\ then' = [then EXCEPT ![t] = "idle"]
  /\ Goto(t, then[t])

Reread(t) == Goto(t, "load") /\ UNCHANGED <<m_port, sent, msg, then>>

(* Mutant: the port is written without comparing. *)
CasBlind(t) ==
  /\ Is(t, "cas") /\ Post(t) /\ old' = [old EXCEPT ![t] = {}]
  /\ UNCHANGED <<mc, video, i860, taken, halted, count>>

Cas(t) ==
  /\ Is(t, "cas") /\ old' = [old EXCEPT ![t] = {}]
  /\ IF m_port = old[t] THEN Post(t) ELSE Reread(t)
  /\ UNCHANGED <<mc, video, i860, taken, halted, count>>

-----------------------------------------------------------------------------
(* MC::write to CSR0 by either processor.  The i860 goes on where it was:  *)
(* with the messages it had taken, or with its burst.                      *)

Continue(t) == IF t = "m68k" THEN "idle" ELSE IF taken # {} THEN "handle" ELSE "burst"

Running(t) == IF t = "m68k" THEN Is(t, "idle") /\ ~halted ELSE Is(t, "burst")

WriteCsr0(t, v) ==
  /\ Running(t)
  /\ count.writes < MaxWrites /\ Count("writes")
  /\ csr0' = v
  /\ IF "RESET" \in v THEN Send(t, "RESET", "clear")
     ELSE Goto(t, "check") /\ UNCHANGED <<msg, then>>
  /\ UNCHANGED <<m_port, old, sent, reg, video, i860, taken, halted>>

Load(t, place, next) ==
  /\ Is(t, place) /\ Goto(t, next)
  /\ reg' = [reg EXCEPT ![t] = csr0]
  /\ UNCHANGED <<port, csr0, video, i860, taken, halted, count>>

Store(t, place, value, next) ==
  /\ Is(t, place) /\ Goto(t, next)
  /\ csr0' = value /\ reg' = [reg EXCEPT ![t] = {}]
  /\ UNCHANGED <<port, video, i860, taken, halted, count>>

ClearReset(t) ==
  \/ Load(t, "clear", "clear2")
  \/ Store(t, "clear2", reg[t] \ {"RESET"}, "check")

CheckInterrupt(t) ==
  /\ Is(t, "check")
  /\ Send(t, IF Level(csr0) THEN "RAISE" ELSE "LOWER", Continue(t))
  /\ UNCHANGED <<m_port, old, sent, mc, video, i860, taken, halted, count>>

-----------------------------------------------------------------------------
(* The i860's thread, i860_cpu_device::run.                                *)

(* NextDimension::handle_msgs *)
Take ==
  /\ Is("i860", "take")
  /\ taken' = m_port /\ m_port' = {}
  /\ Goto("i860", IF "BLANK" \in m_port THEN "blank" ELSE "handle")
  /\ UNCHANGED <<msg, old, then, sent, mc, video, i860, halted, count>>

BlankArgument ==
  /\ Is("i860", "blank") /\ Goto("i860", IF display_vbl THEN "set" ELSE "unset")
  /\ UNCHANGED <<port, mc, video, i860, taken, halted, count>>

(* NextDimension::set_blank_state *)
SetBlankState(next) ==
  \/ Load("i860", "set", "set2")
  \/ Store("i860", "set2", reg["i860"] \cup {"VBL_INT", "VBLANK"}, next)
  \/ Load("i860", "unset", "unset2")
  \/ Store("i860", "unset2", reg["i860"] \ {"VBLANK"}, next)

(* Mutant: the blank's interrupt is left for the next write to find. *)
BlankQuiet == BlankArgument \/ SetBlankState("handle")

Blank == BlankArgument \/ SetBlankState("check")

(* i860_cpu_device::reset, raise_intr and lower_intr *)
Act ==
  IF "RESET" \in taken
  THEN intr' = FALSE /\ m_halt' = FALSE /\ wasReset' = TRUE
  ELSE /\ intr' = (IF "RAISE" \in taken THEN TRUE ELSE IF "LOWER" \in taken THEN FALSE ELSE intr)
       /\ UNCHANGED <<m_halt, wasReset>>

Handled ==
  /\ taken' = {} /\ sent' = sent \ (taken \ m_port)
  /\ UNCHANGED <<m_port, msg, old, then, mc, video, halted, count>>

(* Mutant: the thread ends only when nothing else is to be done. *)
HandleKillLast ==
  /\ Is("i860", "handle") /\ Handled
  /\ IF taken = {"KILL"} THEN Goto("i860", "dead") /\ UNCHANGED <<intr, m_halt, wasReset>>
                         ELSE Goto("i860", "run") /\ Act

(* i860_cpu_device::handle_msgs *)
Handle ==
  /\ Is("i860", "handle") /\ Handled
  /\ IF "KILL" \in taken THEN Goto("i860", "dead") /\ UNCHANGED <<intr, m_halt, wasReset>>
                          ELSE Goto("i860", "run") /\ Act

Run ==
  /\ Is("i860", "run")
  /\ \/ ~m_halt /\ Goto("i860", "burst")       \* i860cycles > 0
     \/ Goto("i860", "take")
  /\ UNCHANGED <<port, mc, video, i860, taken, halted, count>>

BurstEnd ==
  /\ Is("i860", "burst") /\ Goto("i860", "take")
  /\ UNCHANGED <<port, mc, video, i860, taken, halted, count>>

I860 ==
  \/ PortLoad("i860") \/ Cas("i860") \/ ClearReset("i860") \/ CheckInterrupt("i860")
  \/ Take \/ Blank \/ Handle \/ Run \/ BurstEnd

-----------------------------------------------------------------------------
(* The emulation thread: writes to CSR0 and ND_VBL_Handler. *)

Vbl ==
  /\ Is("m68k", "idle") /\ ~halted
  /\ display_vbl' = bBlankToggle
  /\ bBlankToggle' = ~bBlankToggle
  /\ Send("m68k", "BLANK", "idle")
  /\ UNCHANGED <<m_port, old, sent, mc, i860, taken, halted, count>>

M68k ==
  \/ PortLoad("m68k") \/ Cas("m68k") \/ ClearReset("m68k") \/ CheckInterrupt("m68k")
  \/ Vbl

-----------------------------------------------------------------------------
(* The main thread. *)

(* What the constructor sets; the i860's registers are not. *)
NewBoard ==
  /\ Is("main", "construct")
  /\ m_port' = {} /\ csr0' = {} /\ sent' = {} /\ taken' = {}
  /\ display_vbl' = FALSE /\ m_halt' = TRUE /\ wasReset' = FALSE
  /\ intr' \in BOOLEAN
  /\ UNCHANGED <<old, reg, bBlankToggle, halted, count>>

(* Mutant: the thread starts without a reset to do. *)
ConstructUnreset == NewBoard /\ Goto("main", "create") /\ UNCHANGED <<msg, then>>

(* The constructor, up to the thread: i860_cpu_device::init. *)
Construct == NewBoard /\ Send("main", "RESET", "create")

Create ==
  /\ Is("main", "create")
  /\ where' = [where EXCEPT !["main"] = "idle", !["i860"] = "take"]
  /\ UNCHANGED <<port, mc, video, i860, taken, halted, count>>

(* Main_PauseEmulation, with the emulation thread at rest. *)
PauseBoard ==
  /\ Is("main", "idle") /\ Is("m68k", "idle") /\ ~halted
  /\ count.pauses < MaxPauses /\ Count("pauses")
  /\ halted' = TRUE /\ m_halt' = TRUE
  /\ UNCHANGED <<port, mc, video, intr, wasReset, taken, where>>

ResumeBoard ==
  /\ Is("main", "idle") /\ halted
  /\ halted' = FALSE /\ m_halt' = FALSE
  /\ UNCHANGED <<port, mc, video, intr, wasReset, taken, where, count>>

(* A cold reset deletes the board: i860_cpu_device::uninit. *)
Remove ==
  /\ Is("main", "idle") /\ halted
  /\ m_halt' = TRUE /\ Send("main", "KILL", "join")
  /\ UNCHANGED <<m_port, old, sent, mc, video, intr, wasReset, taken, halted, count>>

JoinBoard ==
  /\ Is("main", "join") /\ Is("i860", "dead")
  /\ \/ count.lives < MaxLives /\ Count("lives") /\ Goto("main", "construct")
     \/ Goto("main", "gone") /\ UNCHANGED count        \* the new configuration has no board
  /\ UNCHANGED <<port, mc, video, i860, taken, halted>>

MainStep == PortLoad("main") \/ Cas("main") \/ Construct \/ Create \/ JoinBoard

BoardNext ==
  \/ I860 \/ M68k \/ MainStep
  \/ PauseBoard \/ ResumeBoard \/ Remove
  \/ \E t \in {"m68k", "i860"}, v \in Values : WriteCsr0(t, v)

(* Each thread runs, and the blank is an event that recurs. *)
BoardFairness == WF_boardVars(I860) /\ WF_boardVars(M68k) /\ WF_boardVars(MainStep)

BoardSpec == BoardInit /\ [][BoardNext]_boardVars /\ BoardFairness

-----------------------------------------------------------------------------
(* Properties. *)

(* The i860 executes nothing before it has been reset: its program counter *)
(* is not initialised, and a pause that ends lets it run whoever halted it *)
(* (i860.cpp:543, i860dbg.cpp:366).                                        *)
NeverRunsUnreset == Is("i860", "burst") => wasReset

(* A reset, a blank and the end of the thread are not lost by another      *)
(* thread that posts at the same time: they wait in the port or are being  *)
(* handled (dimension.cpp:184).                                            *)
NoMessageLost == sent \ {"RAISE", "LOWER"} \subseteq m_port \cup taken

(* While the machine runs, the i860's interrupt pin follows what CSR0 says *)
(* once the guest stops writing to it, whatever two threads did to the     *)
(* register before and whatever a reset swallowed (nd_devs.cpp:209).       *)
IntCatchesUp == <>[]~halted => <>[](intr = Level(csr0))

(* Removing a board ends: its thread sees the message, whatever else is in *)
(* the port (i860.cpp:552).                                                *)
RemoveCompletes == Is("main", "join") ~> ~Is("main", "join")
=============================================================================
