------------------------------ MODULE CtlSock -------------------------------
(***************************************************************************)
(* The control socket of src/src/ctlsock.c as a whole: clients, the reader *)
(* thread that accepts one connection at a time and queues its verbs, the  *)
(* emulation thread that applies and acknowledges them (CtlInput), and the *)
(* main thread that shuts the socket down.                                 *)
(*                                                                         *)
(* Only the ring is shared under a lock.  ctl_conn_fd is an atomic integer *)
(* read by the other two threads: what they do with the descriptor comes   *)
(* later, so each read and each use is a step of its own.  The kernel may  *)
(* give a closed descriptor's number to the next connection.               *)
(***************************************************************************)
EXTENDS CtlInput

CONSTANTS
  Clients,          \* 1..N, the connections in the order they are made
  Verbs,            \* the verbs a client may send; "BAD" does not parse
  MaxSeq,           \* bound: verbs per client, numbered from 1 in each
  FDs               \* descriptor numbers the kernel may hand out

ASSUME SockAssumption ==
  /\ IsFiniteSet(Clients) /\ Clients = 1 .. Cardinality(Clients)
  /\ MaxSeq \in Nat \ {0} /\ FDs \subseteq Nat
  /\ \A v \in Verbs : v.verb = "BTN" => v.a \in Buttons

VARIABLES
  conn,             \* the client's end: "new", "open" or "closed"
  sent, wire,       \* verbs a client has sent; those not yet received
  served,           \* connections accepted so far
  owner,            \* owner[fd]: the client behind a descriptor, 0 if closed
  connFd,           \* ctl_conn_fd
  rpc, rfd,         \* the reader thread: its place, its descriptor
  reply, replyFd,   \* ctl_reply: the command to acknowledge, and to whom
  upc, ufd,         \* CtlSock_UnInit: its place, the descriptor it read
  quit, listening,  \* ctl_quit, ctl_listen_fd
  applied, acks, errs,  \* history: <<client, seq>> applied, OKs and ERRs received
  dropped           \* history: the releases the ring had no room for, and has had none since

clientVars == <<sent, wire>>
readerVars == <<served, owner, connFd, rpc, rfd>>
replyVars  == <<reply, replyFd>>
quitVars   == <<upc, ufd, quit, listening>>
history    == <<applied, acks, errs, dropped>>
vars == <<ivars, conn, clientVars, readerVars, replyVars, quitVars, history>>

NoReply == [seq |-> 0]
Unread == -2            \* ctl_conn_fd not read yet

SockInit ==
  /\ conn = [c \in Clients |-> "new"]
  /\ sent = [c \in Clients |-> 0]
  /\ wire = [c \in Clients |-> <<>>]
  /\ served = 0 /\ owner = [f \in FDs |-> 0]
  /\ connFd = -1 /\ rpc = "loop" /\ rfd = -1
  /\ reply = NoReply /\ replyFd = Unread
  /\ upc = "run" /\ ufd = -1 /\ quit = FALSE /\ listening = TRUE
  /\ applied = {} /\ acks = {} /\ errs = {} /\ dropped = {}

Init == InputInit /\ SockInit

Command(verb, a, b, s, c) == [verb |-> verb, a |-> a, b |-> b, seq |-> s, from |-> c]

-----------------------------------------------------------------------------
(* Clients: one connection after the other, each sending without waiting.  *)

Connect(c) ==
  /\ conn[c] = "new" /\ listening
  /\ \A d \in Clients : d < c => conn[d] = "closed"
  /\ conn' = [conn EXCEPT ![c] = "open"]
  /\ UNCHANGED <<ivars, clientVars, readerVars, replyVars, quitVars, history>>

SendVerb(c, v) ==
  /\ conn[c] = "open" /\ sent[c] < MaxSeq
  /\ sent' = [sent EXCEPT ![c] = @ + 1]
  /\ wire' = [wire EXCEPT ![c] = Append(@, Command(v.verb, v.a, v.b, sent[c] + 1, c))]
  /\ UNCHANGED <<ivars, conn, readerVars, replyVars, quitVars, history>>

(* The peer goes away; what it sent can still be received. *)
Disconnect(c) ==
  /\ conn[c] = "open"
  /\ conn' = [conn EXCEPT ![c] = "closed"]
  /\ UNCHANGED <<ivars, clientVars, readerVars, replyVars, quitVars, history>>

Client(c) == Connect(c) \/ Disconnect(c) \/ \E v \in Verbs : SendVerb(c, v)

-----------------------------------------------------------------------------
(* The reader thread, ctl_thread_main.                                     *)

ReaderKeeps == UNCHANGED <<conn, sent, replyVars, quitVars, applied, acks>>

CheckQuit ==
  /\ rpc = "loop"
  /\ rpc' = IF quit THEN "done" ELSE "accept"
  /\ UNCHANGED <<ivars, wire, served, owner, connFd, rfd, errs, dropped>> /\ ReaderKeeps

Accept(f) ==
  /\ rpc = "accept" /\ listening
  /\ served + 1 \in Clients /\ conn[served + 1] # "new"
  /\ owner[f] = 0
  /\ served' = served + 1
  /\ owner' = [owner EXCEPT ![f] = served']
  /\ rfd' = f /\ rpc' = "accepted"
  /\ UNCHANGED <<ivars, wire, connFd, errs, dropped>> /\ ReaderKeeps

(* accept fails: the listener was closed by CtlSock_UnInit. *)
AcceptFails ==
  /\ rpc = "accept" /\ ~listening
  /\ rpc' = "done"
  /\ UNCHANGED <<ivars, wire, served, owner, connFd, rfd, errs, dropped>> /\ ReaderKeeps

Publish ==
  /\ rpc = "accepted"
  /\ connFd' = rfd /\ rpc' = "serve"
  /\ UNCHANGED <<ivars, wire, served, owner, rfd, errs, dropped>> /\ ReaderKeeps

(* One line: queued, or answered ERR if it does not parse or does not fit. *)
ReceiveLine ==
  LET c == owner[rfd]
      cmd == Head(wire[c])
  IN  /\ rpc = "serve" /\ wire[c] # <<>>
      /\ wire' = [wire EXCEPT ![c] = Tail(@)]
      /\ IF cmd.verb # "BAD" /\ HasRoom
         THEN Push(cmd) /\ UNCHANGED errs
         ELSE /\ errs' = errs \cup {<<c, cmd.seq>>}
              /\ UNCHANGED ivars
      /\ UNCHANGED <<readerVars, dropped>> /\ ReaderKeeps

PeerGone ==
  /\ rpc = "serve" /\ wire[owner[rfd]] = <<>> /\ conn[owner[rfd]] = "closed"
  /\ connFd' = -1 /\ rpc' = "close"
  /\ UNCHANGED <<ivars, wire, served, owner, rfd, errs, dropped>> /\ ReaderKeeps

CloseConn ==
  /\ rpc = "close"
  /\ owner' = [owner EXCEPT ![rfd] = 0]
  /\ rfd' = -1 /\ rpc' = "release1"
  /\ UNCHANGED <<ivars, wire, served, connFd, errs, dropped>> /\ ReaderKeeps

(* A command of the reader's own; nobody looks at what ctl_push returns.   *)
ReleaseOf(verb, button) == Command(verb, button, 0, 0, 0)

PushOrDrop(cmd) ==
  IF HasRoom THEN Push(cmd) /\ dropped' = dropped \ {cmd}
             ELSE UNCHANGED ivars /\ dropped' = dropped \cup {cmd}

ReleaseHeld(here, verb, button, then) ==
  /\ rpc = here
  /\ PushOrDrop(ReleaseOf(verb, button))
  /\ rpc' = then
  /\ UNCHANGED <<wire, served, owner, connFd, rfd, errs>> /\ ReaderKeeps

(* Mutant: only the keyboard is released. *)
ReleaseKeyboard == ReleaseHeld("release1", "RELEASE", 0, "loop")

ReleaseAll ==
  \/ ReleaseHeld("release1", "BTN", 1, "release2")
  \/ ReleaseHeld("release2", "BTN", 2, "release3")
  \/ ReleaseHeld("release3", "RELEASE", 0, "loop")

Reader ==
  \/ CheckQuit \/ AcceptFails \/ Publish \/ ReceiveLine \/ PeerGone \/ CloseConn
  \/ ReleaseAll
  \/ \E f \in FDs : Accept(f)

-----------------------------------------------------------------------------
(* The emulation thread: CtlInput's drain with ctl_reply after each apply. *)

DrainKeeps == UNCHANGED <<conn, clientVars, readerVars, quitVars, errs, dropped>>

(* Once ctl_thread is gone a pass ends before it begins. *)
PassStep ==
  /\ reply = NoReply
  /\ (DrainBegin /\ upc # "stopped") \/ DrainEnd
  /\ UNCHANGED <<replyVars, applied, acks>> /\ DrainKeeps

ApplyHead ==
  /\ reply = NoReply
  /\ DrainApply
  /\ IF Head(q).seq = 0
     THEN UNCHANGED <<reply, applied>>
     ELSE /\ reply' = Head(q)
          /\ applied' = applied \cup {<<Head(q).from, Head(q).seq>>}
  /\ UNCHANGED <<replyFd, acks>> /\ DrainKeeps

ReadConnFd ==
  /\ reply # NoReply /\ replyFd = Unread
  /\ replyFd' = connFd
  /\ UNCHANGED <<ivars, reply, applied, acks>> /\ DrainKeeps

(* The OK goes to whatever connection the number now stands for. *)
SendAck ==
  LET to == IF replyFd = -1 THEN 0 ELSE owner[replyFd]
  IN  /\ reply # NoReply /\ replyFd # Unread
      /\ acks' = IF to # 0 /\ conn[to] = "open"
                 THEN acks \cup {<<to, reply.seq>>} ELSE acks
      /\ reply' = NoReply /\ replyFd' = Unread
      /\ UNCHANGED <<ivars, applied>> /\ DrainKeeps

Emulation == PassStep \/ ApplyHead \/ ReadConnFd \/ SendAck

-----------------------------------------------------------------------------
(* The main thread, CtlSock_UnInit.                                        *)

QuitKeeps == UNCHANGED <<ivars, clientVars, readerVars, replyVars, history>>

SetQuit ==
  /\ upc = "run"
  /\ quit' = TRUE /\ upc' = "read"
  /\ UNCHANGED <<conn, ufd, listening>> /\ QuitKeeps

QuitReadsFd ==
  /\ upc = "read"
  /\ ufd' = connFd /\ upc' = "shut"
  /\ UNCHANGED <<conn, quit, listening>> /\ QuitKeeps

(* shutdown ends the connection in both directions. *)
ShutConn ==
  /\ upc = "shut"
  /\ conn' = IF ufd >= 0 /\ owner[ufd] # 0
             THEN [conn EXCEPT ![owner[ufd]] = "closed"] ELSE conn
  /\ upc' = "unlisten"
  /\ UNCHANGED <<ufd, quit, listening>> /\ QuitKeeps

(* Mutant: nobody wakes a reader that waits for a connection. *)
ListenerStaysOpen ==
  /\ upc = "unlisten"
  /\ upc' = "join"
  /\ UNCHANGED <<conn, ufd, quit, listening>> /\ QuitKeeps

CloseListener ==
  /\ upc = "unlisten"
  /\ listening' = FALSE /\ upc' = "join"
  /\ UNCHANGED <<conn, ufd, quit>> /\ QuitKeeps

Join ==
  /\ upc = "join" /\ rpc = "done"
  /\ upc' = "stopped"
  /\ UNCHANGED <<conn, ufd, quit, listening>> /\ QuitKeeps

Stopping == QuitReadsFd \/ ShutConn \/ CloseListener \/ Join

-----------------------------------------------------------------------------
Outside == UNCHANGED <<conn, clientVars, readerVars, replyVars, quitVars, history>>

Environment == (GuestRead \/ GuestTablet \/ Tick) /\ Outside

Next ==
  \/ \E c \in Clients : Client(c)
  \/ Reader \/ Emulation \/ Environment
  \/ SetQuit \/ Stopping

Spec == Init /\ [][Next]_vars

(* Every thread of the emulator keeps running, the guest keeps reading and *)
(* the clock does not stop (SF as in CtlInput).  Nothing makes a client    *)
(* connect, send or leave, or the user quit.                               *)
Fairness ==
  /\ WF_vars(Reader) /\ WF_vars(Emulation) /\ WF_vars(Stopping)
  /\ WF_vars(GuestRead /\ Outside) /\ SF_vars(Tick /\ Outside)

FairSpec == Spec /\ Fairness

-----------------------------------------------------------------------------
(* Properties. *)

(* "ACKS PROVE THE EMULATOR, NOT THE SOCKET.  A verb is acknowledged by    *)
(* the EMULATION thread, after it has been applied" (ctlsock.c:43-45): an  *)
(* OK a client receives for its verb s says that its verb s was applied.   *)
AckMeansApplied == acks \subseteq applied

(* Every connection is gone, and everything queued has reached the guest.  *)
Quiet ==
  /\ rpc \in {"loop", "accept", "done"} /\ ~pass /\ q = <<>>
  /\ reply = NoReply /\ reg = Empty
  /\ \A c \in Clients : conn[c] # "open" /\ wire[c] = <<>>
  /\ \A c \in Clients : conn[c] = "closed" => c <= served

(* "peer went away: drop everything the guest is holding" (ctlsock.c:223): *)
(* whatever the clients press, when they leave and how full the ring is,   *)
(* the guest is left with no modifier and no button but one whose release  *)
(* did not fit into the ring; a button also if its route may change        *)
(* between press and release (ctlsock.c:588-596).                          *)
ButtonsReleased ==
  Quiet =>
    /\ guest.mods # {} => ReleaseOf("RELEASE", 0) \in dropped
    /\ PTR_MODE # "auto" =>
         \A b \in guest.mouse \cup guest.pen : ReleaseOf("BTN", b) \in dropped

(* The same without exception.                                             *)
EverythingReleased ==
  Quiet => guest.mods = {} /\ guest.mouse = {} /\ guest.pen = {}

(* A client that stays gets an answer, OK or ERR, to every verb, however   *)
(* long the floors hold it back (ctlsock.c:318-319, 880-883).              *)
Answered(c, s) == <<c, s>> \in acks \cup errs
EveryVerbAnswered ==
  \A c \in Clients, s \in 1 .. MaxSeq :
    sent[c] >= s ~> (Answered(c, s) \/ conn[c] = "closed" \/ quit)

(* Quitting ends, if the peers leave: the reader thread notices and is     *)
(* joined, wherever it is when CtlSock_UnInit starts (ctlsock.c:1027-1049).*)
PeersLeave == <>[](\A c \in Clients : conn[c] # "open")
ShutdownCompletes == PeersLeave => (quit ~> upc = "stopped")
=============================================================================
