------------------------------ MODULE GuiServer ------------------------------
(***************************************************************************)
(* WsServer: the I/O thread that serves the web pages and the one GUI      *)
(* session, and its two queues to and from the main loop.  What is left of *)
(* a session is dropped when it ends, except for the queues.               *)
(*                                                                         *)
(* A message is a command in one frame or in two; a frame arrives in two   *)
(* halves, in any number of reads.  The bodies of messages are the halves  *)
(* they are made of, so that a mixture would show.                         *)
(***************************************************************************)
EXTENDS Naturals, Sequences

CONSTANTS
  Guis,     \* GUI sessions: tabs of a browser, one after another or at once
  Free,     \* no connection
  Page,     \* a connection that asks for a file
  Slots,    \* kMaxPendingHttp
  Limit,    \* kSendQueueLimit
  Messages, \* commands a GUI sends
  Tls       \* the port is a TLS one

\* A GUI is neither of the others.
ASSUME GuiAssumption == Free \notin Guis /\ Page \notin Guis /\ Free # Page

VARIABLES
  tab,     \* [at, sent, answers] of each GUI; answers are the sessions asked
  slots,   \* pending_http_
  client,  \* client_
  wire,    \* halves of frames in the socket of the session
  inner,   \* those decrypted but not yet read
  buf,     \* ws_recv_buf_
  frag,    \* ws_frag_opcode_ and ws_frag_acc_
  recv,    \* recv_queue_
  send,    \* send_queue_
  handled  \* commands of each GUI the main loop has dispatched

guivars == <<tab, slots, client, wire, inner, buf, frag, recv, send, handled>>

NoFragment == [on |-> FALSE, acc |-> <<>>]
Halves(op, fin, g, n, k) == [h \in 1..2 |-> [op |-> op, fin |-> fin, part |-> <<g, n, k, h>>]]
InOneFrame(g, n) == Halves("text", TRUE, g, n, 1)
InTwoFrames(g, n) ==
  Halves("text", FALSE, g, n, 1) \o Halves("ping", TRUE, g, 0, 1) \o Halves("cont", TRUE, g, n, 2)
Bodies2(g, n) == {[i \in 1..2 * k |-> <<g, n, (i + 1) \div 2, 2 - (i % 2)>>] : k \in 1..2}

-----------------------------------------------------------------------------
(* Connections *)

\* The I/O thread does nothing else while it goes through what it has read.
Parsed == Len(buf) < 2

\* accept: the first free slot, or closed at once.
Accept(by) ==
  /\ Parsed
  /\ by \in Guis => tab[by].at = "away"
  /\ \E i \in 1..Slots :
       /\ slots[i] = Free /\ \A j \in 1..(i - 1) : slots[j] # Free
       /\ slots' = [slots EXCEPT ![i] = by]
  /\ tab' = IF by \in Guis THEN [tab EXCEPT ![by].at = "asking"] ELSE tab
  /\ UNCHANGED <<client, wire, inner, buf, frag, recv, send, handled>>

\* What is left of a session when it ends or the next begins; queued commands
\* and answers are not dropped.
LeftoverKept(rest) == buf' = rest /\ frag' = frag
Leftover(rest) == buf' = <<>> /\ frag' = NoFragment

\* The request is complete: a file, or a session if there is none yet.
Serve(i) ==
  /\ Parsed /\ slots[i] # Free
  /\ LET g == slots[i] IN
     IF g # Page /\ client = Free
     THEN /\ client' = g /\ tab' = [tab EXCEPT ![g].at = "open"]
          /\ Leftover(buf)
     ELSE /\ tab' = IF g = Page THEN tab ELSE [tab EXCEPT ![g].at = "away"]
          /\ UNCHANGED <<client, buf, frag>>
  /\ slots' = [slots EXCEPT ![i] = Free]
  /\ UNCHANGED <<wire, inner, recv, send, handled>>

\* The browser gives a connection up before it is served.
GiveUpSlot(i) ==
  /\ Parsed /\ slots[i] # Free
  /\ tab' = IF slots[i] = Page THEN tab ELSE [tab EXCEPT ![slots[i]].at = "gone"]
  /\ slots' = [slots EXCEPT ![i] = Free]
  /\ UNCHANGED <<client, wire, inner, buf, frag, recv, send, handled>>

-----------------------------------------------------------------------------
(* The session *)

\* The GUI sends a command, or says that it leaves.
SendCommand(g) ==
  /\ client = g /\ tab[g].at = "open" /\ tab[g].sent < Messages
  /\ tab' = [tab EXCEPT ![g].sent = @ + 1]
  /\ \E m \in {InOneFrame(g, tab[g].sent + 1), InTwoFrames(g, tab[g].sent + 1)} : wire' = wire \o m
  /\ UNCHANGED <<slots, client, inner, buf, frag, recv, send, handled>>
Leave(g) ==
  /\ client = g /\ tab[g].at = "open"
  /\ tab' = [tab EXCEPT ![g].at = "gone"]
  /\ wire' = wire \o Halves("close", TRUE, g, 0, 1)
  /\ UNCHANGED <<slots, client, inner, buf, frag, recv, send, handled>>

\* What is left of a session; the queued commands and answers stay.
Over == client' = Free /\ wire' = <<>> /\ inner' = <<>> /\ Leftover(buf)

\* One frame of parse_ws_frames_; the queue is locked for each.
FrameLosesAcc(f, body) ==
  CASE f.op = "text" /\ f.fin -> recv' = Append(recv, body) /\ UNCHANGED frag
    [] OTHER -> UNCHANGED <<recv, frag>>
Frame(f, body) ==
  CASE f.op = "text" /\ f.fin -> recv' = Append(recv, body) /\ UNCHANGED frag
    [] f.op = "text" /\ ~f.fin -> frag' = [on |-> TRUE, acc |-> body] /\ UNCHANGED recv
    [] f.op = "cont" /\ ~f.fin -> frag' = [frag EXCEPT !.acc = @ \o body] /\ UNCHANGED recv
    [] f.op = "cont" /\ f.fin ->
         /\ recv' = IF frag.on THEN Append(recv, frag.acc \o body) ELSE recv
         /\ frag' = NoFragment
    [] OTHER -> UNCHANGED <<recv, frag>>
Parse ==
  /\ ~Parsed
  /\ IF buf[1].op = "close" THEN Over /\ UNCHANGED recv
     ELSE /\ Frame(buf[1], <<buf[1].part, buf[2].part>>)
          /\ buf' = SubSeq(buf, 3, Len(buf)) /\ UNCHANGED <<client, wire, inner>>
  /\ UNCHANGED <<tab, slots, send, handled>>

\* One recv.  A TLS record is decrypted as a whole, and what a read leaves of
\* it is read next; but poll looks at the socket only.
Records ==
  IF inner # <<>> THEN {inner} ELSE {SubSeq(wire, 1, n) : n \in 1..Len(wire)}
Rest(s, n) == SubSeq(s, n + 1, Len(s))
Read ==
  /\ Parsed /\ client # Free /\ wire # <<>>
  /\ \E r \in Records : \E n \in IF Tls THEN 1..Len(r) ELSE {Len(r)} :
       /\ buf' = buf \o SubSeq(r, 1, n) /\ inner' = Rest(r, n)
       /\ wire' = IF inner # <<>> THEN wire ELSE Rest(wire, Len(r))
  /\ UNCHANGED <<tab, slots, client, frag, recv, send, handled>>

\* The connection breaks: what the socket held is lost.
Break ==
  /\ Parsed /\ client # Free
  /\ tab' = [tab EXCEPT ![client].at = "gone"]
  /\ Over
  /\ UNCHANGED <<slots, recv, send, handled>>

SendQueued ==
  /\ Parsed /\ client # Free /\ send # <<>> /\ send' = <<>>
  /\ tab' = [tab EXCEPT ![client].answers = @ \union {send[i][1][1] : i \in DOMAIN send}]
  /\ UNCHANGED <<slots, client, wire, inner, buf, frag, recv, handled>>

-----------------------------------------------------------------------------
(* The main loop *)

\* send_text, send_binary: the oldest is dropped when the queue is full.
Pushed(x) ==
  IF client = Free THEN send ELSE Append(IF Len(send) >= Limit THEN Tail(send) ELSE send, x)

\* pop_message and dispatch_command: each command has an answer.
Answer ==
  /\ recv # <<>>
  /\ handled' = [handled EXCEPT ![Head(recv)[1][1]] = Append(@, Head(recv))]
  /\ recv' = Tail(recv)
  /\ send' = Pushed(Head(recv))
  /\ UNCHANGED <<tab, slots, client, wire, inner, buf, frag>>

\* Events and binary frames compete with the answers for the queue.
Push ==
  /\ client # Free /\ Len(send) = Limit
  /\ send' = Tail(send)
  /\ UNCHANGED <<tab, slots, client, wire, inner, buf, frag, recv, handled>>

GuiInit ==
  /\ tab = [g \in Guis |-> [at |-> "away", sent |-> 0, answers |-> {}]]
  /\ slots = [i \in 1..Slots |-> Free]
  /\ client = Free /\ wire = <<>> /\ inner = <<>> /\ buf = <<>> /\ frag = NoFragment
  /\ recv = <<>> /\ send = <<>> /\ handled = [g \in Guis |-> <<>>]

GuiNext ==
  \/ \E by \in Guis \union {Page} : Accept(by)
  \/ \E i \in 1..Slots : Serve(i) \/ GiveUpSlot(i)
  \/ \E g \in Guis : SendCommand(g) \/ Leave(g)
  \/ Read \/ Parse \/ Break \/ SendQueued \/ Answer \/ Push

GuiSpec == GuiInit /\ [][GuiNext]_guivars

\* The I/O thread polls every 5 ms; the main loop drains on every pass.
GuiFairness == WF_guivars(Read \/ Parse) /\ WF_guivars(Answer)

-----------------------------------------------------------------------------
(* Properties *)

\* The main loop handles the commands of a session in the order they were sent,
\* each once and whole, in however many frames and reads they came and
\* whatever the session before left behind.
CommandsWhole ==
  \A g \in Guis : \A n \in DOMAIN handled[g] : n <= tab[g].sent /\ handled[g][n] \in Bodies2(g, n)

Behind == client # Free /\ Len(handled[client]) < tab[client].sent

\* The main loop does not stay behind the GUI: what was sent is handled sooner
\* or later, unless the session ends.
CommandsHandled == Behind ~> ~Behind

\* A GUI is only given answers to its own commands.  (A new session finds the
\* answers that the last one did not wait for.)
OwnAnswers == \A g \in Guis : tab[g].answers \subseteq {g}
=============================================================================
