----------------------------- MODULE TunerServer -----------------------------
(***************************************************************************)
(* RigctldServer: programs that ask for the frequency.  The I/O thread     *)
(* splits what a connection sends into lines; the main loop answers them,  *)
(* each to the connection it came from, which may be gone by then and its  *)
(* slot taken by another.  The settings restart the server at any time.    *)
(***************************************************************************)
EXTENDS Naturals, Sequences

CONSTANTS
  Places,   \* kMaxClients
  Visits,   \* connections made in all
  Lines     \* lines a connection sends

VARIABLES
  seats,     \* slots_: [id, pipe] of each place; id 0 is no connection
  nextId,    \* next_conn_id_
  serving,   \* running_
  questions,     \* recv_queue_: <<id, visit, line>>
  replies,   \* send_queue_
  visitors   \* [seat, sent, heard] of each connection made

tvars == <<seats, nextId, serving, questions, replies, visitors>>

NoSeat == [id |-> 0, pipe |-> <<>>]
Seated(v) == visitors[v].seat # 0

\* accept: each connection has an id of its own.
IdOfSeat(i) == i
IdOf(i) == nextId
Connect ==
  /\ serving /\ Len(visitors) < Visits
  /\ \E i \in 1..Places :
       /\ seats[i].id = 0 /\ \A j \in 1..(i - 1) : seats[j].id # 0
       /\ seats' = [seats EXCEPT ![i] = [id |-> IdOf(i), pipe |-> <<>>]]
       /\ visitors' = Append(visitors, [seat |-> i, sent |-> 0, heard |-> <<>>])
  /\ nextId' = nextId + 1
  /\ UNCHANGED <<serving, questions, replies>>

Ask(v) ==
  /\ Seated(v) /\ visitors[v].sent < Lines
  /\ visitors' = [visitors EXCEPT ![v].sent = @ + 1]
  /\ seats' = [seats EXCEPT ![visitors[v].seat].pipe = Append(@, <<v, visitors[v].sent + 1>>)]
  /\ UNCHANGED <<nextId, serving, questions, replies>>

\* recv: the complete lines among what has come.
ReadLines(i) ==
  /\ serving /\ seats[i].pipe # <<>>
  /\ \E n \in 1..Len(seats[i].pipe) :
       /\ questions' = questions \o [k \in 1..n |-> <<seats[i].id, seats[i].pipe[k][1], seats[i].pipe[k][2]>>]
       /\ seats' = [seats EXCEPT ![i].pipe = SubSeq(@, n + 1, Len(@))]
  /\ UNCHANGED <<nextId, serving, replies, visitors>>

Left(i) == [v \in DOMAIN visitors |->
              IF visitors[v].seat = i THEN [visitors[v] EXCEPT !.seat = 0] ELSE visitors[v]]
Disconnect(i) ==
  /\ serving /\ seats[i].id # 0
  /\ seats' = [seats EXCEPT ![i] = NoSeat] /\ visitors' = Left(i)
  /\ UNCHANGED <<nextId, serving, questions, replies>>

\* The main loop: pop_request, handle_rigctld_command, send_reply.
Reply ==
  /\ questions # <<>> /\ questions' = Tail(questions)
  /\ replies' = IF serving THEN Append(replies, Head(questions)) ELSE replies
  /\ UNCHANGED <<seats, nextId, serving, visitors>>

\* The next of the queued replies, to the connection that still has its id.  The
\* thread sends all that are queued before it looks at its connections again.
Meant(v, r) == Seated(v) /\ seats[visitors[v].seat].id = r[1]
SendReply ==
  /\ serving /\ replies # <<>> /\ replies' = Tail(replies)
  /\ LET r == Head(replies) IN
     visitors' = [v \in DOMAIN visitors |->
                    IF Meant(v, r) THEN [visitors[v] EXCEPT !.heard = Append(@, <<r[2], r[3]>>)]
                    ELSE visitors[v]]
  /\ UNCHANGED <<seats, nextId, serving, questions>>

\* stop and start: the queues and the counter stay.
Shutdown ==
  /\ serving /\ serving' = FALSE
  /\ seats' = [i \in 1..Places |-> NoSeat]
  /\ visitors' = [v \in DOMAIN visitors |-> [visitors[v] EXCEPT !.seat = 0]]
  /\ UNCHANGED <<nextId, questions, replies>>
Startup == ~serving /\ serving' = TRUE /\ UNCHANGED <<seats, nextId, questions, replies, visitors>>

TunerInit ==
  /\ seats = [i \in 1..Places |-> NoSeat] /\ nextId = 1 /\ serving = TRUE
  /\ questions = <<>> /\ replies = <<>> /\ visitors = <<>>

TunerNext ==
  \/ Connect \/ Reply \/ SendReply \/ Shutdown \/ Startup
  \/ \E v \in DOMAIN visitors : Ask(v)
  \/ \E i \in 1..Places : ReadLines(i) \/ Disconnect(i)

TunerSpec == TunerInit /\ [][TunerNext]_tvars

-----------------------------------------------------------------------------
(* Property *)

\* A connection hears the answers to its own lines, in their order and without
\* a gap, though slots are taken again and the server is restarted.
AnsweredInOrder ==
  \A v \in DOMAIN visitors :
    /\ Len(visitors[v].heard) <= visitors[v].sent
    /\ \A k \in DOMAIN visitors[v].heard : visitors[v].heard[k] = <<v, k>>
=============================================================================
