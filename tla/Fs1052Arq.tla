------------------------------ MODULE Fs1052Arq ------------------------------
(***************************************************************************)
(* The FED-STD-1052 variable ARQ (VariableARQ): one object that sends a    *)
(* message in numbered blocks, or receives one, over a channel that loses, *)
(* repeats and reorders frames.  Its peer answers every data frame with    *)
(* the bitmap of what it has; the library's own send_ack() has no caller,  *)
(* so the peer's answers are external.  Damaged frames fail their CRC and  *)
(* count as lost.                                                          *)
(***************************************************************************)
EXTENDS Integers, Sequences, FiniteSets

CONSTANTS
  SeqNumbers,     \* sequence numbers are eight bits wide: 256
  MaxMessage,      \* bound on the blocks of a message
  Window,         \* m_window_size
  MaxRetransmits, \* m_max_retransmits
  MaxAir,         \* bound on the different answers in flight
  LateAcks,       \* whether an acknowledgment may outlive its transfer
  BothWays        \* whether a data frame may arrive while this side is in TX_DATA

ASSUME ArqAssumption ==
  /\ SeqNumbers \in Nat /\ MaxMessage \in Nat /\ Window \in Nat \ {0} /\ MaxRetransmits \in Nat
  /\ MaxMessage < SeqNumbers
  /\ LateAcks \in BOOLEAN /\ BothWays \in BOOLEAN

VARIABLES
  state,    \* m_state
  acked,    \* of block k of m_tx_blocks: acknowledged
  resent,   \* of block k: retransmit_count
  queue,    \* m_retransmit_queue
  next,     \* m_next_tx_sequence
  heard,    \* m_rx_bitmap, as the set of sequence numbers
  data,     \* blocks of this transfer that were handed to tx_callback
  acks,     \* bitmaps on their way from the peer
  peer      \* blocks of this transfer that the peer has

arqVars == <<state, acked, resent, queue, next, heard, data, acks, peer>>
txVars  == <<acked, resent, queue, next>>

Seqs == 0..SeqNumbers - 1
\* create_blocks numbers the blocks from zero.
NumberOf(k) == (k - 1) % SeqNumbers
MsgBlocks == DOMAIN acked
\* all_blocks_acked
Unacked(a) == {k \in DOMAIN a : ~a[k]}

ArqInit ==
  /\ state = "IDLE"
  /\ acked = <<>> /\ resent = <<>> /\ queue = <<>> /\ next = 0
  /\ heard = {} /\ data = {} /\ acks = {} /\ peer = {}

-----------------------------------------------------------------------------
(* Sending *)

\* The blocks send_next_blocks() goes on with, from sequence number n.
NextBlocks(a, n) ==
  {k \in Unacked(a) : k > n /\ Cardinality({j \in Unacked(a) : n < j /\ j <= k}) <= Window}

\* send_next_blocks in TX_DATA; the FRAME_SENT it raises leads to WAIT_ACK.
\* When no block is left to send it raises nothing and TX_DATA stays.
SendNextBlocks(a, n) ==
  LET now == NextBlocks(a, n) IN
  /\ data' = data \cup now
  /\ state' = IF now = {} THEN "TX_DATA" ELSE "WAIT_ACK"
  /\ next' \in 0..Len(a)
  /\ IF Cardinality(now) < Window THEN next' = Len(a)
     ELSE next' \in now /\ \A k \in now : k <= next'

\* start_transmission of a message of n blocks; an empty one starts nothing.
StartTransmission(n) ==
  /\ state = "IDLE"
  /\ acked' = [k \in 1..n |-> FALSE] /\ resent' = [k \in 1..n |-> 0]
  /\ peer' = {}
  /\ acks' = IF LateAcks THEN acks ELSE {}
  /\ IF n = 0
     THEN next' = 0 /\ data' = {} /\ state' = "IDLE"
     ELSE LET now == NextBlocks(acked', 0) IN
          /\ data' = now /\ state' = "WAIT_ACK"
          /\ next' \in now /\ \A k \in now : k <= next'
  /\ UNCHANGED <<queue, heard>>

\* A variant for mutation: the bitmap is taken for a cumulative acknowledgement.
MarkAckedUpTo(a, bits) == [k \in DOMAIN a |-> a[k] \/ \E b \in bits : NumberOf(k) <= b]
\* process_ack, mark_block_acked
MarkAcked(a, bits) == [k \in DOMAIN a |-> a[k] \/ NumberOf(k) \in bits]

\* handle_received_frame of a control frame: the bitmap counts in every state,
\* the event only in WAIT_ACK.
HearAck ==
  \E bits \in acks :
    /\ acked' = MarkAcked(acked, bits)
    /\ IF state # "WAIT_ACK" THEN UNCHANGED <<state, data, next>>
       ELSE IF Unacked(acked') = {} THEN state' = "IDLE" /\ UNCHANGED <<data, next>>
       ELSE IF queue # <<>> THEN state' = "RETRANSMIT" /\ UNCHANGED <<data, next>>
       ELSE SendNextBlocks(acked', next)
    /\ UNCHANGED <<resent, queue, heard, acks, peer>>

\* NAK_RECEIVED is raised by the application only.
HearNak ==
  /\ state = "WAIT_ACK" /\ state' = "RETRANSMIT"
  /\ UNCHANGED <<txVars, heard, data, acks, peer>>

\* check_timeouts queues every block that is not acknowledged, in order.
Timeout ==
  /\ state = "WAIT_ACK" /\ state' = "RETRANSMIT"
  /\ \E late \in [1..Cardinality(Unacked(acked)) -> Unacked(acked)] :
       /\ \A i, j \in DOMAIN late : i < j => late[i] < late[j]
       /\ queue' = queue \o late
  /\ UNCHANGED <<acked, resent, next, heard, data, acks, peer>>

\* DATA_READY in RETRANSMIT: queued blocks are sent again, up to the first one
\* that has been resent too often.
DataReady ==
  LET open  == {i \in DOMAIN queue : ~acked[queue[i]]}
      spent == {i \in open : resent[queue[i]] >= MaxRetransmits}
      sent  == {i \in open : \A j \in spent : i < j}
      again == {queue[i] : i \in sent}
  IN
  /\ state = "RETRANSMIT"
  /\ data' = data \cup again
  /\ resent' = [k \in MsgBlocks |-> resent[k] + IF k \in again THEN 1 ELSE 0]
  /\ IF spent = {} THEN state' = "WAIT_ACK" /\ queue' = <<>>
     ELSE /\ state' = "ERROR"
          /\ \E i \in spent : /\ \A j \in spent : i <= j
                              /\ queue' = SubSeq(queue, i + 1, Len(queue))
  /\ UNCHANGED <<acked, next, heard, acks, peer>>

\* ERROR_EVENT, from the application.
ErrorEvent ==
  /\ state \in {"TX_DATA", "WAIT_ACK", "RX_DATA"} /\ state' = "ERROR"
  /\ UNCHANGED <<txVars, heard, data, acks, peer>>

\* reset(), called by the application or by RESET in ERROR.
ResetArq ==
  /\ state' = "IDLE"
  /\ acked' = <<>> /\ resent' = <<>> /\ queue' = <<>> /\ next' = 0 /\ heard' = {}
  /\ data' = {} /\ peer' = {} /\ acks' = IF LateAcks THEN acks ELSE {}

-----------------------------------------------------------------------------
(* Receiving.  Data frames count in every state, the bitmap is one for both *)
(* directions.                                                              *)

StartRx ==
  /\ state = "IDLE" /\ state' = "RX_DATA"
  /\ UNCHANGED <<txVars, heard, data, acks, peer>>

\* process_data_frame compares its bitmap with the number of blocks this side
\* has sent itself: TRANSFER_COMPLETE, which ends RX_DATA and TX_DATA alike, and
\* then FRAME_RECEIVED, which only RX_DATA knows.
HearData(s) ==
  LET complete == s \notin heard /\ \A i \in 0..next - 1 : i \in heard \cup {s} IN
  /\ state = "TX_DATA" => BothWays
  /\ heard' = heard \cup {s}
  /\ state' = IF complete /\ state \in {"RX_DATA", "TX_DATA"} THEN "IDLE"
              ELSE IF state = "RX_DATA" THEN "SEND_ACK" ELSE state
  /\ UNCHANGED <<txVars, data, acks, peer>>

\* FRAME_SENT for the acknowledgment the application has sent.
AckSent ==
  /\ state = "SEND_ACK" /\ state' = "RX_DATA"
  /\ UNCHANGED <<txVars, heard, data, acks, peer>>

-----------------------------------------------------------------------------
(* The channel and the peer *)

FrameTypes == {"NO_FRAME", "T1", "T2", "T3", "T4"}

ControlFrame(type, bits, flow) == [type |-> type, bits |-> bits, flow |-> flow]

\* format_control_frame writes the bitmap for three of the types, and flow
\* control into its last bit, which is also that of the last sequence number.
FormatControl(f) ==
  IF f.type \notin {"T2", "T3", "T4"} THEN [map |-> FALSE, bits |-> {}]
  ELSE [map |-> TRUE, bits |-> f.bits \cup IF f.flow THEN {SeqNumbers - 1} ELSE {}]

\* parse_control_frame infers the bitmap from the length; without one no block
\* is acknowledged.
ParseControl(wire) == IF wire.map THEN wire.bits ELSE {}

\* A frame arrives, for the first time or again, and is answered; a frame that
\* never does is lost.
PeerHears ==
  \E k \in data, type \in FrameTypes, flow \in BOOLEAN :
    /\ peer' = peer \cup {k}
    /\ LET answer == ControlFrame(type, {NumberOf(j) : j \in peer'}, flow) IN
       acks' = acks \cup {ParseControl(FormatControl(answer))}
    /\ Cardinality(acks') <= MaxAir
    /\ UNCHANGED <<state, txVars, heard, data>>

AckLost ==
  /\ \E bits \in acks : acks' = acks \ {bits}
  /\ UNCHANGED <<state, txVars, heard, data, peer>>

ArqNext ==
  \/ \E n \in 0..MaxMessage : StartTransmission(n)
  \/ HearAck \/ HearNak \/ Timeout \/ DataReady \/ ErrorEvent \/ ResetArq
  \/ StartRx \/ AckSent \/ \E s \in Seqs : HearData(s)
  \/ PeerHears \/ AckLost

ArqSpec == ArqInit /\ [][ArqNext]_arqVars

\* update() is called all the time, and the application answers RETRANSMIT with
\* DATA_READY; it neither resets nor reports errors.
PatientNext ==
  \/ \E n \in 0..MaxMessage : StartTransmission(n)
  \/ HearAck \/ Timeout \/ DataReady \/ PeerHears \/ AckLost
PatientSpec ==
  /\ ArqInit /\ [][PatientNext]_arqVars
  /\ WF_arqVars(Timeout) /\ WF_arqVars(DataReady)

-----------------------------------------------------------------------------
(* Properties *)

\* The sender implements the abstract transfer: whatever is lost, repeated or
\* late, it ends with success only when the peer has every block ("Provides
\* reliable data transfer with acknowledgments, retransmission").
Transfer == INSTANCE ReliableTransfer WITH
  Labels <- 1..MaxMessage,
  status <- IF state \in {"TX_DATA", "WAIT_ACK", "RETRANSMIT"} THEN "busy"
            ELSE IF state = "ERROR" THEN "failed" ELSE "rest",
  want <- MsgBlocks,
  got <- peer
ImplementsTransfer == Transfer!TransferSpec

\* A transfer ends, with success or with an error, although frames and answers
\* are lost or late (update(): "Checks timeouts and retransmissions").
TransferEnds == []<>(state \in {"IDLE", "ERROR"})
=============================================================================
