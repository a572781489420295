--------------------------- MODULE AleStateMachine ---------------------------
(***************************************************************************)
(* The link state machine of one station (ALEStateMachine) and its         *)
(* reactions to received words (ALECallProcessor). Who calls it, and in    *)
(* which order, is the business of AleController.                          *)
(*                                                                         *)
(* Time is abstracted: a timer that is running may have elapsed at any     *)
(* tick, so every guard `now - start >= T' of the code is a free choice,   *)
(* and what holds here holds for every setting of the timing constants.    *)
(* A start time is kept only as far as the code tests it against zero.     *)
(* Two kinds of timers are for the exceptional case, and an instance says  *)
(* by RareTimers whether they elapse in it: "STALL", the safety nets and   *)
(* budgets that outlast any burst, may elapse while words are being        *)
(* rendered (the audio device stalls); "TWA", a link is idle for Twa.      *)
(*                                                                         *)
(* `phase' is the sub-phase of the current state. The code keeps one       *)
(* variable per state, writes it when the state is entered and acts on it  *)
(* in that state only, so one variable is enough. For the same reason a    *)
(* field that only one state reads, and that is set anew whenever that     *)
(* state is entered, rests at its initial value in the other states: the   *)
(* resets of enter_state() are made when the state is left. A field that   *)
(* survives its state and is read later (the caller's and the responder's  *)
(* address, the group flag, the orderwire burst, the sweep) is kept.       *)
(*                                                                         *)
(* An address is a sequence of words: an anchor word (TO, TIS or TWAS) and *)
(* the DATA/REP words that extend it.                                      *)
(***************************************************************************)
EXTENDS AleTxPath, Sequences

CONSTANTS
  Chunks,            \* contents an address word can have
  Self,              \* first word of the station's own address
  AllCall,           \* the content of an AllCall address word
  MaxAddr,           \* longest address, in words
  LeadWords,         \* words of the leading call
  MsgWords,          \* words of the message section that carries an AMD
  ConcWords,         \* words of a conclusion (TIS or TWAS and the own address)
  FrameWords,        \* words of a response, ACK or termination frame
  OwWords,           \* words of a linked orderwire burst
  NumChannels,       \* length of calling_channels
  MaxSweep,          \* channels of the longest sounding sweep
  MaxErrors,         \* MAX_SCANNING_CALL_ERRORS
  MaxAttempts,       \* transmissions of a linked AMD
  RareTimers         \* the exceptional timers that elapse, see above

ASSUME StateMachineAssumption ==
  /\ Self \in Chunks
  /\ AllCall \in Chunks \ {Self}
  /\ {MaxAddr, LeadWords, MsgWords, ConcWords, FrameWords, OwWords,
      NumChannels, MaxSweep, MaxErrors, MaxAttempts} \subseteq Nat \ {0}
  /\ RareTimers \subseteq {"STALL", "TWA"}

VARIABLES
  state,           \* current_state
  previous_state,
  pre_link_state,  \* where CALLING, HANDSHAKE and LINKED return to
  phase,           \* the sub-phase of the current state
  call,            \* the outgoing call, and whom the link is with
  hs,              \* the incoming call
  link,            \* what lives within LINKED
  sweep,           \* channels left in sounding_sweep_chs_, 0 when inactive
  broadcasting,    \* allcall_broadcasting_
  scan_c,          \* target_scan_channels
  tx               \* the transmit path

smVars == <<state, previous_state, pre_link_state, phase, call, hs, link,
            sweep, broadcasting, scan_c, tx>>

States == {"IDLE", "SCANNING", "CALLING", "HANDSHAKE", "LINKED", "SOUNDING"}
Available == {"IDLE", "SCANNING"}

CallingTxPhases ==
  {"SCANNING_CALL", "GROUP_SCANNING_CALL", "LEADING_CALL", "CONCLUSION"}
Phases ==
  [IDLE      |-> {"NONE"},
   SCANNING  |-> {"HOPPING", "SCAN_PAUSE"},
   CALLING   |-> {"LBT", "TUNING", "LISTENING", "SENDING_ACK"}
                   \cup CallingTxPhases,
   HANDSHAKE |-> {"WAIT_CYCLE_END", "SLOT_WAIT", "CHANNEL_CHECK",
                  "SENDING_RESPONSE", "WAIT_ACK"},
   LINKED    |-> {"NONE"},
   SOUNDING  |-> {"LBT", "TRANSMITTING", "LISTENING"}]

Addrs == Seq(Chunks)

(***************************************************************************)
(* call.to is active_call_to, call.peer is to_address, call.scan the       *)
(* length of scanning_seq_, call.left the channels of calling_channels     *)
(* that come after calling_channel_index, call.amd the AMD of              *)
(* active_message_ (with or without a link after it), call.heard whether   *)
(* the response's TO (response_to_detected) and its TIS (tlww_start_ms     *)
(* # 0) were received, call.cycles is call_cycles_in_phase.                *)
(***************************************************************************)
Amds == {"NONE", "LINK", "NO_LINK"}
Calls ==
  [to : Addrs, peer : Addrs, group : BOOLEAN, amd : Amds, scan : Nat,
   left : Nat, cycles : Nat, heard : SUBSET {"TO", "TIS"},
   collecting : BOOLEAN]

(***************************************************************************)
(* hs.concl tells hs_conclusion_rcvd and hs_conclusion_is_twas_, hs.msg    *)
(* that hs_message_start_ms is set, hs.heard which words of the ACK were   *)
(* received (hs_ack_to_ms # 0, hs_ack_tis_rcvd), hs.silent is              *)
(* allcall_silent_. hs_tlww_start_ms is set whenever hs.concl or the TIS   *)
(* of hs.heard is.                                                         *)
(***************************************************************************)
Handshakes ==
  [concl : {"NONE", "TIS", "TWAS"}, msg : BOOLEAN,
   heard : SUBSET {"TO", "TIS"}, errors : 0..MaxErrors, caller : Addrs,
   silent : BOOLEAN]

(***************************************************************************)
(* link.term is linked_terminating_, link.twas is linked_twas_addr_,       *)
(* link.owPending what a pending orderwire burst would carry and "NONE"    *)
(* when orderwire_pending_ is false, link.owTx is orderwire_transmitting_, *)
(* link.amd is linked_amd_phase_ and link.listen tells that its listening  *)
(* window is open; link.heard are the words of the Response that were      *)
(* received, link.retry is linked_amd_retry_pending_. link.due is a history *)
(* variable: an AMD was sent over this link and the operator was not yet   *)
(* told AMD_DELIVERED or AMD_NOT_DELIVERED.                                *)
(***************************************************************************)
Bursts == {"AMD", "RESPONSE", "ACK", "EFS"}
AmdPhases == {"NONE", "LISTENING", "SENDING_ACK", "RESPONDING", "WAIT_ACK"}
Links ==
  [term : BOOLEAN, twas : Addrs, owPending : Bursts \cup {"NONE"},
   owTx : BOOLEAN, amd : AmdPhases, listen : BOOLEAN,
   heard : SUBSET {"TO", "TIS"}, retry : BOOLEAN, attempts : 0..MaxAttempts,
   due : BOOLEAN]

SMInit ==
  /\ state = "IDLE"
  /\ previous_state = "IDLE"
  /\ pre_link_state = "IDLE"
  /\ phase = "NONE"
  /\ call = [to |-> <<>>, peer |-> <<>>, group |-> FALSE, amd |-> "NONE",
             scan |-> 0, left |-> 0, cycles |-> 0, heard |-> {},
             collecting |-> FALSE]
  /\ hs = [concl |-> "NONE", msg |-> FALSE, heard |-> {}, errors |-> 0,
           caller |-> <<>>, silent |-> FALSE]
  /\ link = [term |-> FALSE, twas |-> <<>>, owPending |-> "NONE",
             owTx |-> FALSE, amd |-> "NONE", listen |-> FALSE, heard |-> {},
             retry |-> FALSE, attempts |-> 0, due |-> FALSE]
  /\ sweep = 0
  /\ broadcasting = FALSE
  /\ scan_c = 1
  /\ tx = TxInit

-----------------------------------------------------------------------------
(***************************************************************************)
(* Transitions: transition_to() with exit_state() and enter_state(). A     *)
(* handler that has already changed something passes the changed records.  *)
(***************************************************************************)
EntryPhase ==
  [IDLE |-> "NONE", SCANNING |-> "HOPPING", CALLING |-> "LBT",
   HANDSHAKE |-> "WAIT_CYCLE_END", LINKED |-> "NONE", SOUNDING |-> "LBT"]

\* A variant for mutation: the responder keeps the address it was called by.
BoundPeerOfCallerOnly(c, h) == IF c.group /\ c.peer # <<>> THEN c.peer ELSE c.to

\* enter_state(LINKED): bind active_call_to to whom the code takes for the peer.
BoundPeer(c, h) ==
  IF ~c.group /\ h.caller # <<>> THEN h.caller
  ELSE IF c.group /\ c.peer # <<>> THEN c.peer
  ELSE c.to

\* What only an outgoing call reads.
OutOfCall(c) == [c EXCEPT !.amd = "NONE", !.scan = 0, !.left = 0]

EnterCall(new, c, h) ==
  LET left == IF state = "LINKED" THEN [c EXCEPT !.to = <<>>] ELSE c
      rest == [left EXCEPT !.cycles = 0, !.heard = {}, !.collecting = FALSE]
  IN  CASE new = "CALLING"   -> [rest EXCEPT !.peer = <<>>]
        [] new = "HANDSHAKE" -> OutOfCall(rest)
        [] new = "LINKED"    -> [OutOfCall(rest) EXCEPT !.to = BoundPeer(left, h)]
        [] OTHER             -> [OutOfCall(rest) EXCEPT !.to = <<>>]

EnterHs(new, h) ==
  LET rest == [h EXCEPT !.concl = "NONE", !.msg = FALSE, !.heard = {},
                        !.errors = 0]
  IN  CASE new = "HANDSHAKE" -> [rest EXCEPT !.caller = <<>>]
        [] new \in Available \cup {"LINKED"} -> [rest EXCEPT !.silent = FALSE]
        [] OTHER -> rest

EnterLink(l) ==
  [l EXCEPT !.term = FALSE, !.twas = <<>>, !.amd = "NONE", !.listen = FALSE,
            !.heard = {}, !.retry = FALSE, !.attempts = 0, !.due = FALSE]

EnterTx(t) == RxOn([t EXCEPT !.pending = 0, !.drain = FALSE])

Moves(new, c, h, l) ==
  IF new = state
  THEN /\ call' = c /\ hs' = h /\ link' = l
       /\ UNCHANGED <<state, previous_state, pre_link_state, phase>>
  ELSE /\ state' = new
       /\ previous_state' = state
       /\ pre_link_state' =
            IF new \in {"CALLING", "HANDSHAKE"} THEN state ELSE pre_link_state
       /\ phase' = EntryPhase[new]
       /\ call' = EnterCall(new, c, h)
       /\ hs' = EnterHs(new, h)
       /\ link' = EnterLink(l)

TxAfter(new, t) == IF new = state THEN t ELSE EnterTx(t)

TransitionTo(new, c, h, l, t) ==
  Moves(new, c, h, l) /\ tx' = TxAfter(new, t)

\* LINK_TIMEOUT, LINK_TERMINATED and AMD_DECLINED_LINK in CALLING, HANDSHAKE
\* and LINKED.
LeaveLink(c, h, l, t) == TransitionTo(pre_link_state, c, h, l, t)

\* HANDSHAKE_COMPLETE.
Established(c, h, l, t) == TransitionTo("LINKED", c, h, l, t)

\* SOUNDING_COMPLETE: on to the next channel of a sweep, or back.
SoundingComplete(t) ==
  IF sweep > 1
  THEN /\ sweep' = sweep - 1
       /\ phase' = "LBT"
       /\ tx' = RxOn(t)
       /\ UNCHANGED <<state, previous_state, pre_link_state, call, hs, link>>
  ELSE /\ sweep' = 0
       /\ TransitionTo(previous_state, call, hs, link, t)

\* CALL_DETECTED in the states that react to it.
CallDetected(c, h) ==
  /\ TransitionTo("HANDSHAKE", c, h, link, tx)
  /\ sweep' = IF state = "SOUNDING" THEN 0 ELSE sweep

-----------------------------------------------------------------------------
(***************************************************************************)
(* CALLING: handle_calling(), one action per phase and outcome.            *)
(***************************************************************************)
Unmoved == UNCHANGED <<state, previous_state, pre_link_state>>
Rest    == UNCHANGED <<sweep, broadcasting, scan_c>>

\* try_next_calling_channel(): restart from LBT on the next channel, or give up.
TryNextChannel(c, t) ==
  IF c.left > 0
  THEN /\ phase' = "LBT"
       /\ call' = [c EXCEPT !.left = @ - 1, !.cycles = 0, !.heard = {},
                            !.peer = <<>>]
       /\ tx' = [t EXCEPT !.pending = 0]
       /\ Unmoved /\ UNCHANGED <<hs, link>>
  ELSE LeaveLink(c, hs, link, t)

In(s, p) == state = s /\ phase = p

\* A deadline that is longer than what is being rendered.
Stalled == "STALL" \in RareTimers \/ tx.air + tx.buf = 0
LinkIdle == "TWA" \in RareTimers

CallingLbtBusy ==
  /\ In("CALLING", "LBT")
  /\ TryNextChannel(call, tx)
  /\ Rest

CallingLbtClear ==
  /\ In("CALLING", "LBT")
  /\ phase' = "TUNING"
  /\ tx' = RxOff(tx)
  /\ Unmoved /\ Rest /\ UNCHANGED <<call, hs, link>>

CallWords(c) ==
  c.scan + LeadWords + (IF c.amd = "NONE" THEN 0 ELSE MsgWords) + ConcWords

CallingTuned ==
  /\ In("CALLING", "TUNING")
  /\ phase' = IF scan_c = 0 THEN "LEADING_CALL"
              ELSE IF call.group THEN "GROUP_SCANNING_CALL"
              ELSE "SCANNING_CALL"
  /\ call' = [call EXCEPT !.cycles = 0]
  /\ tx' = Transmit(CallWords(call), tx)
  /\ Unmoved /\ Rest /\ UNCHANGED <<hs, link>>

\* No response began within its window, or it stopped before its conclusion.
CallingNoResponse ==
  /\ In("CALLING", "LISTENING")
  /\ ~(call.heard = {"TO", "TIS"})
  /\ TryNextChannel(call, tx)
  /\ Rest

\* A variant for mutation: the conclusion of the response is not awaited.
CallingResponseBegun ==
  /\ In("CALLING", "LISTENING")
  /\ "TO" \in call.heard
  /\ phase' = "SENDING_ACK"
  /\ call' = [call EXCEPT !.cycles = 0, !.collecting = FALSE]
  /\ tx' = RxOff(tx)
  /\ Unmoved /\ Rest /\ UNCHANGED <<hs, link>>

CallingResponseSettled ==
  /\ In("CALLING", "LISTENING")
  /\ call.heard = {"TO", "TIS"}
  /\ phase' = "SENDING_ACK"
  /\ call' = [call EXCEPT !.cycles = 0, !.collecting = FALSE]
  /\ tx' = RxOff(tx)
  /\ Unmoved /\ Rest /\ UNCHANGED <<hs, link>>

CallingBuildAck ==
  /\ In("CALLING", "SENDING_ACK")
  /\ tx.pending = 0 /\ call.cycles = 0
  /\ tx' = ArmDrain(Transmit(FrameWords, tx))
  /\ Unmoved /\ Rest /\ UNCHANGED <<phase, call, hs, link>>

CallingAckStalled ==
  /\ Stalled
  /\ In("CALLING", "SENDING_ACK")
  /\ tx.pending > 0 /\ tx.drain
  /\ LeaveLink(call, hs, link, DisarmDrain(tx))
  /\ Rest

\* A variant for mutation: the budget is asked about only while listening.
CallingBudgetListening ==
  /\ Stalled
  /\ In("CALLING", "LISTENING")
  /\ LeaveLink(call, hs, link, tx)
  /\ Rest

\* check_link_timeout(): the whole call has a budget of its own.
CallingBudgetSpent ==
  /\ Stalled
  /\ state = "CALLING"
  /\ LeaveLink(call, hs, link, tx)
  /\ Rest

-----------------------------------------------------------------------------
(***************************************************************************)
(* HANDSHAKE: handle_handshake().                                          *)
(***************************************************************************)
HandshakeSilence ==
  /\ In("HANDSHAKE", "WAIT_CYCLE_END")
  /\ hs.concl = "NONE"
  /\ LeaveLink(call, hs, link, tx)
  /\ Rest

\* Tm_max counts from the first message word.
HandshakeMessageTooLong ==
  /\ In("HANDSHAKE", "WAIT_CYCLE_END")
  /\ hs.concl = "NONE" /\ hs.msg
  /\ LeaveLink(call, hs, link, tx)
  /\ Rest

\* The conclusion settled: a TWAS ends the matter, an AllCall links without an
\* answer, any other call is answered in its slot.
HandshakeDeclined ==
  /\ In("HANDSHAKE", "WAIT_CYCLE_END") /\ hs.concl = "TWAS"
  /\ LeaveLink(call, hs, link, tx)
  /\ Rest

HandshakeAllCallSettled ==
  /\ In("HANDSHAKE", "WAIT_CYCLE_END") /\ hs.concl = "TIS" /\ hs.silent
  /\ Established([call EXCEPT !.to = hs.caller], hs, link, tx)
  /\ Rest

HandshakeCallSettled ==
  /\ In("HANDSHAKE", "WAIT_CYCLE_END") /\ hs.concl = "TIS" /\ ~hs.silent
  /\ phase' = "SLOT_WAIT"
  /\ Unmoved /\ Rest /\ UNCHANGED <<call, hs, link, tx>>

HandshakeSlotReached ==
  /\ In("HANDSHAKE", "SLOT_WAIT")
  /\ phase' = "CHANNEL_CHECK"
  /\ Unmoved /\ Rest /\ UNCHANGED <<call, hs, link, tx>>

HandshakeChannelBusy ==
  /\ In("HANDSHAKE", "CHANNEL_CHECK")
  /\ LeaveLink(call, hs, link, tx)
  /\ Rest

HandshakeRespond ==
  /\ In("HANDSHAKE", "CHANNEL_CHECK")
  /\ phase' = "SENDING_RESPONSE"
  /\ tx' = ArmDrain(Transmit(FrameWords, RxOff(tx)))
  /\ Unmoved /\ Rest /\ UNCHANGED <<call, hs, link>>

HandshakeResponseStalled ==
  /\ Stalled
  /\ In("HANDSHAKE", "SENDING_RESPONSE")
  /\ tx.drain
  /\ LeaveLink(call, hs, link, DisarmDrain(tx))
  /\ Rest

\* The ACK did not start in time, or stopped before its conclusion.
HandshakeNoAck ==
  /\ In("HANDSHAKE", "WAIT_ACK")
  /\ hs.heard # {"TO", "TIS"}
  /\ LeaveLink(call, hs, link, tx)
  /\ Rest

HandshakeAckSettled ==
  /\ In("HANDSHAKE", "WAIT_ACK")
  /\ "TIS" \in hs.heard
  /\ Established(call, hs, link, tx)
  /\ Rest

\* check_link_timeout(): Twa since the handshake began.
HandshakeBudgetSpent ==
  /\ Stalled
  /\ state = "HANDSHAKE"
  /\ LeaveLink(call, hs, link, tx)
  /\ Rest

-----------------------------------------------------------------------------
(***************************************************************************)
(* LINKED: handle_linked(). The checks of one tick come in a fixed order:  *)
(* drain deadline, own termination, the peer's termination, the orderwire, *)
(* the linked AMD, and inactivity last.                                    *)
(***************************************************************************)
LinkedTerminationStalled ==
  /\ Stalled
  /\ state = "LINKED" /\ link.term /\ tx.drain
  /\ LeaveLink(call, hs, [link EXCEPT !.term = FALSE], RxOn(DisarmDrain(tx)))
  /\ Rest

LinkedOrderwireStalled ==
  /\ Stalled
  /\ state = "LINKED" /\ ~link.term /\ link.owTx /\ tx.drain
  /\ link' = [link EXCEPT !.owTx = FALSE]
  /\ tx' = RxOn(DisarmDrain(tx))
  /\ Unmoved /\ Rest /\ UNCHANGED <<phase, call, hs>>

\* A termination frame settled and names exactly the peer.
LinkedPeerTerminated ==
  /\ state = "LINKED" /\ ~link.term
  /\ link.twas # <<>> /\ link.twas = call.to
  /\ LeaveLink(call, hs, [link EXCEPT !.twas = <<>>], tx)
  /\ Rest

\* A settled termination frame of anybody else is dropped, and the tick goes on
\* with l; one that has not settled is left alone.
ForeignTwasDropped(l) ==
  \/ l = link
  \/ /\ link.twas # <<>> /\ link.twas # call.to
     /\ l = [link EXCEPT !.twas = <<>>]

TwasSettled == {link, [link EXCEPT !.twas = <<>>]}

\* handle_linked() past its first early returns, with nothing on the air.
LinkedIdle(l) ==
  /\ state = "LINKED" /\ ~link.term /\ ~link.owTx
  /\ l \in TwasSettled /\ ForeignTwasDropped(l)

LinkedForeignTwas ==
  /\ state = "LINKED" /\ ~link.term
  /\ link.twas # <<>> /\ link.twas # call.to
  /\ link' = [link EXCEPT !.twas = <<>>]
  /\ Unmoved /\ Rest /\ UNCHANGED <<phase, call, hs, tx>>

LinkedOrderwireStart ==
  \E l \in TwasSettled :
    /\ LinkedIdle(l) /\ link.owPending # "NONE"
    /\ link' = [l EXCEPT !.owPending = "NONE", !.owTx = TRUE]
    /\ tx' = ArmDrain(Transmit(OwWords, RxOff(tx)))
    /\ Unmoved /\ Rest /\ UNCHANGED <<phase, call, hs>>

LinkedQuiet(l) == LinkedIdle(l) /\ link.owPending = "NONE"

LinkedAmdRetryDue ==
  \E l \in TwasSettled :
    /\ LinkedQuiet(l) /\ link.retry
    /\ link' = [l EXCEPT !.retry = FALSE, !.owPending = "AMD"]
    /\ Unmoved /\ Rest /\ UNCHANGED <<phase, call, hs, tx>>

LinkedListening(l) ==
  LinkedQuiet(l) /\ ~link.retry /\ link.amd = "LISTENING" /\ link.listen

\* linked_amd_retry_or_fail_().
RetryOrFail(l) ==
  IF l.attempts > 1
  THEN [l EXCEPT !.attempts = @ - 1, !.listen = FALSE, !.heard = {},
                 !.retry = TRUE]
  ELSE [l EXCEPT !.amd = "NONE", !.listen = FALSE, !.due = FALSE]

LinkedAmdNoResponse ==
  \E l \in TwasSettled :
    /\ LinkedListening(l) /\ link.heard # {"TO", "TIS"}
    /\ link' = RetryOrFail(l)
    /\ Unmoved /\ Rest /\ UNCHANGED <<phase, call, hs, tx>>

LinkedAmdResponseSettled ==
  \E l \in TwasSettled :
    /\ LinkedListening(l) /\ link.heard = {"TO", "TIS"}
    /\ link' = [l EXCEPT !.amd = "SENDING_ACK", !.listen = FALSE,
                         !.owPending = "ACK"]
    /\ Unmoved /\ Rest /\ UNCHANGED <<phase, call, hs, tx>>

\* The receiver of an AMD stops waiting for the ACK, received or not.
LinkedAmdAckWaited ==
  \E l \in TwasSettled :
    /\ LinkedQuiet(l) /\ ~link.retry /\ link.amd = "WAIT_ACK"
    /\ link' = [l EXCEPT !.amd = "NONE"]
    /\ Unmoved /\ Rest /\ UNCHANGED <<phase, call, hs, tx>>

\* Twa: send the termination frame and leave at once.
LinkedInactive ==
  \E l \in TwasSettled :
    /\ LinkIdle /\ LinkedQuiet(l) /\ ~link.retry /\ link.amd # "WAIT_ACK"
    /\ ~(link.amd = "LISTENING" /\ link.listen)
    /\ LeaveLink(call, hs, l, IF call.to = <<>> THEN tx ELSE Transmit(FrameWords, tx))
    /\ Rest

\* check_link_timeout(): the backstop, ahead of everything above.
LinkedBackstop ==
  /\ Stalled /\ LinkIdle
  /\ state = "LINKED"
  /\ LeaveLink(call, hs, link, tx)
  /\ Rest

-----------------------------------------------------------------------------
(***************************************************************************)
(* SOUNDING: handle_sounding(); and the scanner's pause.                   *)
(***************************************************************************)
SoundingLbtBusy ==
  /\ In("SOUNDING", "LBT")
  /\ SoundingComplete(tx)
  /\ UNCHANGED <<broadcasting, scan_c>>

\* The conclusion is repeated for the length of a scan cycle.
SoundingWords == ConcWords * (scan_c + 2)

SoundingTransmit ==
  /\ In("SOUNDING", "LBT")
  /\ phase' = "TRANSMITTING"
  /\ tx' = Transmit(SoundingWords, RxOff(tx))
  /\ Unmoved /\ Rest /\ UNCHANGED <<call, hs, link>>

SoundingSent ==
  /\ In("SOUNDING", "TRANSMITTING") /\ tx.pending = 0
  /\ phase' = "LISTENING"
  /\ tx' = RxOn(tx)
  /\ Unmoved /\ Rest /\ UNCHANGED <<call, hs, link>>

SoundingWindowClosed ==
  /\ In("SOUNDING", "LISTENING")
  /\ SoundingComplete(tx)
  /\ UNCHANGED <<broadcasting, scan_c>>

ScanPauseOver ==
  /\ In("SCANNING", "SCAN_PAUSE")
  /\ phase' = "HOPPING"
  /\ Unmoved /\ Rest /\ UNCHANGED <<call, hs, link, tx>>

\* A variant for mutation: the receiver is not opened again.
BroadcastStalledDeaf ==
  /\ Stalled /\ broadcasting /\ tx.drain
  /\ broadcasting' = FALSE
  /\ tx' = [tx EXCEPT !.drain = FALSE, !.pending = 0]
  /\ Unmoved /\ UNCHANGED <<phase, call, hs, link, sweep, scan_c>>

\* update(): the drain deadline of an AllCall broadcast, in whatever state.
BroadcastStalled ==
  /\ Stalled
  /\ broadcasting /\ tx.drain
  /\ broadcasting' = FALSE
  /\ tx' = RxOn([tx EXCEPT !.drain = FALSE, !.pending = 0])
  /\ Unmoved /\ UNCHANGED <<phase, call, hs, link, sweep, scan_c>>

-----------------------------------------------------------------------------
(***************************************************************************)
(* on_word_complete(): a word was rendered. rendered is the transmit path  *)
(* without that word.                                                      *)
(***************************************************************************)
CompletedInLinked(t) ==
  \/ /\ link.term
     /\ IF t.pending = 0
        THEN LeaveLink(call, hs, [link EXCEPT !.term = FALSE], DisarmDrain(t))
        ELSE tx' = t /\ Unmoved /\ UNCHANGED <<phase, call, hs, link>>
  \/ /\ ~link.term /\ link.owTx
     /\ IF t.pending = 0
        THEN /\ tx' = RxOn(DisarmDrain(t))
             /\ LET done == [link EXCEPT !.owTx = FALSE]
                IN  link' = CASE link.amd = "LISTENING" ->
                                   [done EXCEPT !.listen = TRUE, !.heard = {}]
                              [] link.amd = "RESPONDING" ->
                                   [done EXCEPT !.amd = "WAIT_ACK"]
                              [] link.amd = "SENDING_ACK" ->
                                   [done EXCEPT !.amd = "NONE", !.due = FALSE]
                              [] OTHER -> done
             /\ Unmoved /\ UNCHANGED <<phase, call, hs>>
        ELSE tx' = t /\ Unmoved /\ UNCHANGED <<phase, call, hs, link>>

CompletedInSounding(t) ==
  /\ IF phase = "TRANSMITTING" /\ t.pending = 0
     THEN phase' = "LISTENING" /\ tx' = RxOn(t)
     ELSE phase' = phase /\ tx' = t
  /\ Unmoved /\ UNCHANGED <<call, hs, link>>

\* A variant for mutation: the message section is not counted.
PhaseWordsWithoutMessage ==
  CASE phase = "SCANNING_CALL" -> 2 * scan_c
    [] phase = "GROUP_SCANNING_CALL" -> call.scan
    [] phase = "LEADING_CALL" -> LeadWords
    [] OTHER -> ConcWords

\* Words of the phase after which the call moves on to the next phase.
PhaseWords ==
  CASE phase = "SCANNING_CALL" -> 2 * scan_c
    [] phase = "GROUP_SCANNING_CALL" -> call.scan
    [] phase = "LEADING_CALL" ->
         LeadWords + (IF call.amd = "NONE" THEN 0 ELSE MsgWords)
    [] OTHER -> ConcWords

\* A variant for mutation: the leading call is skipped.
NextPhaseSkipping ==
  IF phase = "CONCLUSION" THEN "LISTENING" ELSE "CONCLUSION"

NextPhase ==
  CASE phase = "LEADING_CALL" -> "CONCLUSION"
    [] phase = "CONCLUSION"   -> "LISTENING"
    [] OTHER                  -> "LEADING_CALL"

CompletedInCalling(t) ==
  LET cycles == call.cycles + 1
  IN  \/ /\ phase \in CallingTxPhases
         /\ IF cycles >= PhaseWords
            THEN /\ phase' = NextPhase
                 /\ call' = [call EXCEPT !.cycles = 0]
                 /\ tx' = IF NextPhase = "LISTENING" THEN RxOn(t) ELSE t
            ELSE /\ phase' = phase
                 /\ call' = [call EXCEPT !.cycles = cycles]
                 /\ tx' = t
         /\ Unmoved /\ UNCHANGED <<hs, link>>
      \/ /\ phase = "SENDING_ACK" /\ t.pending = 0
         /\ IF call.amd = "NO_LINK"
            THEN LeaveLink([call EXCEPT !.cycles = cycles], hs, link, t)
            ELSE Established([call EXCEPT !.cycles = cycles], hs, link, t)
      \/ /\ phase \notin CallingTxPhases
         /\ ~(phase = "SENDING_ACK" /\ t.pending = 0)
         /\ call' = [call EXCEPT !.cycles = cycles]
         /\ tx' = t
         /\ Unmoved /\ UNCHANGED <<phase, hs, link>>

CompletedInHandshake(t) ==
  IF t.pending = 0
  THEN /\ phase' = "WAIT_ACK"
       /\ hs' = [hs EXCEPT !.heard = {}]
       /\ tx' = RxOn(t)
       /\ Unmoved /\ UNCHANGED <<call, link>>
  ELSE tx' = t /\ Unmoved /\ UNCHANGED <<phase, call, hs, link>>

CompletedBroadcast(t) ==
  /\ broadcasting' = (t.pending > 0)
  /\ tx' = IF t.pending > 0 THEN t ELSE RxOn(DisarmDrain(t))
  /\ Unmoved /\ UNCHANGED <<phase, call, hs, link>>

OnWordComplete(rendered) ==
  LET done == Completed(rendered)
      busy == state = "LINKED" /\ (link.term \/ link.owTx)
      counted == rendered.pending > 0
  IN  /\ UNCHANGED <<sweep, scan_c>>
      /\ \/ /\ busy
            /\ CompletedInLinked(done) /\ UNCHANGED broadcasting
         \/ /\ state = "SOUNDING"
            /\ CompletedInSounding(done) /\ UNCHANGED broadcasting
         \/ /\ ~busy /\ state # "SOUNDING" /\ broadcasting
            /\ CompletedBroadcast(done)
         \/ /\ state = "CALLING" /\ ~broadcasting /\ counted
            /\ CompletedInCalling(done) /\ UNCHANGED broadcasting
         \/ /\ In("HANDSHAKE", "SENDING_RESPONSE") /\ ~broadcasting /\ counted
            /\ CompletedInHandshake(done) /\ UNCHANGED broadcasting
         \/ \* nobody counts this word
            /\ ~busy /\ state # "SOUNDING" /\ ~broadcasting
            /\ (state = "CALLING" \/ In("HANDSHAKE", "SENDING_RESPONSE"))
                 => ~counted
            /\ tx' = rendered
            /\ Unmoved /\ UNCHANGED <<phase, call, hs, link, broadcasting>>

-----------------------------------------------------------------------------
(***************************************************************************)
(* Received words (ALECallProcessor::process_received_word).               *)
(***************************************************************************)
\* Other stations conclude with their own addresses.
Words ==
  [type : {"TO", "DATA", "CMD"}, addr : Chunks]
    \cup [type : {"TIS", "TWAS"}, addr : Chunks \ {Self, AllCall}]

\* While the station listens before it transmits, any word means occupied.
LbtActive == In("HANDSHAKE", "CHANNEL_CHECK") \/ In("SOUNDING", "LBT")

\* The words of an address are being collected.
Collecting ==
  \/ state = "CALLING" /\ call.collecting
  \/ state = "HANDSHAKE" /\ (hs.concl # "NONE" \/ "TIS" \in hs.heard)
  \/ state = "LINKED" /\ link.twas # <<>>

FromCaller(a) ==
  state = "HANDSHAKE" /\ hs.caller # <<>> => a = Head(hs.caller)

\* classify().
Role(w) ==
  IF LbtActive THEN "CHANNEL_BUSY"
  ELSE IF Collecting /\ w.type = "DATA" THEN "DATA_EXTENSION"
  ELSE IF w.type = "TO" /\ w.addr = AllCall THEN "ALLCALL"
  ELSE IF w.type = "TO" /\ w.addr = Self THEN "TO_SELF"
  ELSE IF w.type = "TIS" /\ FromCaller(w.addr) THEN "TIS_CALLER"
  ELSE IF w.type = "TWAS" THEN "TWAS_WORD"
  ELSE "NONE"

\* A valid word ends a run of errors.
Heard == [hs EXCEPT !.errors = 0]

\* An address that is collected never grows past MaxAddr words here.
Extended(addr, w) == IF Len(addr) < MaxAddr THEN Append(addr, w.addr) ELSE addr

\* detect_incoming_call_().
IncomingCall(w) ==
  \/ /\ Role(w) = "TO_SELF"
     /\ CallDetected([call EXCEPT !.to = <<w.addr>>], Heard)
  \/ /\ Role(w) = "ALLCALL"
     /\ CallDetected(call, [Heard EXCEPT !.silent = TRUE])

IsIncomingCall(w) == Role(w) \in {"TO_SELF", "ALLCALL"}

HearInAvailable(w) ==
  \/ IncomingCall(w)
  \/ /\ ~IsIncomingCall(w)
     /\ phase' = IF state = "SCANNING" THEN "SCAN_PAUSE" ELSE phase
     /\ hs' = Heard
     /\ Unmoved /\ UNCHANGED <<call, link, sweep, tx>>

HearInSounding(w) ==
  \/ /\ LbtActive
     /\ SoundingComplete(tx)
  \/ /\ phase = "LISTENING" /\ IncomingCall(w)
  \/ /\ ~LbtActive /\ ~(phase = "LISTENING" /\ IsIncomingCall(w))
     /\ hs' = Heard
     /\ Unmoved /\ UNCHANGED <<phase, call, link, sweep, tx>>

\* react_calling_(): what the response does to the call while it listens.
ResponseWord(w) ==
  CASE Role(w) = "TO_SELF" -> [call EXCEPT !.heard = @ \cup {"TO"}]
    [] Role(w) = "TIS_CALLER" /\ call.heard = {"TO"} ->
         [call EXCEPT !.heard = @ \cup {"TIS"}, !.collecting = TRUE,
                      !.peer = <<w.addr>>]
    [] Role(w) = "DATA_EXTENSION" ->
         [call EXCEPT !.peer = Extended(@, w), !.heard = @ \cup {"TIS"}]
    [] OTHER -> call

HearInCalling(w) ==
  /\ UNCHANGED sweep
  /\ \/ /\ phase = "LISTENING" /\ Role(w) = "TWAS_WORD"
        /\ LeaveLink(call, Heard, link, tx)
     \/ /\ ~(phase = "LISTENING" /\ Role(w) = "TWAS_WORD")
        /\ call' = IF phase = "LISTENING" THEN ResponseWord(w) ELSE call
        /\ hs' = Heard
        /\ Unmoved /\ UNCHANGED <<phase, link, tx>>

\* react_handshake_(), while the calling frame arrives.
CallingFrameWord(w) ==
  CASE Role(w) = "TIS_CALLER" /\ hs.concl = "NONE" ->
         [Heard EXCEPT !.concl = "TIS", !.caller = <<w.addr>>]
    [] Role(w) = "TWAS_WORD" /\ hs.concl = "NONE" ->
         [Heard EXCEPT !.concl = "TWAS", !.caller = <<w.addr>>]
    [] Role(w) = "DATA_EXTENSION" -> [Heard EXCEPT !.caller = Extended(@, w)]
    [] Role(w) = "NONE" /\ hs.concl = "NONE" /\ w.type = "DATA" ->
         [Heard EXCEPT !.msg = TRUE]
    [] OTHER -> Heard

\* react_handshake_(), while the ACK arrives.
AckWord(w) ==
  CASE Role(w) \in {"TO_SELF", "DATA_EXTENSION"} ->
         [Heard EXCEPT !.heard = @ \cup {"TO"}]
    [] Role(w) = "TIS_CALLER" -> [Heard EXCEPT !.heard = @ \cup {"TIS"}]
    [] OTHER -> Heard

HearInHandshake(w) ==
  LET aborts == LbtActive \/ (phase = "WAIT_ACK" /\ Role(w) = "TWAS_WORD")
  IN  /\ UNCHANGED sweep
      /\ \/ /\ aborts
            /\ LeaveLink(call, Heard, link, tx)
         \/ /\ ~aborts
            /\ hs' = CASE phase = "WAIT_CYCLE_END" -> CallingFrameWord(w)
                       [] phase = "WAIT_ACK" -> AckWord(w)
                       [] OTHER -> Heard
            /\ Unmoved /\ UNCHANGED <<phase, call, link, tx>>

\* The address of a termination frame, or a word of the Response to an AMD.
LinkedWord(w) ==
  CASE Role(w) = "TWAS_WORD" ->
         [link EXCEPT !.twas =
            IF call.to # <<>> /\ Head(call.to) = w.addr
            THEN <<w.addr>> ELSE <<>>]
    [] Role(w) = "DATA_EXTENSION" ->
         [link EXCEPT !.twas = Extended(@, w)]
    [] link.amd = "LISTENING" /\ Role(w) = "TO_SELF" ->
         [link EXCEPT !.heard = @ \cup {"TO"}]
    [] link.amd = "LISTENING" /\ Role(w) = "TIS_CALLER" /\ "TO" \in link.heard ->
         [link EXCEPT !.heard = @ \cup {"TIS"}]
    [] OTHER -> link

\* An extension that comes later than 2 x Trw after the word before it does not
\* belong to the termination frame any more.
HearInLinked(w) ==
  /\ link' \in {LinkedWord(w)} \cup (IF Role(w) = "DATA_EXTENSION" THEN {link}
                                      ELSE {})
  /\ hs' = Heard
  /\ Unmoved /\ UNCHANGED <<phase, call, sweep, tx>>

ReceiveWord(w) ==
  /\ \/ state \in Available /\ HearInAvailable(w)
     \/ state = "CALLING" /\ HearInCalling(w)
     \/ state = "HANDSHAKE" /\ HearInHandshake(w)
     \/ state = "LINKED" /\ HearInLinked(w)
     \/ state = "SOUNDING" /\ HearInSounding(w)
  /\ UNCHANGED <<broadcasting, scan_c>>

\* A variant for mutation: one error more is tolerated.
TooManyErrorsLate(n) == n > MaxErrors + 1

TooManyErrors(n) == n > MaxErrors

\* on_invalid_word_(): a word that could not be decoded.
ReceiveInvalidWord ==
  /\ \/ /\ In("SOUNDING", "LBT")
        /\ SoundingComplete(tx)
     \/ /\ In("HANDSHAKE", "CHANNEL_CHECK")
        /\ LeaveLink(call, hs, link, tx) /\ UNCHANGED sweep
     \/ /\ In("HANDSHAKE", "WAIT_CYCLE_END")
        /\ IF TooManyErrors(hs.errors + 1)
           THEN LeaveLink(call, hs, link, tx)
           ELSE /\ hs' = [hs EXCEPT !.errors = @ + 1]
                /\ Unmoved /\ UNCHANGED <<phase, call, link, tx>>
        /\ UNCHANGED sweep
  /\ UNCHANGED <<broadcasting, scan_c>>

-----------------------------------------------------------------------------
(***************************************************************************)
(* Requests of the layer above. Each is refused outside its states.        *)
(***************************************************************************)
\* initiate_call() and initiate_group_call(): to is the target or the first
\* member, amd what the pending message asks for, left the channels to fall
\* back on.
PlaceCall(to, group, amd, left) ==
  /\ state \in Available
  /\ TransitionTo("CALLING",
       [call EXCEPT !.to = to, !.group = group, !.amd = amd, !.left = left,
                    !.scan = 2 * scan_c'],
       hs, link, tx)

RequestSounding(channels) ==
  /\ state \in Available
  /\ sweep' = IF channels = 0 THEN sweep ELSE channels
  /\ TransitionTo("SOUNDING", call, hs, link, tx)

\* send_allcall_broadcast(): a burst without leaving IDLE or SCANNING.
BroadcastWords(c) == 2 * c + LeadWords + MsgWords + ConcWords

SendBroadcast ==
  /\ state \in Available /\ ~broadcasting
  /\ broadcasting' = TRUE
  /\ tx' = ArmDrain(Transmit(BroadcastWords(scan_c'), RxOff(tx)))
  /\ Unmoved /\ UNCHANGED <<phase, call, hs, link, sweep>>

\* A variant for mutation: the drain deadline is not armed.
TerminateLinkUnarmed ==
  /\ state = "LINKED"
  /\ link' = [link EXCEPT !.term = TRUE]
  /\ tx' = RxOff(Transmit(FrameWords, tx))
  /\ Unmoved /\ Rest /\ UNCHANGED <<phase, call, hs>>

\* terminate_link(): the words go out before the receiver is switched off.
TerminateLink ==
  /\ state = "LINKED"
  /\ link' = [link EXCEPT !.term = TRUE]
  /\ tx' = ArmDrain(RxOff(Transmit(FrameWords, tx)))
  /\ Unmoved /\ Rest /\ UNCHANGED <<phase, call, hs>>

\* trigger_linked_orderwire(), send_linked_amd(), respond_to_linked_amd().
LinkedRequest == state = "LINKED" /\ ~link.term

TriggerOrderwire ==
  /\ LinkedRequest
  /\ link' = [link EXCEPT !.owPending = "EFS"]
  /\ Unmoved /\ Rest /\ UNCHANGED <<phase, call, hs, tx>>

SendLinkedAmd ==
  /\ LinkedRequest
  /\ link' = [link EXCEPT !.owPending = "AMD", !.amd = "LISTENING",
                          !.listen = FALSE, !.heard = {},
                          !.attempts = MaxAttempts, !.due = TRUE]
  /\ Unmoved /\ Rest /\ UNCHANGED <<phase, call, hs, tx>>

RespondToLinkedAmd ==
  /\ LinkedRequest
  /\ link' = [link EXCEPT !.owPending = "RESPONSE", !.amd = "RESPONDING"]
  /\ Unmoved /\ Rest /\ UNCHANGED <<phase, call, hs, tx>>

\* emergency_manual_control(): say good-bye when linked, and go to IDLE.
SaysGoodbye == state = "LINKED" /\ ~link.term /\ call.to # <<>>

EmergencyTx(t) ==
  TxAfter("IDLE", IF SaysGoodbye THEN Transmit(FrameWords, t) ELSE t)

EmergencyMoves ==
  Moves("IDLE", call, hs, link)
==============================================================================
