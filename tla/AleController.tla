---------------------------- MODULE AleController ----------------------------
(***************************************************************************)
(* One station: the controller (ALEController) drives the link state       *)
(* machine from its main loop, forwards decoded words and rendered frames  *)
(* to it, and carries out the operator's commands.                         *)
(*                                                                         *)
(* All of this happens on one thread, so every action is one call into the *)
(* state machine; what interleaves freely is the order of the calls: ticks,*)
(* words from the radio, frames the audio device has rendered, commands.   *)
(***************************************************************************)
EXTENDS AleStateMachine

CONSTANTS
  Targets,    \* addresses the operator calls
  ScanWidths, \* call widths C the stores resolve to
  Commands,   \* the operator commands of this instance
  MaxQueue    \* bound on the words waiting to be rendered

ASSUME ControllerAssumption ==
  /\ Targets \subseteq Seq(Chunks) \ {<<>>}
  /\ ScanWidths \subseteq Nat
  /\ MaxQueue \in Nat

VARIABLE
  pending_amd   \* pending_message of the state machine

vars == <<state, previous_state, pre_link_state, phase, call, hs, link,
          sweep, broadcasting, scan_c, tx, pending_amd>>

Init == SMInit /\ pending_amd = "NONE"

-----------------------------------------------------------------------------
(***************************************************************************)
(* The main loop: ALEController::update().                                 *)
(***************************************************************************)
PttLeadElapsed ==
  /\ tx.lead
  /\ tx' = FlushLead(tx)
  /\ Unmoved /\ Rest /\ UNCHANGED <<phase, call, hs, link>>

PttTailElapsed ==
  /\ tx.tail /\ ~tx.manual
  /\ tx' = Release(tx)
  /\ Unmoved /\ Rest /\ UNCHANGED <<phase, call, hs, link>>

\* tick_sm(): a transmission that was refused on a receive-only channel is
\* aborted before the state machine is updated.
AbortTx ==
  /\ tx.abort
  /\ EmergencyMoves
  /\ tx' = EmergencyTx([tx EXCEPT !.abort = FALSE])
  /\ Rest

CallingTick ==
  \/ CallingLbtBusy \/ CallingLbtClear \/ CallingTuned \/ CallingNoResponse
  \/ CallingResponseSettled \/ CallingBuildAck \/ CallingAckStalled
  \/ CallingBudgetSpent

HandshakeTick ==
  \/ HandshakeSilence \/ HandshakeMessageTooLong \/ HandshakeDeclined
  \/ HandshakeAllCallSettled \/ HandshakeCallSettled
  \/ HandshakeSlotReached \/ HandshakeChannelBusy \/ HandshakeRespond
  \/ HandshakeResponseStalled \/ HandshakeNoAck \/ HandshakeAckSettled
  \/ HandshakeBudgetSpent

LinkedTick ==
  \/ LinkedTerminationStalled \/ LinkedOrderwireStalled \/ LinkedPeerTerminated
  \/ LinkedForeignTwas \/ LinkedOrderwireStart \/ LinkedAmdRetryDue
  \/ LinkedAmdNoResponse \/ LinkedAmdResponseSettled \/ LinkedAmdAckWaited
  \/ LinkedInactive \/ LinkedBackstop

SoundingTick ==
  SoundingLbtBusy \/ SoundingTransmit \/ SoundingSent \/ SoundingWindowClosed

TickSm ==
  /\ ~tx.abort
  /\ \/ CallingTick \/ HandshakeTick \/ LinkedTick \/ SoundingTick
     \/ ScanPauseOver \/ BroadcastStalled

MainLoop ==
  /\ PttLeadElapsed \/ PttTailElapsed \/ AbortTx \/ TickSm
  /\ UNCHANGED pending_amd

-----------------------------------------------------------------------------
(***************************************************************************)
(* The radio: words that were decoded, frames that were rendered.          *)
(***************************************************************************)
WordDecoded ==
  /\ tx.demod
  /\ (\E w \in Words : ReceiveWord(w)) \/ ReceiveInvalidWord
  /\ UNCHANGED pending_amd

\* The audio device reports each word it has played, in the order of the words.
WordRendered ==
  /\ tx.air > 0
  /\ OnWordComplete([tx EXCEPT !.air = @ - 1])
  /\ UNCHANGED pending_amd

-----------------------------------------------------------------------------
(***************************************************************************)
(* Commands. What a command writes before the state machine refuses it     *)
(* stays written.                                                          *)
(***************************************************************************)
Offered(command) == command \in Commands

StartAvailable ==
  /\ Offered("AVAILABLE")
  /\ LET t == [tx EXCEPT !.demod = TRUE]
     IN  IF state = "SCANNING" THEN TransitionTo("IDLE", call, hs, link, t)
         ELSE tx' = t /\ Unmoved /\ UNCHANGED <<phase, call, hs, link>>
  /\ Rest /\ UNCHANGED pending_amd

StartScanning ==
  /\ Offered("SCAN") /\ state = "IDLE"
  /\ TransitionTo("SCANNING", call, hs, link, tx)
  /\ Rest /\ UNCHANGED pending_amd

\* The channel list and the call width are set, then the call is requested.
RequestCall(to, group, amd, left) ==
  /\ scan_c' \in ScanWidths
  /\ \/ /\ PlaceCall(to, group, amd, left)
        /\ pending_amd' = "NONE"
     \/ /\ state \notin Available
        /\ call' = IF state = "CALLING" THEN [call EXCEPT !.left = left] ELSE call
        /\ pending_amd' = amd
        /\ Unmoved /\ UNCHANGED <<phase, hs, link, tx>>
  /\ UNCHANGED <<sweep, broadcasting>>

InitiateCall ==
  /\ Offered("CALL") /\ ~broadcasting
  /\ \E to \in Targets : RequestCall(to, FALSE, pending_amd, NumChannels - 1)

InitiateSingleChannelCall ==
  /\ Offered("SINGLE_CALL")
  /\ \E to \in Targets : RequestCall(to, FALSE, pending_amd, 0)

InitiateGroupCall ==
  /\ Offered("GROUP_CALL")
  /\ \E to \in Targets : RequestCall(to, TRUE, pending_amd, NumChannels - 1)

\* send_amd() when not linked: the message is queued, then a call is placed.
\* A refused call leaves the message queued.
SendAmd ==
  /\ Offered("AMD") /\ state # "LINKED"
  /\ \E to \in Targets, amd \in {"LINK", "NO_LINK"} :
       \/ ~broadcasting /\ RequestCall(to, FALSE, amd, NumChannels - 1)
       \/ broadcasting /\ pending_amd' = amd /\ UNCHANGED smVars

\* The peer a linked AMD is addressed to, active_peer().
ActivePeer == IF call.peer # <<>> THEN call.peer ELSE hs.caller

SendAmdLinked ==
  /\ Offered("LINKED_AMD") /\ ActivePeer # <<>>
  /\ SendLinkedAmd
  /\ UNCHANGED pending_amd

\* A complete AMD was received over the link: reply_to_linked_amd_().
LinkedAmdReceived ==
  /\ Offered("AMD_RECEIVED") /\ tx.demod /\ ActivePeer # <<>>
  /\ RespondToLinkedAmd
  /\ UNCHANGED pending_amd

\* FreqSelectManager::send_orderwire().
ProposeFrequency ==
  /\ Offered("EFS")
  /\ TriggerOrderwire
  /\ UNCHANGED pending_amd

Terminate ==
  /\ Offered("TERMINATE")
  /\ TerminateLink
  /\ UNCHANGED pending_amd

SendSounding ==
  /\ Offered("SOUND")
  /\ scan_c' \in ScanWidths
  /\ \/ RequestSounding(0)
     \/ /\ state \notin Available
        /\ Unmoved /\ UNCHANGED <<phase, call, hs, link, tx, sweep>>
  /\ UNCHANGED <<broadcasting, pending_amd>>

SendSoundingSweep ==
  /\ Offered("SWEEP")
  /\ scan_c' \in ScanWidths
  /\ \/ ~broadcasting /\ \E n \in 1..MaxSweep : RequestSounding(n)
     \/ /\ ~(state \in Available /\ ~broadcasting)
        /\ Unmoved /\ UNCHANGED <<phase, call, hs, link, tx, sweep>>
  /\ UNCHANGED <<broadcasting, pending_amd>>

BroadcastPositionReport ==
  /\ Offered("BROADCAST") /\ ~broadcasting
  /\ scan_c' \in ScanWidths
  /\ \/ SendBroadcast
     \/ /\ state \notin Available
        /\ Unmoved /\ UNCHANGED <<phase, call, hs, link, tx, sweep, broadcasting>>
  /\ UNCHANGED pending_amd

\* emergency_stop(): stop the state machine, flush the modulator, release.
EmergencyStop ==
  /\ Offered("EMERGENCY")
  /\ EmergencyMoves
  /\ \E kept \in 0..1 :
       LET stopped == EmergencyTx(tx)
       IN  kept <= stopped.air /\ tx' = Flushed(kept, stopped)
  /\ Rest /\ UNCHANGED pending_amd

\* The operator keys the radio. A call, handshake or sounding is given up; a
\* link stays.
PressPtt ==
  /\ Offered("PTT") /\ ~RxOnly
  /\ IF state \in {"CALLING", "HANDSHAKE", "SOUNDING"}
     THEN EmergencyMoves /\ tx' = EmergencyTx(ManualOn(tx))
     ELSE tx' = ManualOn(tx) /\ Unmoved /\ UNCHANGED <<phase, call, hs, link>>
  /\ Rest /\ UNCHANGED pending_amd

ReleasePtt ==
  /\ Offered("PTT")
  /\ tx' = ManualOff(tx)
  /\ Unmoved /\ Rest /\ UNCHANGED <<phase, call, hs, link, pending_amd>>

Command ==
  \/ StartAvailable \/ StartScanning \/ InitiateCall
  \/ InitiateSingleChannelCall \/ InitiateGroupCall \/ SendAmd \/ SendAmdLinked
  \/ LinkedAmdReceived \/ ProposeFrequency \/ Terminate \/ SendSounding
  \/ SendSoundingSweep \/ BroadcastPositionReport \/ EmergencyStop
  \/ PressPtt \/ ReleasePtt

-----------------------------------------------------------------------------
\* The modulator's queue is bounded, and so is the count of awaited words.
WithinQueue == tx'.air + tx'.buf =< MaxQueue /\ tx'.pending =< MaxQueue

Step == MainLoop \/ WordDecoded \/ WordRendered \/ Command

Next == Step /\ WithinQueue

Spec == Init /\ [][Next]_vars

(***************************************************************************)
(* Fairness. update() runs at every turn of the main loop and the clock    *)
(* advances, so a deadline that stays armed passes and is acted upon.      *)
(* Nothing makes the audio device render: that it does is an assumption of *)
(* its own.                                                                *)
(***************************************************************************)
Deadlines ==
  /\ WF_vars(PttLeadElapsed /\ Next) /\ WF_vars(AbortTx /\ Next)
  /\ WF_vars(CallingBudgetSpent /\ Next) /\ WF_vars(HandshakeBudgetSpent /\ Next)
  /\ WF_vars(LinkedTerminationStalled /\ Next)
  /\ WF_vars(LinkedOrderwireStalled /\ Next)
  /\ WF_vars(SoundingTick /\ Next) /\ WF_vars(BroadcastStalled /\ Next)

DeadAudioSpec == Spec /\ Deadlines

LiveAudioSpec == Spec /\ Deadlines /\ WF_vars(WordRendered /\ Next)

-----------------------------------------------------------------------------
(***************************************************************************)
(* Properties.                                                             *)
(***************************************************************************)
\* Every variable has the type its declaration in the code gives it; a link is
\* only ever left for IDLE, SCANNING or SOUNDING, and a handshake is given up
\* before it has counted more errors than it tolerates.
TypeOK ==
  /\ state \in States
  /\ previous_state \in States
  /\ pre_link_state \in Available \cup {"SOUNDING"}
  /\ phase \in Phases[state]
  /\ call \in Calls
  /\ hs \in Handshakes
  /\ link \in Links
  /\ sweep \in Nat
  /\ broadcasting \in BOOLEAN
  /\ scan_c \in Nat
  /\ tx \in TxPaths
  /\ pending_amd \in Amds

\* The station never decodes what it transmits itself: while the radio is keyed
\* the demodulator is off ("SM disables RX during TX phases", wire_callbacks).
HalfDuplex == ~(tx.ptt /\ tx.demod)

\* No stuck transmitter: a keyed radio has the operator's hand on it, or the
\* state machine wants to transmit, or the PTT tail is about to release it.
PttJustified == tx.ptt => tx.manual \/ ~tx.rx \/ tx.tail

\* What is sent is sent over the air: as long as the modulator has words the
\* radio is keyed and has settled.  Words are held in pending_tx_words_ while
\* the PTT lead runs, and a tail left over from the burst before does not unkey
\* (rx_enabled and transmit callbacks, tick_ptt_timing).
KeyedWhileSending == tx.air > 0 => tx.ptt /\ ~tx.lead

\* words_pending is exact: it counts the words of the current burst that the
\* audio device has not rendered, so no phase ends too early or never.
WordsAccounted == tx.pending = tx.air + tx.buf

\* The receiver is opened only after the last word of a burst has left: no
\* window for the peer's answer runs while the own frame is on the air.
ReceivesOnlyWhenSilent == tx.rx => tx.air = 0 /\ tx.buf = 0

\* Words that are left in the current phase of a call and in the later ones.
WordsToGo ==
  LET message == IF call.amd = "NONE" THEN 0 ELSE MsgWords
      later   == CASE phase \in {"SCANNING_CALL", "GROUP_SCANNING_CALL"} ->
                        LeadWords + message + ConcWords
                   [] phase = "LEADING_CALL" -> ConcWords
                   [] OTHER -> 0
  IN  PhaseWords - call.cycles + later

\* The phases of a call, which on_word_complete() derives by counting, stay in
\* step with the sequence that was queued at the end of the tuning.
CallPhaseInStep ==
  state = "CALLING" /\ phase \in CallingTxPhases => tx.pending = WordsToGo

\* Whenever the state machine waits for its own burst to end and no budget of a
\* call bounds the wait, the drain deadline is armed (handle_linked,
\* SENDING_RESPONSE, SENDING_ACK).
WaitIsBounded ==
  /\ \/ state = "LINKED" /\ (link.term \/ link.owTx)
     \/ In("HANDSHAKE", "SENDING_RESPONSE")
     \/ In("CALLING", "SENDING_ACK")
  /\ tx.pending > 0
  => tx.drain

\* A call is linked by all three frames: the caller has heard the whole response
\* and has put the last word of its ACK on the air, the responder has sent its
\* whole response and heard the ACK; only an AllCall links without.
LinkedByThreeFrames ==
  [][state # "LINKED" /\ state' = "LINKED" =>
       /\ \/ state = "CALLING" /\ call.heard = {"TO", "TIS"} /\ tx.air = 1
          \/ state = "HANDSHAKE" /\ (hs.silent \/ "TIS" \in hs.heard)
       /\ tx'.air = 0 /\ tx'.buf = 0]_vars

\* A station that was called links with the station that called it, under the whole
\* address that was collected (enter_state, LINKED). The group flag of an earlier
\* call of its own is not cleared and would make it keep that call's responder.
LinkedWithCaller ==
  [][state = "HANDSHAKE" /\ state' = "LINKED" /\ ~call.group
       => hs.caller # <<>> /\ call'.to = hs.caller]_vars

\* The caller of an individual call is linked with whom it called ("active_call_to
\* already = target address", enter_state).
CalleeKept ==
  [][state = "CALLING" /\ state' = "LINKED" /\ ~call.group
       => call'.to = call.to]_vars

\* handle_linked() never sees a burst under way with nothing left to send: it
\* relies on on_word_complete() to have ended the burst.
BurstHasWords == state = "LINKED" /\ link.owTx => tx.pending > 0

\* A receive-only channel is never transmitted on, and stays received
\* (Direction=RX: "a hard TX prohibition").
ReceiveOnly == RxOnly => ~tx.ptt /\ tx.demod

\* The receiver does not stay off: whatever was being sent ends or is given up.
ReceiverReturns == ~tx.rx ~> tx.rx

\* Every call and every handshake ends, linked or available again.
AttemptEnds ==
  state \in {"CALLING", "HANDSHAKE"} ~> state \in Available \cup {"LINKED"}

\* A broadcast ends, so that calls and further broadcasts are accepted again
\* ("force-recovering", update()).
BroadcastEnds == broadcasting ~> ~broadcasting

\* A sounding ends ("no dead state", enter_state).
SoundingEnds == state = "SOUNDING" ~> state # "SOUNDING"
==============================================================================
