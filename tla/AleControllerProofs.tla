------------------------- MODULE AleControllerProofs -------------------------
(***************************************************************************)
(* Safety of one station for every value of the constants: the type        *)
(* invariant, and what the transmit path promises whatever the order of    *)
(* ticks, words, rendered frames and commands.                             *)
(*                                                                         *)
(* No handler writes the transmit path directly: each composes operations  *)
(* of AleTxPath.  The first lemmas say of each operation what it returns   *)
(* and preserves; a step of the station then takes tx to a path that they  *)
(* relate to it by Keeps, whatever the order in which the handler composes *)
(* the operations.                                                         *)
(***************************************************************************)
EXTENDS AleController, TLAPS

(* The operations of the transmit path *)


\* The station does not hear itself.
Duplex(t) == ~(t.ptt /\ t.demod)

\* A keyed radio has a reason to be keyed.
Justified(t) == t.ptt => t.manual \/ ~t.rx \/ t.tail

\* A receive-only channel is listened to and never keyed by anybody.
Listens(t) == RxOnly => ~t.ptt /\ t.demod /\ ~t.manual

\* What a step from path t to path u must respect.
Keeps(t, u) ==
  /\ u \in TxPaths
  /\ Duplex(t) => Duplex(u)
  /\ Justified(t) => Justified(u)
  /\ Listens(t) => Listens(u)

\* Composing two steps: the way the handlers string the calls together.
LEMMA KeepsTransitive ==
  ASSUME NEW t, NEW u, NEW v, Keeps(t, u), Keeps(u, v)
  PROVE  Keeps(t, v)
BY DEF Keeps

\* A step that leaves the path alone.
LEMMA KeepsSame ==
  ASSUME NEW t \in TxPaths
  PROVE  Keeps(t, t)
BY DEF Keeps

\* The station starts out receiving, with nothing keyed.
LEMMA TxInitGood ==
  TxInit \in TxPaths /\ Duplex(TxInit) /\ Justified(TxInit) /\ Listens(TxInit)
BY DEF TxInit, TxPaths, Duplex, Justified, Listens

\* None of the three depends on the word counts, the drain deadline, the lead
\* or the note of a refused transmission.
LEMMA KeepsBookkeeping ==
  ASSUME NEW t \in TxPaths, NEW p \in Nat, NEW a \in Nat, NEW b \in Nat
  PROVE  /\ Keeps(t, [t EXCEPT !.pending = p])
         /\ Keeps(t, [t EXCEPT !.air = a])
         /\ Keeps(t, [t EXCEPT !.abort = FALSE])
         /\ Keeps(t, [t EXCEPT !.pending = p, !.drain = FALSE])
         /\ Keeps(t, [t EXCEPT !.drain = FALSE, !.pending = p])
         /\ Keeps(t, [t EXCEPT !.pending = p, !.buf = b])
         /\ Keeps(t, [t EXCEPT !.pending = p, !.air = a])
         /\ Keeps(t, [t EXCEPT !.lead = FALSE, !.air = a, !.buf = b])
BY DEF Keeps, TxPaths, Duplex, Justified, Listens

\* set_ptt_and_notify(false) with the demodulator back on.
LEMMA KeepsRelease ==
  ASSUME NEW t \in TxPaths
  PROVE  Keeps(t, Release(t))
<1>1. Release(t) \in TxPaths
  BY DEF Release, TxPaths
<1>2. /\ Release(t).ptt = FALSE
      /\ Release(t).demod = TRUE
      /\ Release(t).manual = t.manual
  BY DEF Release, TxPaths
<1>3. QED
  BY <1>1, <1>2 DEF Keeps, Duplex, Justified, Listens

\* The rx_enabled callback with true.
LEMMA KeepsRxOn ==
  ASSUME NEW t \in TxPaths
  PROVE  Keeps(t, RxOn(t))
<1> DEFINE asked == [t EXCEPT !.rx = TRUE]
           ended == [asked EXCEPT !.lead = FALSE, !.buf = 0]
           waits == [ended EXCEPT !.tail = TRUE]
<1>1. CASE t.rx
  BY <1>1, KeepsSame DEF RxOn
<1>2. CASE ~t.rx /\ t.manual
  <2>1. Keeps(t, asked)
    BY <1>2 DEF Keeps, TxPaths, Duplex, Justified, Listens
  <2>2. QED BY <1>2, <2>1 DEF RxOn
<1>3. CASE ~t.rx /\ ~t.manual /\ HasTail
  <2>1. Keeps(t, waits)
    BY <1>3 DEF Keeps, TxPaths, Duplex, Justified, Listens
  <2>2. QED BY <1>3, <2>1 DEF RxOn
<1>4. CASE ~t.rx /\ ~t.manual /\ ~HasTail
  <2>1. ended \in TxPaths /\ ended.manual = t.manual
    BY DEF TxPaths
  <2>2. Keeps(t, Release(ended))
    <3>1. Release(ended) \in TxPaths
      BY <2>1, KeepsRelease DEF Keeps
    <3>2. /\ Release(ended).ptt = FALSE
          /\ Release(ended).demod = TRUE
          /\ Release(ended).manual = t.manual
      BY <2>1 DEF Release, TxPaths
    <3>3. QED BY <3>1, <3>2 DEF Keeps, Duplex, Justified, Listens
  <2>3. QED BY <1>4, <2>2 DEF RxOn
<1>5. QED BY <1>1, <1>2, <1>3, <1>4

\* The rx_enabled callback with false.
LEMMA KeepsRxOff ==
  ASSUME NEW t \in TxPaths
  PROVE  Keeps(t, RxOff(t))
<1> DEFINE asked == [t EXCEPT !.rx = FALSE]
           keyed == [asked EXCEPT !.tail = FALSE, !.demod = FALSE,
                                  !.ptt = TRUE, !.lead = HasLead]
<1>1. CASE ~t.rx
  BY <1>1, KeepsSame DEF RxOff
<1>2. CASE t.rx /\ t.manual
  <2>1. Keeps(t, [asked EXCEPT !.demod = FALSE])
    BY <1>2 DEF Keeps, TxPaths, Duplex, Justified, Listens
  <2>2. QED BY <1>2, <2>1 DEF RxOff
<1>3. CASE t.rx /\ ~t.manual /\ RxOnly
  <2>1. Keeps(t, [asked EXCEPT !.abort = TRUE])
    BY <1>3 DEF Keeps, TxPaths, Duplex, Justified, Listens
  <2>2. QED BY <1>3, <2>1 DEF RxOff
<1>4. CASE t.rx /\ ~t.manual /\ ~RxOnly
  <2>1. Keeps(t, keyed)
    BY <1>4, TxPathAssumption DEF Keeps, TxPaths, Duplex, Justified, Listens
  <2>2. QED BY <1>4, <2>1 DEF RxOff
<1>5. QED BY <1>1, <1>2, <1>3, <1>4

\* transmit_words(): the words are counted and go one of two ways.
LEMMA KeepsTransmit ==
  ASSUME NEW t \in TxPaths, NEW n \in Nat
  PROVE  Keeps(t, Transmit(n, t))
<1>1. t.pending + n \in Nat /\ t.buf + n \in Nat /\ t.air + n \in Nat
  BY DEF TxPaths
<1>2. QED
  BY <1>1, KeepsBookkeeping DEF Transmit

\* The drain deadline is armed or cleared.
LEMMA KeepsDrain ==
  ASSUME NEW t \in TxPaths
  PROVE  Keeps(t, ArmDrain(t)) /\ Keeps(t, DisarmDrain(t))
BY DEF ArmDrain, DisarmDrain, Keeps, TxPaths, Duplex, Justified, Listens

\* One word less to wait for.
LEMMA KeepsCompleted ==
  ASSUME NEW t \in TxPaths
  PROVE  Keeps(t, Completed(t))
<1>1. (IF t.pending > 0 THEN t.pending - 1 ELSE 0) \in Nat
  BY DEF TxPaths
<1>2. QED
  BY <1>1, KeepsBookkeeping DEF Completed

\* The PTT lead has elapsed.
LEMMA KeepsFlushLead ==
  ASSUME NEW t \in TxPaths
  PROVE  Keeps(t, FlushLead(t))
<1>1. t.air + t.buf \in Nat
  BY DEF TxPaths
<1>2. QED
  BY <1>1, KeepsBookkeeping DEF FlushLead

\* The operator presses the PTT, which a receive-only channel refuses.
LEMMA KeepsManualOn ==
  ASSUME NEW t \in TxPaths, ~RxOnly
  PROVE  Keeps(t, ManualOn(t))
BY DEF ManualOn, Keeps, TxPaths, Duplex, Justified, Listens

\* The operator releases the PTT.
LEMMA KeepsManualOff ==
  ASSUME NEW t \in TxPaths
  PROVE  Keeps(t, ManualOff(t))
BY DEF ManualOff, Keeps, TxPaths, Duplex, Justified, Listens

\* emergency_stop() after the state machine was stopped.
LEMMA KeepsFlushed ==
  ASSUME NEW t \in TxPaths, NEW kept \in Nat
  PROVE  Keeps(t, Flushed(kept, t))
BY DEF Flushed, Keeps, TxPaths, Duplex, Justified, Listens

-----------------------------------------------------------------------------
(* The station *)

\* The type invariant without the transmit path and the message queue.
LinkTyped ==
  /\ state \in States
  /\ previous_state \in States
  /\ pre_link_state \in Available \cup {"SOUNDING"}
  /\ phase \in Phases[state]
  /\ call \in Calls
  /\ hs \in Handshakes
  /\ link \in Links

RestTyped ==
  /\ sweep \in Nat
  /\ broadcasting \in BOOLEAN
  /\ scan_c \in Nat

\* What every step but StartAvailable must establish.
StepGood == LinkTyped' /\ RestTyped' /\ Keeps(tx, tx')

-----------------------------------------------------------------------------
\* The constants are numbers.
LEMMA Numbers ==
  /\ LeadWords \in Nat /\ MsgWords \in Nat /\ ConcWords \in Nat
  /\ FrameWords \in Nat /\ OwWords \in Nat /\ MaxErrors \in Nat
  /\ NumChannels \in Nat \ {0} /\ MaxSweep \in Nat /\ MaxAttempts \in Nat \ {0}
BY StateMachineAssumption

\* An address may be unknown.
LEMMA EmptyAddr == <<>> \in Addrs
BY DEF Addrs

\* The bursts have a length.
LEMMA BurstLengths ==
  /\ \A c \in Calls : CallWords(c) \in Nat
  /\ scan_c \in Nat => SoundingWords \in Nat
  /\ \A width \in Nat : BroadcastWords(width) \in Nat
<1>1. ASSUME NEW c \in Calls PROVE CallWords(c) \in Nat
  BY Numbers DEF CallWords, Calls
<1>2. scan_c \in Nat => SoundingWords \in Nat
  BY Numbers DEF SoundingWords
<1>3. ASSUME NEW width \in Nat PROVE BroadcastWords(width) \in Nat
  BY Numbers DEF BroadcastWords
<1>4. QED BY <1>1, <1>2, <1>3

\* enter_state() sets the sub-phase of the new state to one of its own.
LEMMA EntryPhaseTyped ==
  ASSUME NEW new \in States
  PROVE  EntryPhase[new] \in Phases[new]
BY DEF States, EntryPhase, Phases, CallingTxPhases

\* The resets of enter_state() yield records of the same type.
LEMMA EnterTyped ==
  ASSUME NEW new \in States, NEW c \in Calls, NEW h \in Handshakes,
         NEW l \in Links
  PROVE  /\ EnterCall(new, c, h) \in Calls
         /\ EnterHs(new, h) \in Handshakes
         /\ EnterLink(l) \in Links
<1>1. EnterCall(new, c, h) \in Calls
  <2> DEFINE left == IF state = "LINKED" THEN [c EXCEPT !.to = <<>>] ELSE c
             rest == [left EXCEPT !.cycles = 0, !.heard = {},
                                  !.collecting = FALSE]
  <2>1. <<>> \in Addrs
    BY EmptyAddr
  <2>2. left \in Calls
    BY <2>1 DEF Calls
  <2>3. rest \in Calls
    BY <2>2 DEF Calls
  <2>4. BoundPeer(left, h) \in Addrs
    BY <2>2 DEF BoundPeer, Calls, Handshakes
  <2> HIDE DEF left
  <2>5. OutOfCall(rest) \in Calls
    BY <2>3 DEF OutOfCall, Calls, Amds
  <2> HIDE DEF rest
  <2>6. /\ [rest EXCEPT !.peer = <<>>] \in Calls
        /\ [OutOfCall(rest) EXCEPT !.to = BoundPeer(left, h)] \in Calls
        /\ [OutOfCall(rest) EXCEPT !.to = <<>>] \in Calls
    BY <2>1, <2>3, <2>4, <2>5 DEF Calls
  <2>7. QED
    BY <2>5, <2>6 DEF EnterCall, left, rest
<1>2. EnterHs(new, h) \in Handshakes
  <2> DEFINE rest == [h EXCEPT !.concl = "NONE", !.msg = FALSE, !.heard = {},
                               !.errors = 0]
  <2>1. <<>> \in Addrs
    BY EmptyAddr
  <2>2. 0 \in 0..MaxErrors
    BY Numbers
  <2>3. rest \in Handshakes
    BY <2>2 DEF Handshakes
  <2> HIDE DEF rest
  <2>4. /\ [rest EXCEPT !.caller = <<>>] \in Handshakes
        /\ [rest EXCEPT !.silent = FALSE] \in Handshakes
    BY <2>1, <2>3 DEF Handshakes
  <2>5. QED
    BY <2>3, <2>4 DEF EnterHs, rest
<1>3. EnterLink(l) \in Links
  <2>1. <<>> \in Addrs
    BY EmptyAddr
  <2>2. 0 \in 0..MaxAttempts
    BY Numbers
  <2>3. QED
    BY <2>1, <2>2 DEF EnterLink, Links, AmdPhases
<1>4. QED BY <1>1, <1>2, <1>3

\* A transition keeps the type invariant. Only IDLE, SCANNING and SOUNDING are
\* left for a call or a handshake.
LEMMA MovesTyped ==
  ASSUME TypeOK, NEW new \in States, NEW c \in Calls, NEW h \in Handshakes,
         NEW l \in Links,
         new \in {"CALLING", "HANDSHAKE"} => state \in Available \cup {"SOUNDING"},
         Moves(new, c, h, l)
  PROVE  LinkTyped'
<1>1. CASE new = state
  BY <1>1 DEF Moves, TypeOK, LinkTyped
<1>2. CASE new # state
  BY <1>2, EntryPhaseTyped, EnterTyped DEF Moves, TypeOK, LinkTyped
<1>3. QED BY <1>1, <1>2

\* The transmit path after a transition.
LEMMA KeepsTxAfter ==
  ASSUME NEW t \in TxPaths, NEW new
  PROVE  Keeps(t, TxAfter(new, t))
<1> DEFINE cleared == [t EXCEPT !.pending = 0, !.drain = FALSE]
<1>1. Keeps(t, cleared)
  BY KeepsBookkeeping
<1>2. cleared \in TxPaths
  BY <1>1 DEF Keeps
<1> HIDE DEF cleared
<1>3. Keeps(t, RxOn(cleared))
  BY <1>1, <1>2, KeepsRxOn, KeepsTransitive
<1>4. QED
  BY <1>3, KeepsSame DEF TxAfter, EnterTx, cleared

\* A transition of a handler that had already gone from path tx to path t.
LEMMA TransitionGood ==
  ASSUME TypeOK, NEW new \in States, NEW c \in Calls, NEW h \in Handshakes,
         NEW l \in Links, NEW t,
         new \in {"CALLING", "HANDSHAKE"} => state \in Available \cup {"SOUNDING"},
         Keeps(tx, t), TransitionTo(new, c, h, l, t)
  PROVE  LinkTyped' /\ Keeps(tx, tx')
<1>1. LinkTyped'
  BY MovesTyped DEF TransitionTo
<1>2. Keeps(t, tx')
  BY KeepsTxAfter DEF TransitionTo, Keeps
<1>3. QED BY <1>1, <1>2, KeepsTransitive

\* The same for the events that leave a link, a call or a handshake.
LEMMA LeaveLinkGood ==
  ASSUME TypeOK, NEW c \in Calls, NEW h \in Handshakes, NEW l \in Links, NEW t,
         Keeps(tx, t), LeaveLink(c, h, l, t)
  PROVE  LinkTyped' /\ Keeps(tx, tx')
<1>1. pre_link_state \in States /\ pre_link_state \notin {"CALLING", "HANDSHAKE"}
  BY DEF TypeOK, States, Available
<1>2. QED BY <1>1, TransitionGood DEF LeaveLink

\* The other direction: a link is established.
LEMMA EstablishedGood ==
  ASSUME TypeOK, NEW c \in Calls, NEW h \in Handshakes, NEW l \in Links, NEW t,
         Keeps(tx, t), Established(c, h, l, t)
  PROVE  LinkTyped' /\ Keeps(tx, tx')
BY TransitionGood DEF Established, States

\* What most steps leave alone.
LEMMA StaysGood ==
  ASSUME TypeOK
  PROVE  /\ Keeps(tx, tx)
         /\ Rest => RestTyped'
         /\ Unmoved /\ UNCHANGED <<phase, call, hs, link>> => LinkTyped'
BY KeepsSame DEF TypeOK, Rest, RestTyped, Unmoved, LinkTyped

-----------------------------------------------------------------------------
\* handle_calling(): every outcome of a tick in CALLING.
LEMMA CallingTickGood ==
  ASSUME TypeOK, CallingTick
  PROVE  StepGood
<1> USE DEF StepGood
<1>1. TypeOK /\ tx \in TxPaths /\ call \in Calls /\ hs \in Handshakes /\ link \in Links
  BY DEF TypeOK
<1>2. ASSUME TryNextChannel(call, tx), state = "CALLING"
      PROVE  LinkTyped' /\ Keeps(tx, tx')
  <2>1. CASE call.left > 0
    <3>1. call.left - 1 \in Nat /\ <<>> \in Addrs
      BY <1>1, <2>1 DEF Calls, Addrs
    <3>2. [call EXCEPT !.left = @ - 1, !.cycles = 0, !.heard = {}, !.peer = <<>>]
            \in Calls
      BY <1>1, <3>1 DEF Calls
    <3>3. Keeps(tx, [tx EXCEPT !.pending = 0])
      BY <1>1, KeepsBookkeeping
    <3>4. QED
      BY <1>1, <1>2, <2>1, <3>2, <3>3
         DEF TryNextChannel, LinkTyped, TypeOK, Unmoved, Phases
  <2>2. CASE ~(call.left > 0)
    BY <1>1, <1>2, <2>2, StaysGood, LeaveLinkGood DEF TryNextChannel
  <2>3. QED BY <2>1, <2>2
<1>3. CASE CallingLbtBusy
  BY <1>2, <1>3, StaysGood DEF CallingLbtBusy, In
<1>4. CASE CallingLbtClear
  BY <1>1, <1>4, StaysGood, KeepsRxOff
     DEF CallingLbtClear, In, Unmoved, LinkTyped, TypeOK, Phases
<1>5. CASE CallingTuned
  <2>1. [call EXCEPT !.cycles = 0] \in Calls
    BY <1>1 DEF Calls
  <2>2. Keeps(tx, tx')
    BY <1>1, <1>5, BurstLengths, KeepsTransmit DEF CallingTuned
  <2>3. phase' \in Phases["CALLING"]
    BY <1>5 DEF CallingTuned, Phases, CallingTxPhases
  <2>4. QED
    BY <1>1, <1>5, <2>1, <2>2, <2>3, StaysGood
       DEF CallingTuned, In, Unmoved, LinkTyped, TypeOK
<1>6. CASE CallingNoResponse
  BY <1>2, <1>6, StaysGood DEF CallingNoResponse, In
<1>7. CASE CallingResponseSettled
  <2>1. [call EXCEPT !.cycles = 0, !.collecting = FALSE] \in Calls
    BY <1>1 DEF Calls
  <2>2. QED
    BY <1>1, <1>7, <2>1, StaysGood, KeepsRxOff
       DEF CallingResponseSettled, In, Unmoved, LinkTyped, TypeOK, Phases
<1>8. CASE CallingBuildAck
  <2>1. Keeps(tx, Transmit(FrameWords, tx))
    BY <1>1, Numbers, KeepsTransmit
  <2>2. Keeps(tx, tx')
    BY <1>8, <2>1, KeepsDrain, KeepsTransitive DEF CallingBuildAck, Keeps
  <2>3. QED
    BY <1>1, <1>8, <2>2, StaysGood DEF CallingBuildAck
<1>9. CASE CallingAckStalled
  BY <1>1, <1>9, StaysGood, KeepsDrain, LeaveLinkGood DEF CallingAckStalled
<1>10. CASE CallingBudgetSpent
  BY <1>1, <1>10, StaysGood, LeaveLinkGood DEF CallingBudgetSpent
<1>11. QED
  BY <1>3, <1>4, <1>5, <1>6, <1>7, <1>8, <1>9, <1>10 DEF CallingTick

\* handle_handshake(): every outcome of a tick in HANDSHAKE.
LEMMA HandshakeTickGood ==
  ASSUME TypeOK, HandshakeTick
  PROVE  StepGood
<1> USE DEF StepGood
<1>1. TypeOK /\ tx \in TxPaths /\ call \in Calls /\ hs \in Handshakes /\ link \in Links
  BY DEF TypeOK
<1>2. ASSUME LeaveLink(call, hs, link, tx), Rest
      PROVE  StepGood
  BY <1>1, <1>2, StaysGood, LeaveLinkGood
<1>3. CASE HandshakeSilence
  BY <1>2, <1>3 DEF HandshakeSilence
<1>4. CASE HandshakeMessageTooLong
  BY <1>2, <1>4 DEF HandshakeMessageTooLong
<1>5. CASE HandshakeDeclined
  BY <1>2, <1>5 DEF HandshakeDeclined
<1>6. CASE HandshakeAllCallSettled
  <2>1. [call EXCEPT !.to = hs.caller] \in Calls
    BY <1>1 DEF Calls, Handshakes
  <2>2. QED
    BY <1>1, <1>6, <2>1, StaysGood, EstablishedGood DEF HandshakeAllCallSettled
<1>7. CASE HandshakeCallSettled \/ HandshakeSlotReached
  BY <1>1, <1>7, StaysGood
     DEF HandshakeCallSettled, HandshakeSlotReached, In, Unmoved, LinkTyped,
         TypeOK, Phases
<1>8. CASE HandshakeChannelBusy
  BY <1>2, <1>8 DEF HandshakeChannelBusy
<1>9. CASE HandshakeRespond
  <2> DEFINE keyed == RxOff(tx)
             sent == Transmit(FrameWords, keyed)
  <2>1. Keeps(tx, keyed) /\ keyed \in TxPaths
    BY <1>1, KeepsRxOff DEF Keeps
  <2>2. Keeps(keyed, sent) /\ sent \in TxPaths
    BY <2>1, Numbers, KeepsTransmit DEF Keeps
  <2>3. Keeps(sent, ArmDrain(sent))
    BY <2>2, KeepsDrain
  <2> HIDE DEF keyed, sent
  <2>4. Keeps(tx, ArmDrain(sent))
    BY <2>1, <2>2, <2>3, KeepsTransitive
  <2>5. QED
    BY <1>1, <1>9, <2>4, StaysGood
       DEF HandshakeRespond, In, Unmoved, LinkTyped, TypeOK, Phases, keyed, sent
<1>10. CASE HandshakeResponseStalled
  BY <1>1, <1>10, StaysGood, KeepsDrain, LeaveLinkGood
     DEF HandshakeResponseStalled
<1>11. CASE HandshakeNoAck
  BY <1>2, <1>11 DEF HandshakeNoAck
<1>12. CASE HandshakeAckSettled
  BY <1>1, <1>12, StaysGood, EstablishedGood DEF HandshakeAckSettled
<1>13. CASE HandshakeBudgetSpent
  BY <1>2, <1>13 DEF HandshakeBudgetSpent
<1>14. QED
  BY <1>3, <1>4, <1>5, <1>6, <1>7, <1>8, <1>9, <1>10, <1>11, <1>12, <1>13
     DEF HandshakeTick

\* handle_linked(): every outcome of a tick in LINKED.
LEMMA LinkedTickGood ==
  ASSUME TypeOK, LinkedTick
  PROVE  StepGood
<1> USE DEF StepGood
<1>1. TypeOK /\ tx \in TxPaths /\ call \in Calls /\ hs \in Handshakes /\ link \in Links
  BY DEF TypeOK
<1>2. [link EXCEPT !.twas = <<>>] \in Links
  BY <1>1, EmptyAddr DEF Links
<1>3. \A l \in TwasSettled : l \in Links
  BY <1>1, <1>2 DEF TwasSettled
<1>4. [link EXCEPT !.term = FALSE] \in Links /\ [link EXCEPT !.owTx = FALSE] \in Links
  BY <1>1 DEF Links
<1>5. ASSUME NEW l \in Links, link' = l, Unmoved, Rest, UNCHANGED <<phase, call, hs>>,
             Keeps(tx, tx')
      PROVE  StepGood
  BY <1>1, <1>5, StaysGood DEF Unmoved, LinkTyped, TypeOK
<1>6. CASE LinkedTerminationStalled
  <2>1. Keeps(tx, RxOn(DisarmDrain(tx)))
    BY <1>1, KeepsDrain, KeepsRxOn, KeepsTransitive DEF Keeps
  <2>2. QED
    BY <1>1, <1>4, <1>6, <2>1, StaysGood, LeaveLinkGood
       DEF LinkedTerminationStalled
<1>7. CASE LinkedOrderwireStalled
  <2>1. Keeps(tx, RxOn(DisarmDrain(tx)))
    BY <1>1, KeepsDrain, KeepsRxOn, KeepsTransitive DEF Keeps
  <2>2. QED
    BY <1>4, <1>5, <1>7, <2>1 DEF LinkedOrderwireStalled
<1>8. CASE LinkedPeerTerminated
  BY <1>1, <1>2, <1>8, StaysGood, LeaveLinkGood DEF LinkedPeerTerminated
<1>9. CASE LinkedForeignTwas
  BY <1>2, <1>5, <1>9, StaysGood DEF LinkedForeignTwas
<1>10. CASE LinkedOrderwireStart
  <2>1. PICK l \in TwasSettled :
          /\ link' = [l EXCEPT !.owPending = "NONE", !.owTx = TRUE]
          /\ tx' = ArmDrain(Transmit(OwWords, RxOff(tx)))
          /\ Unmoved /\ Rest /\ UNCHANGED <<phase, call, hs>>
    BY <1>10 DEF LinkedOrderwireStart
  <2>2. [l EXCEPT !.owPending = "NONE", !.owTx = TRUE] \in Links
    BY <1>3 DEF Links
  <2>3. Keeps(tx, Transmit(OwWords, RxOff(tx)))
    BY <1>1, Numbers, KeepsRxOff, KeepsTransmit, KeepsTransitive DEF Keeps
  <2>4. Keeps(tx, tx')
    BY <2>1, <2>3, KeepsDrain, KeepsTransitive DEF Keeps
  <2>5. QED BY <1>5, <2>1, <2>2, <2>4
<1>11. CASE LinkedAmdRetryDue
  <2>1. PICK l \in TwasSettled :
          /\ link' = [l EXCEPT !.retry = FALSE, !.owPending = "AMD"]
          /\ Unmoved /\ Rest /\ UNCHANGED <<phase, call, hs, tx>>
    BY <1>11 DEF LinkedAmdRetryDue
  <2>2. [l EXCEPT !.retry = FALSE, !.owPending = "AMD"] \in Links
    BY <1>3 DEF Links, Bursts
  <2>3. QED BY <1>5, <2>1, <2>2, StaysGood
<1>12. CASE LinkedAmdNoResponse
  <2>1. PICK l \in TwasSettled :
          /\ link' = RetryOrFail(l)
          /\ Unmoved /\ Rest /\ UNCHANGED <<phase, call, hs, tx>>
    BY <1>12 DEF LinkedAmdNoResponse
  <2>2. l \in Links
    BY <1>3
  <2>3. l.attempts > 1 => l.attempts - 1 \in 0..MaxAttempts
    BY <2>2, Numbers DEF Links
  <2>4. RetryOrFail(l) \in Links
    BY <2>2, <2>3 DEF RetryOrFail, Links, AmdPhases
  <2>5. QED BY <1>5, <2>1, <2>4, StaysGood
<1>13. CASE LinkedAmdResponseSettled
  <2>1. PICK l \in TwasSettled :
          /\ link' = [l EXCEPT !.amd = "SENDING_ACK", !.listen = FALSE,
                               !.owPending = "ACK"]
          /\ Unmoved /\ Rest /\ UNCHANGED <<phase, call, hs, tx>>
    BY <1>13 DEF LinkedAmdResponseSettled
  <2>2. [l EXCEPT !.amd = "SENDING_ACK", !.listen = FALSE, !.owPending = "ACK"]
          \in Links
    BY <1>3 DEF Links, Bursts, AmdPhases
  <2>3. QED BY <1>5, <2>1, <2>2, StaysGood
<1>14. CASE LinkedAmdAckWaited
  <2>1. PICK l \in TwasSettled :
          /\ link' = [l EXCEPT !.amd = "NONE"]
          /\ Unmoved /\ Rest /\ UNCHANGED <<phase, call, hs, tx>>
    BY <1>14 DEF LinkedAmdAckWaited
  <2>2. [l EXCEPT !.amd = "NONE"] \in Links
    BY <1>3 DEF Links, AmdPhases
  <2>3. QED BY <1>5, <2>1, <2>2, StaysGood
<1>15. CASE LinkedInactive
  <2> DEFINE t == IF call.to = <<>> THEN tx ELSE Transmit(FrameWords, tx)
  <2>1. PICK l \in TwasSettled : LeaveLink(call, hs, l, t) /\ Rest
    BY <1>15 DEF LinkedInactive
  <2>2. Keeps(tx, t)
    BY <1>1, Numbers, KeepsSame, KeepsTransmit
  <2> HIDE DEF t
  <2>3. QED BY <1>1, <1>3, <2>1, <2>2, StaysGood, LeaveLinkGood
<1>16. CASE LinkedBackstop
  BY <1>1, <1>16, StaysGood, LeaveLinkGood DEF LinkedBackstop
<1>17. QED
  BY <1>6, <1>7, <1>8, <1>9, <1>10, <1>11, <1>12, <1>13, <1>14, <1>15, <1>16
     DEF LinkedTick

\* SOUNDING_COMPLETE takes a sweep to its next channel, or goes back.
LEMMA SoundingCompleteGood ==
  ASSUME TypeOK, state = "SOUNDING", SoundingComplete(tx)
  PROVE  LinkTyped' /\ sweep' \in Nat /\ Keeps(tx, tx')
<1>1. tx \in TxPaths /\ call \in Calls /\ hs \in Handshakes /\ link \in Links
      /\ sweep \in Nat
  BY DEF TypeOK
<1>2. CASE sweep > 1
  <2>1. sweep' \in Nat
    BY <1>1, <1>2 DEF SoundingComplete
  <2>2. QED
    BY <1>1, <1>2, <2>1, KeepsRxOn
       DEF SoundingComplete, LinkTyped, TypeOK, Phases
<1>3. CASE ~(sweep > 1)
  <2>1. TransitionTo(previous_state, call, hs, link, tx) /\ sweep' = 0
    BY <1>3 DEF SoundingComplete
  <2>2. previous_state \in States /\ Keeps(tx, tx)
    BY <1>1, KeepsSame DEF TypeOK
  <2>3. QED BY <1>1, <2>1, <2>2, TransitionGood
<1>4. QED BY <1>2, <1>3

\* handle_sounding(), the scanner's pause and the broadcast's safety net.
LEMMA OtherTicksGood ==
  ASSUME TypeOK, SoundingTick \/ ScanPauseOver \/ BroadcastStalled
  PROVE  StepGood
<1> USE DEF StepGood
<1>1. tx \in TxPaths /\ call \in Calls /\ hs \in Handshakes /\ link \in Links
      /\ RestTyped
  BY DEF TypeOK, RestTyped
<1>2. CASE SoundingLbtBusy \/ SoundingWindowClosed
  BY <1>1, <1>2, SoundingCompleteGood
     DEF SoundingLbtBusy, SoundingWindowClosed, In, RestTyped
<1>3. CASE SoundingTransmit
  <2>1. Keeps(tx, Transmit(SoundingWords, RxOff(tx)))
    BY <1>1, BurstLengths, KeepsRxOff, KeepsTransmit, KeepsTransitive
       DEF Keeps, RestTyped
  <2>2. QED
    BY <1>1, <1>3, <2>1, StaysGood
       DEF SoundingTransmit, In, Unmoved, LinkTyped, TypeOK, Phases
<1>4. CASE SoundingSent
  BY <1>1, <1>4, StaysGood, KeepsRxOn
     DEF SoundingSent, In, Unmoved, LinkTyped, TypeOK, Phases
<1>5. CASE ScanPauseOver
  BY <1>1, <1>5, StaysGood
     DEF ScanPauseOver, In, Unmoved, LinkTyped, TypeOK, Phases
<1>6. CASE BroadcastStalled
  <2> DEFINE cleared == [tx EXCEPT !.drain = FALSE, !.pending = 0]
  <2>1. Keeps(tx, cleared) /\ cleared \in TxPaths
    BY <1>1, KeepsBookkeeping DEF Keeps
  <2> HIDE DEF cleared
  <2>2. Keeps(tx, RxOn(cleared))
    BY <2>1, KeepsRxOn, KeepsTransitive
  <2>3. QED
    BY <1>1, <1>6, <2>2, StaysGood DEF BroadcastStalled, RestTyped, cleared
<1>7. QED
  BY <1>2, <1>3, <1>4, <1>5, <1>6 DEF SoundingTick

-----------------------------------------------------------------------------
\* on_word_complete(): a word less in the modulator, whoever counts it.
LEMMA WordRenderedGood ==
  ASSUME TypeOK, WordRendered
  PROVE  StepGood
<1> USE DEF StepGood
<1> DEFINE rendered == [tx EXCEPT !.air = @ - 1]
           done == Completed(rendered)
           busy == state = "LINKED" /\ (link.term \/ link.owTx)
<1>1. TypeOK /\ tx \in TxPaths /\ call \in Calls /\ hs \in Handshakes /\ link \in Links
      /\ RestTyped
  BY DEF TypeOK, RestTyped
<1>2. Keeps(tx, rendered) /\ rendered \in TxPaths
  <2>1. tx.air - 1 \in Nat
    BY <1>1 DEF WordRendered, TxPaths
  <2>2. QED BY <1>1, <2>1, KeepsBookkeeping DEF Keeps
<1>3. OnWordComplete(rendered)
  BY DEF WordRendered
<1> HIDE DEF rendered
<1>4. Keeps(tx, done) /\ done \in TxPaths
  <2>1. Keeps(rendered, done)
    BY <1>2, KeepsCompleted
  <2>2. QED BY <1>2, <2>1, KeepsTransitive DEF Keeps
<1>5. Keeps(tx, RxOn(done)) /\ Keeps(tx, DisarmDrain(done))
      /\ Keeps(tx, RxOn(DisarmDrain(done)))
  BY <1>4, KeepsRxOn, KeepsDrain, KeepsTransitive DEF Keeps
<1>6. UNCHANGED <<sweep, scan_c>>
  BY <1>3 DEF OnWordComplete
<1> HIDE DEF done
<1>7. CASE busy /\ CompletedInLinked(done) /\ UNCHANGED broadcasting
  <2>1. CASE link.term /\ done.pending = 0
    <3>1. [link EXCEPT !.term = FALSE] \in Links
      BY <1>1 DEF Links
    <3>2. LeaveLink(call, hs, [link EXCEPT !.term = FALSE], DisarmDrain(done))
      BY <1>7, <2>1 DEF CompletedInLinked
    <3>3. QED
      BY <1>1, <1>5, <1>6, <1>7, <3>1, <3>2, LeaveLinkGood DEF RestTyped
  <2>2. CASE link.owTx /\ ~link.term /\ done.pending = 0
    <3> DEFINE over == [link EXCEPT !.owTx = FALSE]
    <3>1. over \in Links
      BY <1>1 DEF Links
    <3> HIDE DEF over
    <3>2. link' \in {[over EXCEPT !.listen = TRUE, !.heard = {}],
                     [over EXCEPT !.amd = "WAIT_ACK"],
                     [over EXCEPT !.amd = "NONE", !.due = FALSE], over}
      BY <1>7, <2>2 DEF CompletedInLinked, over
    <3>3. link' \in Links
      BY <3>1, <3>2, ZenonT(60) DEF Links, AmdPhases
    <3>4. tx' = RxOn(DisarmDrain(done)) /\ Unmoved /\ UNCHANGED <<phase, call, hs>>
      BY <1>7, <2>2 DEF CompletedInLinked
    <3>5. QED
      BY <1>1, <1>5, <1>6, <1>7, <3>3, <3>4
         DEF Unmoved, LinkTyped, TypeOK, RestTyped
  <2>3. CASE done.pending # 0
    BY <1>1, <1>4, <1>6, <1>7, <2>3
       DEF CompletedInLinked, Unmoved, LinkTyped, TypeOK, RestTyped
  <2>4. QED BY <1>7, <2>1, <2>2, <2>3
<1>8. CASE state = "SOUNDING" /\ CompletedInSounding(done) /\ UNCHANGED broadcasting
  BY <1>1, <1>4, <1>5, <1>6, <1>8
     DEF CompletedInSounding, Unmoved, LinkTyped, TypeOK, RestTyped, Phases
<1>9. CASE CompletedBroadcast(done)
  BY <1>1, <1>4, <1>5, <1>6, <1>9
     DEF CompletedBroadcast, Unmoved, LinkTyped, TypeOK, RestTyped
<1>10. CASE state = "CALLING" /\ CompletedInCalling(done) /\ UNCHANGED broadcasting
  <2> DEFINE counted == [call EXCEPT !.cycles = call.cycles + 1]
  <2>1. counted \in Calls /\ [call EXCEPT !.cycles = 0] \in Calls
    <3>1. call.cycles + 1 \in Nat
      BY <1>1 DEF Calls
    <3>2. QED BY <1>1, <3>1 DEF Calls
  <2>2. CASE /\ phase' \in {phase, NextPhase} /\ phase \in CallingTxPhases
             /\ call' \in {counted, [call EXCEPT !.cycles = 0]}
             /\ tx' \in {done, RxOn(done)}
             /\ Unmoved /\ UNCHANGED <<hs, link>>
    <3>1. NextPhase \in Phases["CALLING"]
      BY DEF NextPhase, Phases, CallingTxPhases
    <3>2. QED
      BY <1>1, <1>4, <1>5, <1>6, <1>10, <2>1, <2>2, <3>1
         DEF Unmoved, LinkTyped, TypeOK, RestTyped
  <2>3. CASE LeaveLink(counted, hs, link, done)
    BY <1>1, <1>4, <1>6, <1>10, <2>1, <2>3, LeaveLinkGood DEF RestTyped
  <2>4. CASE Established(counted, hs, link, done)
    BY <1>1, <1>4, <1>6, <1>10, <2>1, <2>4, EstablishedGood DEF RestTyped
  <2>5. CASE call' = counted /\ tx' = done /\ Unmoved /\ UNCHANGED <<phase, hs, link>>
    BY <1>1, <1>4, <1>6, <1>10, <2>1, <2>5
       DEF Unmoved, LinkTyped, TypeOK, RestTyped
  <2>6. QED
    BY <1>10, <2>2, <2>3, <2>4, <2>5 DEF CompletedInCalling
<1>11. CASE state = "HANDSHAKE" /\ CompletedInHandshake(done) /\ UNCHANGED broadcasting
  <2>1. [hs EXCEPT !.heard = {}] \in Handshakes
    BY <1>1 DEF Handshakes
  <2>2. "WAIT_ACK" \in Phases["HANDSHAKE"]
    BY DEF Phases
  <2>3. CASE done.pending = 0
    BY <1>1, <1>5, <1>6, <1>11, <2>1, <2>2, <2>3
       DEF CompletedInHandshake, Unmoved, LinkTyped, TypeOK, RestTyped
  <2>4. CASE done.pending # 0
    BY <1>1, <1>4, <1>6, <1>11, <2>4
       DEF CompletedInHandshake, Unmoved, LinkTyped, TypeOK, RestTyped
  <2>5. QED BY <2>3, <2>4
<1>12. CASE tx' = rendered /\ Unmoved /\ UNCHANGED <<phase, call, hs, link, broadcasting>>
  BY <1>1, <1>2, <1>6, <1>12 DEF Unmoved, LinkTyped, TypeOK, RestTyped
<1>13. QED
  BY <1>3, <1>7, <1>8, <1>9, <1>10, <1>11, <1>12
     DEF OnWordComplete, In, done

\* Whatever is heard, the records keep their types.
LEMMA HeardTyped ==
  ASSUME TypeOK, NEW w \in Words
  PROVE  /\ w.addr \in Chunks
         /\ Heard \in Handshakes
         /\ ResponseWord(w) \in Calls
         /\ CallingFrameWord(w) \in Handshakes
         /\ AckWord(w) \in Handshakes
         /\ LinkedWord(w) \in Links
<1>1. call \in Calls /\ hs \in Handshakes /\ link \in Links
  BY DEF TypeOK
<1>2. w.addr \in Chunks
  BY DEF Words
<1>3. <<w.addr>> \in Addrs /\ \A a \in Addrs : Extended(a, w) \in Addrs
  BY <1>2 DEF Addrs, Extended
<1>4. Heard \in Handshakes
  <2>1. 0 \in 0..MaxErrors
    BY Numbers
  <2>2. QED BY <1>1, <2>1 DEF Heard, Handshakes
<1>5. ResponseWord(w) \in Calls
  BY <1>1, <1>3 DEF ResponseWord, Calls
<1>6. CallingFrameWord(w) \in Handshakes
  BY <1>1, <1>3, <1>4 DEF CallingFrameWord, Handshakes
<1>7. AckWord(w) \in Handshakes
  BY <1>4 DEF AckWord, Handshakes
<1>8. LinkedWord(w) \in Links
  BY <1>1, <1>3, EmptyAddr DEF LinkedWord, Links
<1>9. QED BY <1>2, <1>4, <1>5, <1>6, <1>7, <1>8

\* The address words of a call address the station or everybody.
LEMMA IncomingCallGood ==
  ASSUME TypeOK, NEW w \in Words, IncomingCall(w),
         state \in Available \cup {"SOUNDING"}
  PROVE  LinkTyped' /\ sweep' \in Nat /\ Keeps(tx, tx')
<1>1. call \in Calls /\ hs \in Handshakes /\ link \in Links /\ sweep \in Nat
      /\ tx \in TxPaths /\ Keeps(tx, tx)
  BY KeepsSame DEF TypeOK
<1>2. [call EXCEPT !.to = <<w.addr>>] \in Calls
  <2>1. <<w.addr>> \in Addrs
    BY HeardTyped DEF Addrs
  <2>2. QED BY <1>1, <2>1 DEF Calls
<1>3. Heard \in Handshakes /\ [Heard EXCEPT !.silent = TRUE] \in Handshakes
  BY HeardTyped DEF Handshakes
<1>4. ASSUME NEW c \in Calls, NEW h \in Handshakes, CallDetected(c, h)
      PROVE  LinkTyped' /\ sweep' \in Nat /\ Keeps(tx, tx')
  <2>1. TransitionTo("HANDSHAKE", c, h, link, tx) /\ sweep' \in Nat
    BY <1>1, <1>4 DEF CallDetected
  <2>2. QED BY <1>1, <2>1, TransitionGood DEF States
<1>5. QED BY <1>1, <1>2, <1>3, <1>4 DEF IncomingCall

\* process_received_word(), in each state.
LEMMA WordDecodedGood ==
  ASSUME TypeOK, WordDecoded
  PROVE  StepGood
<1> USE DEF StepGood
<1>1. TypeOK /\ tx \in TxPaths /\ call \in Calls /\ hs \in Handshakes /\ link \in Links
      /\ RestTyped /\ Keeps(tx, tx)
  BY KeepsSame DEF TypeOK, RestTyped
<1>2. ASSUME NEW w \in Words, ReceiveWord(w)
      PROVE  StepGood
  <2>1. Heard \in Handshakes
    BY HeardTyped
  <2>2. UNCHANGED <<broadcasting, scan_c>>
    BY <1>2 DEF ReceiveWord
  <2>3. CASE state \in Available /\ HearInAvailable(w)
    <3>1. CASE IncomingCall(w)
      BY <1>1, <2>2, <2>3, <3>1, IncomingCallGood DEF RestTyped
    <3>2. CASE ~IncomingCall(w)
      BY <1>1, <2>1, <2>2, <2>3, <3>2
         DEF HearInAvailable, Available, Unmoved, LinkTyped, TypeOK, RestTyped,
             Phases
    <3>3. QED BY <3>1, <3>2
  <2>4. CASE state = "CALLING" /\ HearInCalling(w)
    <3>1. CASE LeaveLink(call, Heard, link, tx) /\ UNCHANGED sweep
      BY <1>1, <2>1, <2>2, <3>1, LeaveLinkGood DEF RestTyped
    <3>2. CASE ~LeaveLink(call, Heard, link, tx)
      BY <1>1, <2>1, <2>2, <2>4, <3>2, HeardTyped
         DEF HearInCalling, Unmoved, LinkTyped, TypeOK, RestTyped
    <3>3. QED BY <2>4, <3>1, <3>2 DEF HearInCalling
  <2>5. CASE state = "HANDSHAKE" /\ HearInHandshake(w)
    <3>1. CASE LeaveLink(call, Heard, link, tx) /\ UNCHANGED sweep
      BY <1>1, <2>1, <2>2, <3>1, LeaveLinkGood DEF RestTyped
    <3>2. CASE ~LeaveLink(call, Heard, link, tx)
      BY <1>1, <2>1, <2>2, <2>5, <3>2, HeardTyped
         DEF HearInHandshake, Unmoved, LinkTyped, TypeOK, RestTyped
    <3>3. QED BY <2>5, <3>1, <3>2 DEF HearInHandshake
  <2>6. CASE state = "LINKED" /\ HearInLinked(w)
    <3>1. link' \in Links
      BY <1>1, <2>6, HeardTyped DEF HearInLinked
    <3>2. QED
      BY <1>1, <2>1, <2>2, <2>6, <3>1
         DEF HearInLinked, Unmoved, LinkTyped, TypeOK, RestTyped
  <2>7. CASE state = "SOUNDING" /\ HearInSounding(w)
    <3>1. CASE SoundingComplete(tx)
      BY <1>1, <2>2, <2>7, <3>1, SoundingCompleteGood DEF RestTyped
    <3>2. CASE IncomingCall(w)
      BY <1>1, <2>2, <2>7, <3>2, IncomingCallGood DEF RestTyped
    <3>3. CASE ~SoundingComplete(tx) /\ ~IncomingCall(w)
      BY <1>1, <2>1, <2>2, <2>7, <3>3
         DEF HearInSounding, Unmoved, LinkTyped, TypeOK, RestTyped
    <3>4. QED BY <3>1, <3>2, <3>3
  <2>8. QED
    BY <1>2, <2>3, <2>4, <2>5, <2>6, <2>7 DEF ReceiveWord
<1>3. ASSUME ReceiveInvalidWord
      PROVE  StepGood
  <2>1. UNCHANGED <<broadcasting, scan_c>>
    BY <1>3 DEF ReceiveInvalidWord
  <2>2. CASE state = "SOUNDING" /\ SoundingComplete(tx)
    BY <1>1, <2>1, <2>2, SoundingCompleteGood DEF RestTyped
  <2>3. CASE LeaveLink(call, hs, link, tx) /\ UNCHANGED sweep
    BY <1>1, <2>1, <2>3, LeaveLinkGood DEF RestTyped
  <2>4. CASE /\ ~TooManyErrors(hs.errors + 1)
             /\ hs' = [hs EXCEPT !.errors = @ + 1]
             /\ Unmoved /\ UNCHANGED <<phase, call, link, tx, sweep>>
    <3>1. hs.errors + 1 \in 0..MaxErrors
      BY <1>1, <2>4, Numbers DEF TooManyErrors, Handshakes
    <3>2. hs' \in Handshakes
      BY <1>1, <2>4, <3>1 DEF Handshakes
    <3>3. QED
      BY <1>1, <2>1, <2>4, <3>2 DEF Unmoved, LinkTyped, TypeOK, RestTyped
  <2>5. QED
    BY <1>3, <2>2, <2>3, <2>4 DEF ReceiveInvalidWord, In
<1>4. QED BY <1>2, <1>3 DEF WordDecoded

-----------------------------------------------------------------------------
\* emergency_manual_control(): a transition to IDLE, with a good-bye in LINKED.
LEMMA EmergencyGood ==
  ASSUME TypeOK, NEW t \in TxPaths, EmergencyMoves, Rest
  PROVE  LinkTyped' /\ RestTyped' /\ Keeps(t, EmergencyTx(t))
<1>1. LinkTyped'
  BY MovesTyped DEF EmergencyMoves, TypeOK, States
<1>2. Keeps(t, EmergencyTx(t))
  <2> DEFINE said == IF SaysGoodbye THEN Transmit(FrameWords, t) ELSE t
  <2>1. Keeps(t, said)
    BY Numbers, KeepsTransmit, KeepsSame
  <2>2. said \in TxPaths
    BY <2>1 DEF Keeps
  <2> HIDE DEF said
  <2>3. Keeps(t, TxAfter("IDLE", said))
    BY <2>1, <2>2, KeepsTxAfter, KeepsTransitive
  <2>4. QED BY <2>3 DEF EmergencyTx, said
<1>3. QED BY <1>1, <1>2, StaysGood

\* One turn of the main loop.
LEMMA MainLoopGood ==
  ASSUME TypeOK, MainLoop
  PROVE  StepGood
<1> USE DEF StepGood
<1>1. TypeOK /\ tx \in TxPaths
  BY DEF TypeOK
<1>2. CASE PttLeadElapsed
  BY <1>1, <1>2, StaysGood, KeepsFlushLead DEF PttLeadElapsed
<1>3. CASE PttTailElapsed
  BY <1>1, <1>3, StaysGood, KeepsRelease DEF PttTailElapsed
<1>4. CASE AbortTx
  <2> DEFINE noted == [tx EXCEPT !.abort = FALSE]
  <2>1. Keeps(tx, noted) /\ noted \in TxPaths
    BY <1>1, KeepsBookkeeping DEF Keeps
  <2> HIDE DEF noted
  <2>2. LinkTyped' /\ RestTyped' /\ Keeps(noted, EmergencyTx(noted))
    BY <1>1, <1>4, <2>1, EmergencyGood DEF AbortTx
  <2>3. Keeps(tx, EmergencyTx(noted))
    BY <2>1, <2>2, KeepsTransitive
  <2>4. QED BY <1>4, <2>2, <2>3 DEF AbortTx, noted
<1>5. CASE TickSm
  BY <1>1, <1>5, CallingTickGood, HandshakeTickGood, LinkedTickGood,
     OtherTicksGood
     DEF TickSm
<1>6. QED BY <1>2, <1>3, <1>4, <1>5 DEF MainLoop

\* A call that is requested is placed or refused.
LEMMA RequestCallGood ==
  ASSUME TypeOK, NEW to \in Targets, NEW group \in BOOLEAN, NEW amd \in Amds,
         NEW left \in Nat, RequestCall(to, group, amd, left)
  PROVE  StepGood /\ pending_amd' \in Amds
<1> USE DEF StepGood
<1>1. TypeOK /\ tx \in TxPaths /\ call \in Calls /\ hs \in Handshakes /\ link \in Links
      /\ RestTyped /\ Keeps(tx, tx)
  BY KeepsSame DEF TypeOK, RestTyped
<1>2. to \in Addrs
  BY ControllerAssumption DEF Addrs
<1>3. scan_c' \in Nat /\ RestTyped'
  BY <1>1, ControllerAssumption DEF RequestCall, RestTyped
<1>4. CASE PlaceCall(to, group, amd, left) /\ pending_amd' = "NONE"
  <2> DEFINE placed == [call EXCEPT !.to = to, !.group = group, !.amd = amd,
                                    !.left = left, !.scan = 2 * scan_c']
  <2>1. 2 * scan_c' \in Nat
    <3>1. \A n \in Nat : 2 * n \in Nat
      OBVIOUS
    <3>2. QED BY <1>3, <3>1
  <2>2. placed \in Calls
    BY <1>1, <1>2, <2>1 DEF Calls
  <2>3. TransitionTo("CALLING", placed, hs, link, tx) /\ state \in Available
    BY <1>4 DEF PlaceCall
  <2> HIDE DEF placed
  <2>4. LinkTyped' /\ Keeps(tx, tx')
    BY <1>1, <2>2, <2>3, TransitionGood DEF States
  <2>5. QED BY <1>3, <1>4, <2>4 DEF Amds
<1>5. CASE /\ state \notin Available
           /\ call' = IF state = "CALLING" THEN [call EXCEPT !.left = left] ELSE call
           /\ pending_amd' = amd
           /\ Unmoved /\ UNCHANGED <<phase, hs, link, tx>>
  <2>1. call' \in Calls
    BY <1>1, <1>5 DEF Calls
  <2>2. QED
    BY <1>1, <1>3, <1>5, <2>1 DEF Unmoved, LinkTyped, TypeOK
<1>6. QED BY <1>4, <1>5 DEF RequestCall

\* A request of the layer above that is granted in LINKED.
LEMMA LinkedRequestsGood ==
  ASSUME TypeOK, SendLinkedAmd \/ RespondToLinkedAmd \/ TriggerOrderwire
                   \/ TerminateLink
  PROVE  StepGood
<1> USE DEF StepGood
<1>1. tx \in TxPaths /\ link \in Links
  BY DEF TypeOK
<1>2. link' \in Links
  <2>1. MaxAttempts \in 0..MaxAttempts
    BY Numbers
  <2>2. CASE SendLinkedAmd
    BY <1>1, <2>1, <2>2 DEF SendLinkedAmd, Links, Bursts, AmdPhases
  <2>3. CASE RespondToLinkedAmd
    BY <1>1, <2>3 DEF RespondToLinkedAmd, Links, Bursts, AmdPhases
  <2>4. CASE TriggerOrderwire
    BY <1>1, <2>4 DEF TriggerOrderwire, Links, Bursts
  <2>5. CASE TerminateLink
    BY <1>1, <2>5 DEF TerminateLink, Links
  <2>6. QED BY <2>2, <2>3, <2>4, <2>5
<1>3. Unmoved /\ Rest /\ UNCHANGED <<phase, call, hs>>
  BY DEF SendLinkedAmd, RespondToLinkedAmd, TriggerOrderwire, TerminateLink
<1>4. Keeps(tx, tx')
  <2>1. CASE tx' = tx
    BY <1>1, <2>1, KeepsSame
  <2>2. CASE tx' = ArmDrain(RxOff(Transmit(FrameWords, tx)))
    <3>1. Keeps(tx, RxOff(Transmit(FrameWords, tx)))
      BY <1>1, Numbers, KeepsTransmit, KeepsRxOff, KeepsTransitive DEF Keeps
    <3>2. QED BY <2>2, <3>1, KeepsDrain, KeepsTransitive DEF Keeps
  <2>3. QED
    BY <2>1, <2>2
       DEF SendLinkedAmd, RespondToLinkedAmd, TriggerOrderwire, TerminateLink
<1>5. QED
  BY <1>2, <1>3, <1>4, StaysGood DEF Unmoved, LinkTyped, TypeOK

\* A sounding or a broadcast is requested, and granted or refused.
LEMMA SoundingRequestsGood ==
  ASSUME TypeOK, SendSounding \/ SendSoundingSweep \/ BroadcastPositionReport
  PROVE  StepGood
<1> USE DEF StepGood
<1>1. TypeOK /\ tx \in TxPaths /\ call \in Calls /\ hs \in Handshakes /\ link \in Links
      /\ RestTyped /\ Keeps(tx, tx)
  BY KeepsSame DEF TypeOK, RestTyped
<1>2. scan_c' \in Nat
  BY ControllerAssumption
     DEF SendSounding, SendSoundingSweep, BroadcastPositionReport
<1>3. ASSUME NEW n \in Nat, RequestSounding(n), UNCHANGED broadcasting
      PROVE  StepGood
  <2>1. sweep' \in Nat
    BY <1>1, <1>3 DEF RequestSounding, RestTyped
  <2>2. LinkTyped' /\ Keeps(tx, tx')
    BY <1>1, <1>3, TransitionGood DEF RequestSounding, States
  <2>3. QED BY <1>1, <1>2, <1>3, <2>1, <2>2 DEF RestTyped
<1>4. CASE SendBroadcast
  <2> DEFINE keyed == RxOff(tx)
             sent == Transmit(BroadcastWords(scan_c'), keyed)
  <2>1. Keeps(tx, keyed) /\ keyed \in TxPaths
    BY <1>1, KeepsRxOff DEF Keeps
  <2>2. Keeps(keyed, sent) /\ sent \in TxPaths
    BY <1>2, <2>1, BurstLengths, KeepsTransmit DEF Keeps
  <2>3. Keeps(sent, ArmDrain(sent))
    BY <2>2, KeepsDrain
  <2> HIDE DEF keyed, sent
  <2>4. Keeps(tx, ArmDrain(sent))
    BY <2>1, <2>2, <2>3, KeepsTransitive
  <2>5. QED
    BY <1>1, <1>2, <1>4, <2>4
       DEF SendBroadcast, Unmoved, LinkTyped, TypeOK, RestTyped, keyed, sent
<1>5. CASE UNCHANGED <<sweep, phase, call, hs, link, tx, broadcasting>> /\ Unmoved
  BY <1>1, <1>2, <1>5 DEF Unmoved, LinkTyped, TypeOK, RestTyped
<1>6. CASE SendSounding
  BY <1>3, <1>5, <1>6 DEF SendSounding
<1>7. CASE SendSoundingSweep
  <2>1. \A n \in 1..MaxSweep : n \in Nat
    OBVIOUS
  <2>2. QED BY <1>3, <1>5, <1>7, <2>1 DEF SendSoundingSweep
<1>8. CASE BroadcastPositionReport
  BY <1>4, <1>5, <1>8 DEF BroadcastPositionReport
<1>9. QED BY <1>6, <1>7, <1>8

\* Every command but start_available().
LEMMA CommandGood ==
  ASSUME TypeOK, Command, ~StartAvailable
  PROVE  StepGood /\ pending_amd' \in Amds
<1> USE DEF StepGood
<1>1. TypeOK /\ tx \in TxPaths /\ call \in Calls /\ hs \in Handshakes /\ link \in Links
      /\ RestTyped /\ Keeps(tx, tx) /\ pending_amd \in Amds
  BY KeepsSame DEF TypeOK, RestTyped
<1>2. NumChannels - 1 \in Nat
  BY Numbers
<1>3. CASE StartScanning
  <2>1. LinkTyped' /\ Keeps(tx, tx')
    BY <1>1, <1>3, TransitionGood DEF StartScanning, States
  <2>2. QED BY <1>1, <1>3, <2>1, StaysGood DEF StartScanning
<1>4. CASE InitiateCall \/ InitiateSingleChannelCall \/ InitiateGroupCall
  BY <1>1, <1>2, <1>4, RequestCallGood
     DEF InitiateCall, InitiateSingleChannelCall, InitiateGroupCall
<1>5. CASE SendAmd
  <2>1. \A amd \in {"LINK", "NO_LINK"} : amd \in Amds
    BY DEF Amds
  <2>2. CASE UNCHANGED smVars /\ pending_amd' \in {"LINK", "NO_LINK"}
    BY <1>1, <2>1, <2>2 DEF smVars, LinkTyped, TypeOK, RestTyped
  <2>3. QED
    BY <1>1, <1>2, <1>5, <2>1, <2>2, RequestCallGood DEF SendAmd
<1>6. CASE SendAmdLinked \/ LinkedAmdReceived \/ ProposeFrequency \/ Terminate
  BY <1>1, <1>6, LinkedRequestsGood
     DEF SendAmdLinked, LinkedAmdReceived, ProposeFrequency, Terminate
<1>7. CASE SendSounding \/ SendSoundingSweep \/ BroadcastPositionReport
  <2>1. UNCHANGED pending_amd
    BY <1>7 DEF SendSounding, SendSoundingSweep, BroadcastPositionReport
  <2>2. QED BY <1>1, <1>7, <2>1, SoundingRequestsGood
<1>8. CASE EmergencyStop
  <2> DEFINE stopped == EmergencyTx(tx)
  <2>1. PICK kept \in 0..1 : tx' = Flushed(kept, stopped)
    BY <1>8 DEF EmergencyStop
  <2>2. LinkTyped' /\ RestTyped' /\ Keeps(tx, stopped)
    BY <1>1, <1>8, EmergencyGood DEF EmergencyStop
  <2>3. stopped \in TxPaths /\ kept \in Nat
    BY <2>2 DEF Keeps
  <2> HIDE DEF stopped
  <2>4. Keeps(tx, tx')
    BY <2>1, <2>2, <2>3, KeepsFlushed, KeepsTransitive
  <2>5. QED BY <1>1, <1>8, <2>2, <2>4 DEF EmergencyStop
<1>9. CASE PressPtt
  <2>1. Keeps(tx, ManualOn(tx)) /\ ManualOn(tx) \in TxPaths
    BY <1>1, <1>9, KeepsManualOn DEF PressPtt, Keeps
  <2>2. CASE EmergencyMoves /\ tx' = EmergencyTx(ManualOn(tx))
    <3>1. LinkTyped' /\ RestTyped' /\ Keeps(ManualOn(tx), tx')
      BY <1>1, <1>9, <2>1, <2>2, EmergencyGood DEF PressPtt
    <3>2. QED BY <1>1, <1>9, <2>1, <3>1, KeepsTransitive DEF PressPtt
  <2>3. CASE tx' = ManualOn(tx) /\ Unmoved /\ UNCHANGED <<phase, call, hs, link>>
    BY <1>1, <1>9, <2>1, <2>3, StaysGood DEF PressPtt
  <2>4. QED BY <1>9, <2>2, <2>3 DEF PressPtt
<1>10. CASE ReleasePtt
  BY <1>1, <1>10, StaysGood, KeepsManualOff DEF ReleasePtt
<1>11. QED
  BY <1>3, <1>4, <1>5, <1>6, <1>7, <1>8, <1>9, <1>10 DEF Command

-----------------------------------------------------------------------------
\* start_available() enables the demodulator whatever is being sent: what it
\* keeps of the transmit path does not include that the station is half duplex.
LEMMA StartAvailableGood ==
  ASSUME TypeOK, StartAvailable
  PROVE  /\ LinkTyped' /\ RestTyped' /\ tx' \in TxPaths
         /\ Justified(tx) => Justified(tx')
         /\ Listens(tx) => Listens(tx')
<1> DEFINE t == [tx EXCEPT !.demod = TRUE]
<1>1. TypeOK /\ tx \in TxPaths /\ call \in Calls /\ hs \in Handshakes /\ link \in Links
  BY DEF TypeOK
<1>2. /\ t \in TxPaths
      /\ Justified(tx) => Justified(t)
      /\ Listens(tx) => Listens(t)
  BY <1>1 DEF TxPaths, Justified, Listens
<1>3. RestTyped'
  BY <1>1, StaysGood DEF StartAvailable
<1> HIDE DEF t
<1>4. CASE state = "SCANNING"
  <2>1. TransitionTo("IDLE", call, hs, link, t)
    BY <1>4 DEF StartAvailable, t
  <2>2. LinkTyped'
    BY <1>1, <2>1, MovesTyped DEF TransitionTo, States
  <2>3. Keeps(t, tx')
    BY <1>2, <2>1, KeepsTxAfter DEF TransitionTo
  <2>4. QED BY <1>2, <1>3, <2>2, <2>3 DEF Keeps
<1>5. CASE state # "SCANNING"
  <2>1. tx' = t /\ Unmoved /\ UNCHANGED <<phase, call, hs, link>>
    BY <1>5 DEF StartAvailable, t
  <2>2. QED BY <1>1, <1>2, <1>3, <2>1, StaysGood
<1>6. QED BY <1>4, <1>5

\* Every step, in one place.
LEMMA NextGood ==
  ASSUME TypeOK, Next
  PROVE  /\ TypeOK'
         /\ Justified(tx) => Justified(tx')
         /\ Listens(tx) => Listens(tx')
         /\ "AVAILABLE" \notin Commands => (Duplex(tx) => Duplex(tx'))
<1>1. TypeOK /\ pending_amd \in Amds
  BY DEF TypeOK
<1>2. ASSUME StepGood, pending_amd' \in Amds
      PROVE  /\ TypeOK'
             /\ Justified(tx) => Justified(tx')
             /\ Listens(tx) => Listens(tx')
             /\ Duplex(tx) => Duplex(tx')
  BY <1>2 DEF StepGood, LinkTyped, RestTyped, TypeOK, Keeps
<1>3. CASE MainLoop
  BY <1>1, <1>2, <1>3, MainLoopGood DEF MainLoop
<1>4. CASE WordDecoded
  BY <1>1, <1>2, <1>4, WordDecodedGood DEF WordDecoded
<1>5. CASE WordRendered
  BY <1>1, <1>2, <1>5, WordRenderedGood DEF WordRendered
<1>6. CASE Command /\ ~StartAvailable
  BY <1>1, <1>2, <1>6, CommandGood
<1>7. CASE StartAvailable
  <2>1. "AVAILABLE" \in Commands /\ pending_amd' \in Amds
    BY <1>1, <1>7 DEF StartAvailable, Offered
  <2>2. QED
    BY <1>1, <1>7, <2>1, StartAvailableGood DEF LinkTyped, RestTyped, TypeOK
<1>8. QED
  BY <1>3, <1>4, <1>5, <1>6, <1>7 DEF Next, Step

\* The station starts in IDLE, receiving, with no call.
LEMMA InitGood ==
  ASSUME Init
  PROVE  TypeOK /\ Justified(tx) /\ Listens(tx) /\ Duplex(tx)
<1>1. tx \in TxPaths /\ Justified(tx) /\ Listens(tx) /\ Duplex(tx)
  BY TxInitGood DEF Init, SMInit
<1>2. call \in Calls
  BY EmptyAddr DEF Init, SMInit, Calls, Amds
<1>3. hs \in Handshakes
  <2>1. 0 \in 0..MaxErrors
    BY Numbers
  <2>2. QED BY <2>1, EmptyAddr DEF Init, SMInit, Handshakes
<1>4. link \in Links
  <2>1. 0 \in 0..MaxAttempts
    BY Numbers
  <2>2. QED BY <2>1, EmptyAddr DEF Init, SMInit, Links, AmdPhases
<1>5. phase \in Phases[state] /\ pending_amd \in Amds
  BY DEF Init, SMInit, Phases, Amds
<1>6. QED
  BY <1>1, <1>2, <1>3, <1>4, <1>5 DEF Init, SMInit, TypeOK, States, Available

\* Every variable keeps its type, a station's phases stay those of its state and
\* pre_link_state stays one of IDLE, SCANNING, SOUNDING.
THEOREM TypeCorrect == Spec => []TypeOK
<1>1. Init => TypeOK
  BY InitGood
<1>2. TypeOK /\ [Next]_vars => TypeOK'
  <2>1. TypeOK /\ Next => TypeOK'
    BY NextGood
  <2>2. TypeOK /\ UNCHANGED vars => TypeOK'
    BY DEF TypeOK, vars
  <2>3. QED BY <2>1, <2>2
<1>3. QED BY <1>1, <1>2, PTL DEF Spec

\* set_ptt_and_notify: no stuck transmitter. Whoever keys the radio, it is
\* released or waiting for its tail as soon as nobody wants to transmit.
THEOREM PttIsJustified == Spec => []PttJustified
<1>1. Init => PttJustified
  BY InitGood DEF Justified, PttJustified
<1>2. TypeOK /\ PttJustified /\ [Next]_vars => PttJustified'
  <2>1. TypeOK /\ PttJustified /\ Next => PttJustified'
    BY NextGood DEF Justified, PttJustified
  <2>2. PttJustified /\ UNCHANGED vars => PttJustified'
    BY DEF PttJustified, vars
  <2>3. QED BY <2>1, <2>2
<1>3. QED BY <1>1, <1>2, TypeCorrect, PTL DEF Spec

\* rx_enabled and tick_ptt_timing: as long as start_available() is not called
\* while the station transmits, it never decodes its own transmission.
THEOREM StationIsHalfDuplex ==
  ASSUME "AVAILABLE" \notin Commands
  PROVE  Spec => []HalfDuplex
<1>1. Init => HalfDuplex
  BY InitGood DEF Duplex, HalfDuplex
<1>2. TypeOK /\ HalfDuplex /\ [Next]_vars => HalfDuplex'
  <2>1. TypeOK /\ HalfDuplex /\ Next => HalfDuplex'
    BY NextGood DEF Duplex, HalfDuplex
  <2>2. HalfDuplex /\ UNCHANGED vars => HalfDuplex'
    BY DEF HalfDuplex, vars
  <2>3. QED BY <2>1, <2>2
<1>3. QED BY <1>1, <1>2, TypeCorrect, PTL DEF Spec

\* A receive-only channel is never keyed: the refusal in rx_enabled holds for
\* every path to the transmitter. The invariant adds that the operator cannot
\* hold the PTT there, without which the rx_enabled callback would mute the
\* demodulator.
THEOREM ReceiveOnlyIsSilent == Spec => []ReceiveOnly
<1> DEFINE Inv == Listens(tx)
<1>1. Init => Inv
  BY InitGood
<1>2. TypeOK /\ Inv /\ [Next]_vars => Inv'
  <2>1. TypeOK /\ Inv /\ Next => Inv'
    BY NextGood DEF Listens
  <2>2. Inv /\ UNCHANGED vars => Inv'
    BY DEF Listens, vars
  <2>3. QED BY <2>1, <2>2
<1>3. Inv => ReceiveOnly
  BY DEF Listens, ReceiveOnly
<1>4. QED BY <1>1, <1>2, <1>3, TypeCorrect, PTL DEF Spec
==============================================================================
