---------------------------- MODULE AleCallProofs ----------------------------
(***************************************************************************)
(* What a call and a link promise, for every value of the constants.       *)
(*                                                                         *)
(* The first part needs nothing of the environment: timers may elapse at   *)
(* any tick, every command may come at any time, words of any kind may be  *)
(* heard. The second part is about a calm station (see Calm), on which the *)
(* audio device does not stall and the operator does not reach for the PTT:*)
(* there the words are accounted for one by one.                           *)
(***************************************************************************)
EXTENDS AleControllerProofs

\* The stores resolve one call width. A request that is refused writes the width
\* although a call is under way, so two widths would disturb that call's counting.
OneWidth == \E width : ScanWidths = {width}

-----------------------------------------------------------------------------
(***************************************************************************)
(* Part 1. The inductive invariant.                                        *)
(***************************************************************************)
\* Where a station came from: pre_link_state and previous_state are read when a
\* call or a sounding ends.
OriginKnown ==
  /\ state = "SOUNDING" => previous_state # "CALLING"
  /\ state = "CALLING" => pre_link_state \in Available

\* The caller's address is collected before the handshake leaves WAIT_CYCLE_END.
CallerKnown ==
  state = "HANDSHAKE" /\ (phase # "WAIT_CYCLE_END" \/ hs.concl # "NONE")
    => hs.caller # <<>>

\* A call never waits for more words than its phases have left to count, and for
\* none outside of them.
CallCounted ==
  state = "CALLING" =>
    /\ scan_c \in ScanWidths /\ call.scan = 2 * scan_c
    /\ phase \in {"LBT", "TUNING", "LISTENING"} => tx.pending = 0
    /\ phase \in CallingTxPhases =>
         tx.pending <= WordsToGo /\ call.cycles < PhaseWords

CountInv ==
  /\ OriginKnown
  /\ CallerKnown
  /\ OneWidth => CallCounted /\ WaitIsBounded

\* The step formula of LinkedWithCaller.
WithCaller ==
  state = "HANDSHAKE" /\ state' = "LINKED" /\ ~call.group
    => hs.caller # <<>> /\ call'.to = hs.caller

CountGood == CountInv' /\ WithCaller

\* What the operations on the transmit path do to the count and the deadline.
LEMMA PathCounts ==
  ASSUME NEW t \in TxPaths, NEW n \in Nat
  PROVE  /\ RxOn(t).pending = t.pending /\ RxOn(t).drain = t.drain
         /\ RxOff(t).pending = t.pending /\ RxOff(t).drain = t.drain
         /\ Transmit(n, t).pending = t.pending + n
         /\ Transmit(n, t).drain = t.drain
         /\ ArmDrain(t).pending = t.pending
         /\ ArmDrain(t).drain = (t.pending > 0 \/ t.drain)
         /\ DisarmDrain(t).pending = t.pending
         /\ FlushLead(t).pending = t.pending /\ FlushLead(t).drain = t.drain
         /\ Release(t).pending = t.pending /\ Release(t).drain = t.drain
         /\ ManualOn(t).pending = t.pending /\ ManualOn(t).drain = t.drain
         /\ ManualOff(t).pending = t.pending /\ ManualOff(t).drain = t.drain
         /\ Flushed(n, t).pending = t.pending /\ Flushed(n, t).drain = t.drain
         /\ EnterTx(t).pending = 0
         /\ EnterTx(t).drain = FALSE
<1>1. /\ RxOn(t).pending = t.pending /\ RxOn(t).drain = t.drain
      /\ RxOff(t).pending = t.pending /\ RxOff(t).drain = t.drain
  BY DEF TxPaths, RxOn, RxOff, Release
<1>2. /\ Transmit(n, t).pending = t.pending + n
      /\ Transmit(n, t).drain = t.drain
      /\ ArmDrain(t).pending = t.pending
      /\ ArmDrain(t).drain = (t.pending > 0 \/ t.drain)
      /\ DisarmDrain(t).pending = t.pending
  BY DEF TxPaths, Transmit, ArmDrain, DisarmDrain
<1>3. /\ FlushLead(t).pending = t.pending /\ FlushLead(t).drain = t.drain
      /\ Release(t).pending = t.pending /\ Release(t).drain = t.drain
      /\ ManualOn(t).pending = t.pending /\ ManualOn(t).drain = t.drain
      /\ ManualOff(t).pending = t.pending /\ ManualOff(t).drain = t.drain
      /\ Flushed(n, t).pending = t.pending /\ Flushed(n, t).drain = t.drain
  BY DEF TxPaths, FlushLead, Release, ManualOn, ManualOff, Flushed
<1>4. EnterTx(t).pending = 0 /\ EnterTx(t).drain = FALSE
  BY DEF TxPaths, EnterTx, RxOn, Release
<1>5. QED BY <1>1, <1>2, <1>3, <1>4

\* transition_to() as seen from the new state.
LEMMA Entered ==
  ASSUME TypeOK, NEW new \in States, NEW c \in Calls, NEW h \in Handshakes,
         NEW l \in Links, NEW t \in TxPaths, new # state,
         TransitionTo(new, c, h, l, t)
  PROVE  /\ state' = new /\ previous_state' = state
         /\ pre_link_state' =
              IF new \in {"CALLING", "HANDSHAKE"} THEN state ELSE pre_link_state
         /\ phase' = EntryPhase[new]
         /\ new = "CALLING" => call'.scan = c.scan
         /\ new = "LINKED" /\ ~c.group /\ h.caller # <<>> => call'.to = h.caller
         /\ hs'.concl = "NONE"
         /\ link' = EnterLink(l)
         /\ ~link'.term /\ link'.owTx = l.owTx /\ link'.owPending = l.owPending
         /\ ~link'.retry /\ link'.amd = "NONE"
         /\ tx' = EnterTx(t) /\ tx'.pending = 0 /\ ~tx'.drain
<1>1. /\ state' = new /\ previous_state' = state
      /\ pre_link_state' =
           IF new \in {"CALLING", "HANDSHAKE"} THEN state ELSE pre_link_state
      /\ phase' = EntryPhase[new]
      /\ call' = EnterCall(new, c, h)
      /\ hs' = EnterHs(new, h)
      /\ link' = EnterLink(l)
      /\ tx' = EnterTx(t)
  BY DEF TransitionTo, Moves, TxAfter
<1>2. tx'.pending = 0 /\ ~tx'.drain
  <2>1. 0 \in Nat
    OBVIOUS
  <2>2. QED BY <1>1, <2>1, PathCounts
<1>3. new = "CALLING" => call'.scan = c.scan
  BY <1>1 DEF EnterCall, Calls
<1>4. ASSUME new = "LINKED", ~c.group, h.caller # <<>>
      PROVE  call'.to = h.caller
  <2> DEFINE left == IF state = "LINKED" THEN [c EXCEPT !.to = <<>>] ELSE c
             rest == [left EXCEPT !.cycles = 0, !.heard = {},
                                  !.collecting = FALSE]
             out == OutOfCall(rest)
  <2>1. left \in Calls /\ left.group = c.group
    BY EmptyAddr DEF Calls
  <2>2. BoundPeer(left, h) = h.caller
    BY <1>4, <2>1 DEF BoundPeer
  <2>3. rest \in Calls
    BY <2>1 DEF Calls
  <2> HIDE DEF left, rest
  <2>4. out \in Calls
    BY <2>3 DEF OutOfCall, Calls, Amds
  <2> HIDE DEF out
  <2>5. call' = [out EXCEPT !.to = BoundPeer(left, h)]
    BY <1>1, <1>4 DEF EnterCall, left, rest, out
  <2>6. QED BY <2>2, <2>4, <2>5 DEF Calls
<1>5. hs'.concl = "NONE"
  BY <1>1 DEF EnterHs, Handshakes
<1>6. /\ ~link'.term /\ link'.owTx = l.owTx /\ link'.owPending = l.owPending
      /\ ~link'.retry /\ link'.amd = "NONE"
  BY <1>1 DEF EnterLink, Links
<1>7. QED BY <1>1, <1>2, <1>3, <1>4, <1>5, <1>6

\* A transition establishes the invariant anew.
LEMMA EnteredGood ==
  ASSUME TypeOK, CountInv, NEW new \in States, NEW c \in Calls,
         NEW h \in Handshakes, NEW l \in Links, NEW t \in TxPaths, new # state,
         TransitionTo(new, c, h, l, t),
         new = "CALLING" => /\ state \in Available
                            /\ scan_c' \in ScanWidths /\ c.scan = 2 * scan_c',
         new = "SOUNDING" => state # "CALLING",
         state = "HANDSHAKE" /\ new = "LINKED" =>
           h.caller = hs.caller /\ hs.caller # <<>> /\ c.group = call.group
  PROVE  CountGood
<1>1. /\ state' = new /\ previous_state' = state
      /\ pre_link_state' =
           IF new \in {"CALLING", "HANDSHAKE"} THEN state ELSE pre_link_state
      /\ phase' = EntryPhase[new]
      /\ new = "CALLING" => call'.scan = c.scan
      /\ new = "LINKED" /\ ~c.group /\ h.caller # <<>> => call'.to = h.caller
      /\ hs'.concl = "NONE"
      /\ tx'.pending = 0
  BY Entered
<1>2. OriginKnown'
  BY <1>1 DEF OriginKnown
<1>3. CallerKnown'
  BY <1>1 DEF CallerKnown, EntryPhase
<1>4. CallCounted'
  BY <1>1 DEF CallCounted, EntryPhase, CallingTxPhases
<1>5. WaitIsBounded'
  BY <1>1 DEF WaitIsBounded
<1>6. WithCaller
  BY <1>1 DEF WithCaller
<1>7. QED BY <1>2, <1>3, <1>4, <1>5, <1>6 DEF CountGood, CountInv

\* LINK_TIMEOUT and its like never lead back into a call.
LEMMA LeaveCounted ==
  ASSUME TypeOK, CountInv, NEW c \in Calls, NEW h \in Handshakes, NEW l \in Links,
         NEW t \in TxPaths, state \in {"CALLING", "HANDSHAKE", "LINKED"},
         LeaveLink(c, h, l, t)
  PROVE  CountGood
<1>1. /\ pre_link_state \in States /\ pre_link_state # state
      /\ pre_link_state \notin {"CALLING", "LINKED"}
  BY DEF TypeOK, States, Available
<1>2. pre_link_state = "SOUNDING" => state # "CALLING"
  BY DEF CountInv, OriginKnown, Available
<1>3. QED BY <1>1, <1>2, EnteredGood DEF LeaveLink

\* A step that stays in its state and phase, and waits for no more than before.
LEMMA StaysCounted ==
  ASSUME TypeOK, CountInv, Unmoved, UNCHANGED phase,
         tx' \in TxPaths, tx'.pending <= tx.pending,
         tx'.drain = tx.drain \/ tx'.pending = 0,
         state = "CALLING" =>
           /\ scan_c' = scan_c \/ scan_c' \in ScanWidths
           /\ call'.scan = call.scan /\ call'.amd = call.amd
           /\ call'.cycles = call.cycles,
         state = "HANDSHAKE" => UNCHANGED hs,
         state = "LINKED" => link'.term = link.term /\ link'.owTx = link.owTx
  PROVE  CountGood
<1>1. UNCHANGED <<state, previous_state, pre_link_state>>
  BY DEF Unmoved
<1>2. tx \in TxPaths /\ tx.pending \in Nat /\ tx'.pending \in Nat
  BY DEF TypeOK, TxPaths
<1>3. OriginKnown' /\ CallerKnown'
  BY <1>1 DEF CountInv, OriginKnown, CallerKnown
<1>4. ASSUME OneWidth, state = "CALLING"
      PROVE  CallCounted'
  <2>1. scan_c' = scan_c /\ CallCounted
    BY <1>4 DEF CountInv, OneWidth, CallCounted
  <2>2. PhaseWords' = PhaseWords /\ WordsToGo' = WordsToGo
    BY <1>4, <2>1 DEF PhaseWords, WordsToGo
  <2>3. tx.pending <= WordsToGo => tx'.pending <= WordsToGo
    <3>1. WordsToGo \in Int
      <4>1. PhaseWords \in Nat
        BY Numbers DEF PhaseWords, TypeOK, Calls
      <4>2. call.cycles \in Nat
        BY DEF TypeOK, Calls
      <4>3. QED BY <4>1, <4>2, Numbers DEF WordsToGo
    <3>2. QED BY <1>2, <3>1
  <2>4. QED BY <1>1, <1>2, <1>4, <2>1, <2>2, <2>3 DEF CallCounted
<1>5. ASSUME OneWidth
      PROVE  CallCounted'
  BY <1>1, <1>4, <1>5 DEF CallCounted
<1>6. OneWidth => WaitIsBounded'
  BY <1>1, <1>2 DEF CountInv, WaitIsBounded, In
<1>7. WithCaller
  BY <1>1 DEF WithCaller
<1>8. QED BY <1>3, <1>5, <1>6, <1>7 DEF CountGood, CountInv

\* Neither IDLE nor SCANNING promises anything, nor does SOUNDING once entered.
LEMMA QuietStates ==
  ASSUME TypeOK, CountInv,
         state' \in Available \/ (state = "SOUNDING" /\ Unmoved)
  PROVE  CountGood
<1>1. OriginKnown'
  BY DEF CountInv, OriginKnown, Unmoved, Available
<1>2. state' \notin {"CALLING", "HANDSHAKE", "LINKED"}
  BY DEF Unmoved, Available
<1>3. QED
  BY <1>1, <1>2
     DEF CountGood, CountInv, CallerKnown, CallCounted, WaitIsBounded, In, WithCaller

-----------------------------------------------------------------------------
\* try_next_calling_channel() starts the count afresh.
LEMMA TryNextCounted ==
  ASSUME TypeOK, CountInv, state = "CALLING", TryNextChannel(call, tx), Rest
  PROVE  CountGood
<1>1. tx \in TxPaths /\ call \in Calls /\ hs \in Handshakes /\ link \in Links
  BY DEF TypeOK
<1>2. CASE call.left > 0
  <2>1. /\ phase' = "LBT" /\ tx'.pending = 0 /\ call'.scan = call.scan
        /\ Unmoved
    BY <1>1, <1>2 DEF TryNextChannel, TxPaths, Calls
  <2>2. OneWidth => CallCounted'
    BY <2>1 DEF CountInv, CallCounted, Unmoved, Rest, CallingTxPhases
  <2>3. OriginKnown' /\ CallerKnown' /\ WithCaller /\ WaitIsBounded'
    BY <2>1
       DEF CountInv, OriginKnown, CallerKnown, WithCaller, WaitIsBounded, In, Unmoved
  <2>4. QED BY <2>2, <2>3 DEF CountGood, CountInv
<1>3. CASE ~(call.left > 0)
  BY <1>1, <1>3, LeaveCounted DEF TryNextChannel
<1>4. QED BY <1>2, <1>3

\* A step within CALLING needs only the count and the ACK's deadline.
LEMMA CallingCounted ==
  ASSUME CountInv, state = "CALLING", Unmoved,
         OneWidth => /\ CallCounted'
                     /\ phase' = "SENDING_ACK" /\ tx'.pending > 0 => tx'.drain
  PROVE  CountGood
BY DEF CountGood, CountInv, OriginKnown, CallerKnown, WithCaller, WaitIsBounded,
       In, Unmoved

\* A step within HANDSHAKE needs only the caller and the response's deadline.
LEMMA HandshakeCounted ==
  ASSUME CountInv, state = "HANDSHAKE", Unmoved, CallerKnown',
         OneWidth => (phase' = "SENDING_RESPONSE" /\ tx'.pending > 0 => tx'.drain)
  PROVE  CountGood
BY DEF CountGood, CountInv, OriginKnown, CallCounted, WithCaller, WaitIsBounded,
       In, Unmoved

\* A step within LINKED needs only the deadline of what is being sent.
LEMMA LinkedCounted ==
  ASSUME CountInv, state = "LINKED", Unmoved,
         OneWidth => ((link'.term \/ link'.owTx) /\ tx'.pending > 0 => tx'.drain)
  PROVE  CountGood
BY DEF CountGood, CountInv, OriginKnown, CallerKnown, CallCounted, WithCaller,
       WaitIsBounded, In, Unmoved

\* handle_calling(): the words of a call are queued at the end of its tuning, as
\* many as its phases are going to count.
LEMMA CallingTickCounted ==
  ASSUME TypeOK, CountInv, CallingTick
  PROVE  CountGood
<1>1. tx \in TxPaths /\ call \in Calls /\ hs \in Handshakes /\ link \in Links
      /\ scan_c \in Nat
  BY DEF TypeOK
<1>2. CASE CallingLbtBusy \/ CallingNoResponse
  BY <1>2, TryNextCounted DEF CallingLbtBusy, CallingNoResponse, In
<1>3. CASE CallingLbtClear
  <2>1. tx'.pending = tx.pending /\ phase' = "TUNING"
    BY <1>1, <1>3, PathCounts, Numbers DEF CallingLbtClear
  <2>2. QED
    BY <1>3, <2>1, CallingCounted
       DEF CallingLbtClear, In, CountInv, CallCounted, Unmoved, Rest, CallingTxPhases
<1>4. CASE CallingTuned
  <2>1. CallWords(call) \in Nat
    BY <1>1, BurstLengths
  <2>2. tx'.pending = tx.pending + CallWords(call)
    BY <1>1, <1>4, <2>1, PathCounts DEF CallingTuned
  <2>3. /\ call'.scan = call.scan /\ call'.amd = call.amd /\ call'.cycles = 0
        /\ scan_c' = scan_c /\ state' = "CALLING"
    BY <1>1, <1>4 DEF CallingTuned, Calls, Rest, In, Unmoved
  <2>4. ASSUME OneWidth
        PROVE  CallCounted'
    <3>1. tx.pending = 0 /\ scan_c \in ScanWidths /\ call.scan = 2 * scan_c
      BY <1>4, <2>4 DEF CallingTuned, In, CountInv, CallCounted
    <3>2. tx'.pending = CallWords(call)
      BY <2>1, <2>2, <3>1
    <3>3. CASE scan_c = 0
      <4>1. phase' = "LEADING_CALL" /\ call.scan = 0
        BY <1>4, <3>1, <3>3 DEF CallingTuned
      <4>2. LeadWords > 0
        BY StateMachineAssumption
      <4>3. PhaseWords' = LeadWords + (IF call.amd = "NONE" THEN 0 ELSE MsgWords)
        BY <2>3, <4>1 DEF PhaseWords
      <4>4. PhaseWords' > 0 /\ WordsToGo' = CallWords(call)
        BY <2>3, <4>1, <4>2, <4>3, Numbers DEF WordsToGo, CallWords
      <4>5. QED
        BY <2>1, <2>3, <3>1, <3>2, <4>1, <4>4 DEF CallCounted, CallingTxPhases
    <3>4. CASE scan_c # 0
      <4>1. /\ phase' \in {"GROUP_SCANNING_CALL", "SCANNING_CALL"}
            /\ 2 * scan_c > 0 /\ 2 * scan_c \in Nat
        BY <1>1, <1>4, <3>4 DEF CallingTuned
      <4>2. PhaseWords' = call.scan
        BY <2>3, <3>1, <4>1 DEF PhaseWords
      <4>3. WordsToGo' = CallWords(call)
        BY <2>3, <3>1, <4>1, <4>2, Numbers
           DEF WordsToGo, CallWords
      <4>4. QED
        BY <2>1, <2>3, <3>1, <3>2, <4>1, <4>2, <4>3
           DEF CallCounted, CallingTxPhases
    <3>5. QED BY <3>3, <3>4
  <2>5. phase' # "SENDING_ACK"
    BY <1>4 DEF CallingTuned
  <2>6. QED
    BY <1>4, <2>4, <2>5, CallingCounted DEF CallingTuned, In
<1>5. CASE CallingResponseSettled
  <2>1. /\ tx'.pending = tx.pending /\ phase' = "SENDING_ACK"
        /\ call'.scan = call.scan
    BY <1>1, <1>5, PathCounts, Numbers DEF CallingResponseSettled, Calls
  <2>2. QED
    BY <1>1, <1>5, <2>1, CallingCounted
       DEF CallingResponseSettled, In, CountInv, CallCounted, Unmoved, Rest,
           CallingTxPhases
<1>6. CASE CallingBuildAck
  <2>1. Transmit(FrameWords, tx) \in TxPaths
    BY <1>1, Numbers, KeepsTransmit DEF Keeps
  <2>2. tx'.pending > 0 => tx'.drain
    BY <1>6, <2>1, PathCounts, Numbers DEF CallingBuildAck
  <2>3. QED
    BY <1>6, <2>2, CallingCounted
       DEF CallingBuildAck, In, CountInv, CallCounted, Unmoved, Rest,
           CallingTxPhases
<1>7. CASE CallingAckStalled
  <2>1. DisarmDrain(tx) \in TxPaths
    BY <1>1, KeepsDrain DEF Keeps
  <2>2. QED BY <1>1, <1>7, <2>1, LeaveCounted DEF CallingAckStalled, In
<1>8. CASE CallingBudgetSpent
  BY <1>1, <1>8, LeaveCounted DEF CallingBudgetSpent
<1>9. QED
  BY <1>2, <1>3, <1>4, <1>5, <1>6, <1>7, <1>8 DEF CallingTick

\* handle_handshake(): it links, or answers, or gives up; only the caller's
\* conclusion lets it go on.
LEMMA HandshakeTickCounted ==
  ASSUME TypeOK, CountInv, HandshakeTick
  PROVE  CountGood
<1>1. tx \in TxPaths /\ call \in Calls /\ hs \in Handshakes /\ link \in Links
  BY DEF TypeOK
<1>2. ASSUME LeaveLink(call, hs, link, tx), state = "HANDSHAKE"
      PROVE  CountGood
  BY <1>1, <1>2, LeaveCounted
<1>3. CASE HandshakeSilence \/ HandshakeMessageTooLong \/ HandshakeDeclined
             \/ HandshakeChannelBusy \/ HandshakeNoAck \/ HandshakeBudgetSpent
  BY <1>2, <1>3
     DEF HandshakeSilence, HandshakeMessageTooLong, HandshakeDeclined,
         HandshakeChannelBusy, HandshakeNoAck, HandshakeBudgetSpent, In
<1>4. ASSUME NEW c \in Calls, c.group = call.group, state = "HANDSHAKE",
             hs.caller # <<>>, Established(c, hs, link, tx)
      PROVE  CountGood
  BY <1>1, <1>4, EnteredGood DEF Established, States
<1>5. CASE HandshakeAllCallSettled
  <2> DEFINE c == [call EXCEPT !.to = hs.caller]
  <2>1. c \in Calls /\ c.group = call.group
    BY <1>1 DEF Calls, Handshakes
  <2>2. hs.caller # <<>> /\ state = "HANDSHAKE" /\ Established(c, hs, link, tx)
    BY <1>5 DEF HandshakeAllCallSettled, In, CountInv, CallerKnown
  <2>3. QED BY <1>4, <2>1, <2>2
<1>6. CASE HandshakeAckSettled
  <2>1. hs.caller # <<>>
    BY <1>6 DEF HandshakeAckSettled, In, CountInv, CallerKnown
  <2>2. QED BY <1>1, <1>4, <1>6, <2>1 DEF HandshakeAckSettled, In
<1>7. CASE HandshakeCallSettled \/ HandshakeSlotReached
  <2>1. /\ state = "HANDSHAKE" /\ Unmoved /\ UNCHANGED hs
        /\ phase' \in {"SLOT_WAIT", "CHANNEL_CHECK"} /\ hs.caller # <<>>
    BY <1>7
       DEF HandshakeCallSettled, HandshakeSlotReached, In, CountInv, CallerKnown
  <2>2. CallerKnown'
    BY <2>1 DEF CallerKnown
  <2>3. QED BY <2>1, <2>2, HandshakeCounted
<1>8. CASE HandshakeRespond
  <2>1. RxOff(tx) \in TxPaths
    BY <1>1, KeepsRxOff DEF Keeps
  <2>2. Transmit(FrameWords, RxOff(tx)) \in TxPaths
    BY <2>1, Numbers, KeepsTransmit DEF Keeps
  <2>3. tx'.pending > 0 => tx'.drain
    BY <1>8, <2>2, PathCounts, Numbers DEF HandshakeRespond
  <2>4. CallerKnown'
    BY <1>8 DEF HandshakeRespond, In, CountInv, CallerKnown
  <2>5. QED
    BY <1>8, <2>3, <2>4, HandshakeCounted DEF HandshakeRespond, In
<1>9. CASE HandshakeResponseStalled
  <2>1. DisarmDrain(tx) \in TxPaths
    BY <1>1, KeepsDrain DEF Keeps
  <2>2. QED BY <1>1, <1>9, <2>1, LeaveCounted DEF HandshakeResponseStalled, In
<1>10. QED
  BY <1>3, <1>5, <1>6, <1>7, <1>8, <1>9 DEF HandshakeTick

\* handle_linked(): every burst it starts arms the deadline, and a deadline is
\* only cleared with the burst.
LEMMA LinkedTickCounted ==
  ASSUME TypeOK, CountInv, LinkedTick
  PROVE  CountGood
<1>1. tx \in TxPaths /\ call \in Calls /\ hs \in Handshakes /\ link \in Links
  BY DEF TypeOK
<1>2. DisarmDrain(tx) \in TxPaths /\ RxOn(DisarmDrain(tx)) \in TxPaths
  BY <1>1, KeepsDrain, KeepsRxOn DEF Keeps
<1>3. ASSUME NEW l \in TwasSettled
      PROVE  /\ l \in Links /\ l.term = link.term /\ l.owTx = link.owTx
             /\ l.owPending = link.owPending
  BY <1>1, EmptyAddr DEF TwasSettled, Links
<1>4. CASE LinkedTerminationStalled
  <2>1. [link EXCEPT !.term = FALSE] \in Links
    BY <1>1 DEF Links
  <2>2. QED
    BY <1>1, <1>2, <1>4, <2>1, LeaveCounted DEF LinkedTerminationStalled
<1>5. CASE LinkedOrderwireStalled
  <2>1. ~link'.term /\ ~link'.owTx
    BY <1>1, <1>5 DEF LinkedOrderwireStalled, Links
  <2>2. QED
    BY <1>5, <2>1, LinkedCounted DEF LinkedOrderwireStalled
<1>6. CASE LinkedPeerTerminated
  <2>1. [link EXCEPT !.twas = <<>>] \in Links
    BY <1>1, EmptyAddr DEF Links
  <2>2. QED
    BY <1>1, <1>6, <2>1, LeaveCounted DEF LinkedPeerTerminated
<1>7. CASE LinkedOrderwireStart
  <2>1. tx' = ArmDrain(Transmit(OwWords, RxOff(tx)))
    BY <1>7 DEF LinkedOrderwireStart
  <2>2. Transmit(OwWords, RxOff(tx)) \in TxPaths
    BY <1>1, Numbers, KeepsRxOff, KeepsTransmit DEF Keeps
  <2>3. tx'.pending > 0 => tx'.drain
    BY <2>1, <2>2, PathCounts, Numbers
  <2>4. QED
    BY <1>7, <2>3, LinkedCounted DEF LinkedOrderwireStart, LinkedIdle
<1>8. CASE LinkedInactive
  <2>1. PICK l \in TwasSettled :
          /\ state = "LINKED"
          /\ LeaveLink(call, hs, l,
                       IF call.to = <<>> THEN tx ELSE Transmit(FrameWords, tx))
    BY <1>8 DEF LinkedInactive, LinkedQuiet, LinkedIdle
  <2>2. (IF call.to = <<>> THEN tx ELSE Transmit(FrameWords, tx)) \in TxPaths
    BY <1>1, Numbers, KeepsTransmit DEF Keeps
  <2>3. QED BY <1>1, <1>3, <2>1, <2>2, LeaveCounted
<1>9. CASE LinkedBackstop
  BY <1>1, <1>9, LeaveCounted DEF LinkedBackstop
<1>10. ASSUME NEW l \in TwasSettled, state = "LINKED", Unmoved,
              UNCHANGED <<phase, tx>>,
              link'.term = l.term, link'.owTx = l.owTx
       PROVE  CountGood
  <2>1. tx' \in TxPaths /\ tx'.pending <= tx.pending /\ tx'.drain = tx.drain
    BY <1>1, <1>10 DEF TxPaths
  <2>2. link'.term = link.term /\ link'.owTx = link.owTx
    BY <1>3, <1>10
  <2>3. QED BY <1>10, <2>1, <2>2, StaysCounted
<1>11. CASE LinkedForeignTwas
  BY <1>1, <1>10, <1>11 DEF LinkedForeignTwas, TwasSettled
<1>12. CASE LinkedAmdRetryDue
  <2>1. PICK l \in TwasSettled :
          /\ link' = [l EXCEPT !.retry = FALSE, !.owPending = "AMD"]
          /\ LinkedIdle(l) /\ Unmoved /\ UNCHANGED <<phase, tx>>
    BY <1>12 DEF LinkedAmdRetryDue, LinkedQuiet
  <2>2. link'.term = l.term /\ link'.owTx = l.owTx
    BY <1>3, <2>1 DEF Links
  <2>3. QED BY <1>10, <2>1, <2>2 DEF LinkedIdle
<1>13. CASE LinkedAmdNoResponse
  <2>1. PICK l \in TwasSettled :
          /\ link' = RetryOrFail(l)
          /\ LinkedIdle(l) /\ Unmoved /\ UNCHANGED <<phase, tx>>
    BY <1>13 DEF LinkedAmdNoResponse, LinkedListening, LinkedQuiet
  <2>2. link'.term = l.term /\ link'.owTx = l.owTx
    BY <1>3, <2>1 DEF Links, RetryOrFail
  <2>3. QED BY <1>10, <2>1, <2>2 DEF LinkedIdle
<1>14. CASE LinkedAmdResponseSettled
  <2>1. PICK l \in TwasSettled :
          /\ link' = [l EXCEPT !.amd = "SENDING_ACK", !.listen = FALSE,
                               !.owPending = "ACK"]
          /\ LinkedIdle(l) /\ Unmoved /\ UNCHANGED <<phase, tx>>
    BY <1>14 DEF LinkedAmdResponseSettled, LinkedListening, LinkedQuiet
  <2>2. link'.term = l.term /\ link'.owTx = l.owTx
    BY <1>3, <2>1 DEF Links
  <2>3. QED BY <1>10, <2>1, <2>2 DEF LinkedIdle
<1>15. CASE LinkedAmdAckWaited
  <2>1. PICK l \in TwasSettled :
          /\ link' = [l EXCEPT !.amd = "NONE"]
          /\ LinkedIdle(l) /\ Unmoved /\ UNCHANGED <<phase, tx>>
    BY <1>15 DEF LinkedAmdAckWaited, LinkedQuiet
  <2>2. link'.term = l.term /\ link'.owTx = l.owTx
    BY <1>3, <2>1 DEF Links
  <2>3. QED BY <1>10, <2>1, <2>2 DEF LinkedIdle
<1>16. QED
  BY <1>4, <1>5, <1>6, <1>7, <1>8, <1>9, <1>11, <1>12, <1>13, <1>14, <1>15
     DEF LinkedTick

\* SOUNDING_COMPLETE goes on to the next channel, or back to where the sounding
\* came from, which is never a call.
LEMMA SoundingCompleteCounted ==
  ASSUME TypeOK, CountInv, state = "SOUNDING", SoundingComplete(tx)
  PROVE  CountGood
<1>1. tx \in TxPaths /\ call \in Calls /\ hs \in Handshakes /\ link \in Links
      /\ previous_state \in States
  BY DEF TypeOK
<1>2. CASE sweep > 1
  BY <1>2, QuietStates DEF SoundingComplete, Unmoved
<1>3. CASE ~(sweep > 1) /\ previous_state = "SOUNDING"
  BY <1>3, QuietStates DEF SoundingComplete, TransitionTo, Moves, Unmoved
<1>4. CASE ~(sweep > 1) /\ previous_state # "SOUNDING"
  <2>1. TransitionTo(previous_state, call, hs, link, tx)
    BY <1>4 DEF SoundingComplete
  <2>2. previous_state # "CALLING"
    BY DEF CountInv, OriginKnown
  <2>3. QED BY <1>1, <1>4, <2>1, <2>2, EnteredGood
<1>5. QED BY <1>2, <1>3, <1>4

\* handle_sounding(), the scanner's pause and the broadcast's safety net.
LEMMA OtherTicksCounted ==
  ASSUME TypeOK, TypeOK', CountInv, SoundingTick \/ ScanPauseOver \/ BroadcastStalled
  PROVE  CountGood
<1>1. tx \in TxPaths /\ tx' \in TxPaths
  BY DEF TypeOK
<1>2. CASE SoundingLbtBusy \/ SoundingWindowClosed
  BY <1>2, SoundingCompleteCounted DEF SoundingLbtBusy, SoundingWindowClosed, In
<1>3. CASE SoundingTransmit \/ SoundingSent
  BY <1>3, QuietStates DEF SoundingTransmit, SoundingSent, In
<1>4. CASE ScanPauseOver
  BY <1>4, QuietStates DEF ScanPauseOver, In, Unmoved, Available
<1>5. CASE BroadcastStalled
  <2> DEFINE cleared == [tx EXCEPT !.drain = FALSE, !.pending = 0]
  <2>1. cleared \in TxPaths /\ cleared.pending = 0
    BY <1>1 DEF TxPaths
  <2>2. 0 \in Nat /\ tx' = RxOn(cleared)
    BY <1>5 DEF BroadcastStalled
  <2> HIDE DEF cleared
  <2>3. tx'.pending = 0
    BY <2>1, <2>2, PathCounts
  <2>4. tx'.pending <= tx.pending
    BY <1>1, <2>3 DEF TxPaths
  <2>5. QED
    BY <1>1, <1>5, <2>3, <2>4, StaysCounted DEF BroadcastStalled
<1>6. QED
  BY <1>2, <1>3, <1>4, <1>5 DEF SoundingTick

\* on_word_complete(): what the phases count and what the burst waits for go
\* down together.
LEMMA WordRenderedCounted ==
  ASSUME TypeOK, TypeOK', CountInv, WordRendered
  PROVE  CountGood
<1> DEFINE rendered == [tx EXCEPT !.air = @ - 1]
           done == Completed(rendered)
           busy == state = "LINKED" /\ (link.term \/ link.owTx)
<1>1. tx \in TxPaths /\ tx' \in TxPaths /\ call \in Calls /\ hs \in Handshakes
      /\ link \in Links
  BY DEF TypeOK
<1>2. /\ rendered \in TxPaths /\ rendered.pending = tx.pending
      /\ rendered.drain = tx.drain
  BY <1>1 DEF WordRendered, TxPaths
<1>3. OnWordComplete(rendered)
  BY DEF WordRendered
<1> HIDE DEF rendered
<1>4. /\ done \in TxPaths /\ done.drain = tx.drain
      /\ done.pending = IF tx.pending > 0 THEN tx.pending - 1 ELSE 0
  BY <1>2 DEF Completed, TxPaths
<1>5. done.pending <= tx.pending /\ done.pending \in Nat /\ tx.pending \in Nat
  BY <1>1, <1>4 DEF TxPaths
<1> HIDE DEF done
<1>6. /\ DisarmDrain(done) \in TxPaths /\ RxOn(done) \in TxPaths
      /\ RxOn(done).pending = done.pending
      /\ RxOn(DisarmDrain(done)).pending = done.pending
  <2>1. DisarmDrain(done) \in TxPaths /\ 0 \in Nat
    BY <1>4, KeepsDrain DEF Keeps
  <2>2. RxOn(done) \in TxPaths
    BY <1>4, KeepsRxOn DEF Keeps
  <2>3. QED BY <1>4, <2>1, <2>2, PathCounts
<1>7. UNCHANGED scan_c
  BY <1>3 DEF OnWordComplete
<1>8. CASE busy /\ CompletedInLinked(done)
  <2>1. CASE link.term /\ done.pending = 0
    <3>1. [link EXCEPT !.term = FALSE] \in Links
      BY <1>1 DEF Links
    <3>2. QED
      BY <1>1, <1>6, <1>8, <2>1, <3>1, LeaveCounted DEF CompletedInLinked
  <2>2. CASE ~link.term /\ done.pending = 0
    <3>1. tx' = RxOn(DisarmDrain(done)) /\ Unmoved
      BY <1>8, <2>2 DEF CompletedInLinked
    <3>2. QED BY <1>6, <1>8, <2>2, <3>1, LinkedCounted
  <2>3. CASE done.pending # 0
    <3>1. tx' = done /\ Unmoved /\ UNCHANGED <<phase, call, hs, link>>
      BY <1>8, <2>3 DEF CompletedInLinked
    <3>2. QED BY <1>1, <1>4, <1>5, <1>8, <3>1, StaysCounted
  <2>4. QED BY <2>1, <2>2, <2>3
<1>9. CASE state = "SOUNDING" /\ CompletedInSounding(done)
  BY <1>9, QuietStates DEF CompletedInSounding
<1>10. CASE CompletedBroadcast(done)
  BY <1>1, <1>4, <1>5, <1>6, <1>7, <1>10, StaysCounted DEF CompletedBroadcast
<1>11. CASE state = "CALLING" /\ rendered.pending > 0 /\ CompletedInCalling(done)
  <2> DEFINE cycles == call.cycles + 1
             counted == [call EXCEPT !.cycles = cycles]
             reset == [call EXCEPT !.cycles = 0]
  <2>1. /\ counted \in Calls /\ counted.scan = call.scan /\ counted.amd = call.amd
        /\ counted.cycles = call.cycles + 1
        /\ reset.scan = call.scan /\ reset.amd = call.amd /\ reset.cycles = 0
        /\ call.cycles \in Nat
    BY <1>1 DEF Calls
  <2>2. tx.pending > 0 /\ done.pending = tx.pending - 1
    BY <1>2, <1>4, <1>5, <1>11
  <2>3. PhaseWords \in Nat
    BY <1>1, Numbers DEF PhaseWords, TypeOK, Calls
  <2> HIDE DEF counted, reset
  <2>4. CASE /\ phase \in CallingTxPhases /\ cycles >= PhaseWords
             /\ phase' = NextPhase /\ call' = reset
             /\ tx' = IF NextPhase = "LISTENING" THEN RxOn(done) ELSE done
             /\ Unmoved
    <3>1. tx'.pending = tx.pending - 1
      BY <1>6, <2>2, <2>4
    <3>2. phase' # "SENDING_ACK"
      BY <2>4 DEF NextPhase
    <3>3. ASSUME OneWidth
          PROVE  CallCounted'
      <4>1. /\ scan_c \in ScanWidths /\ call.scan = 2 * scan_c
            /\ tx.pending <= WordsToGo /\ call.cycles < PhaseWords
        BY <1>11, <2>4, <3>3 DEF CountInv, CallCounted
      <4>2. call.cycles = PhaseWords - 1
        BY <2>1, <2>3, <2>4, <4>1
      <4>3. CASE phase \in {"SCANNING_CALL", "GROUP_SCANNING_CALL"}
        <5>1. phase' = "LEADING_CALL"
          BY <2>4, <4>3 DEF NextPhase
        <5>2. LeadWords \in Nat \ {0}
          BY StateMachineAssumption
        <5>3. PhaseWords' = LeadWords + (IF call.amd = "NONE" THEN 0 ELSE MsgWords)
          BY <2>1, <2>4, <5>1 DEF PhaseWords
        <5>4. WordsToGo' = PhaseWords' + ConcWords
          BY <2>1, <2>4, <5>1, <5>3, <5>2, Numbers DEF WordsToGo
        <5>5. WordsToGo = 1 + PhaseWords' + ConcWords
          BY <2>3, <4>2, <4>3, <5>2, <5>3, Numbers DEF WordsToGo
        <5>6. PhaseWords' > 0
          BY <5>2, <5>3, Numbers
        <5>7. tx'.pending <= WordsToGo'
          BY <1>5, <3>1, <4>1, <5>2, <5>3, <5>4, <5>5, Numbers
        <5>8. QED
          BY <1>7, <1>11, <2>1, <2>4, <4>1, <5>1, <5>6, <5>7
             DEF CallCounted, CallingTxPhases, Unmoved
      <4>4. CASE phase = "LEADING_CALL"
        <5>1. phase' = "CONCLUSION"
          BY <2>4, <4>4 DEF NextPhase
        <5>2. ConcWords \in Nat \ {0}
          BY StateMachineAssumption
        <5>3. PhaseWords' = ConcWords
          BY <5>1 DEF PhaseWords
        <5>4. WordsToGo' = ConcWords
          BY <2>1, <2>4, <5>1, <5>2, <5>3 DEF WordsToGo
        <5>5. WordsToGo = 1 + ConcWords
          BY <2>3, <4>2, <4>4, <5>2 DEF WordsToGo
        <5>6. tx'.pending <= WordsToGo' /\ PhaseWords' > 0
          BY <1>5, <3>1, <4>1, <5>2, <5>3, <5>4, <5>5
        <5>7. QED
          BY <1>7, <1>11, <2>1, <2>4, <4>1, <5>1, <5>6
             DEF CallCounted, CallingTxPhases, Unmoved
      <4>5. CASE phase = "CONCLUSION"
        <5>1. phase' = "LISTENING"
          BY <2>4, <4>5 DEF NextPhase
        <5>2. WordsToGo = 1
          BY <2>3, <4>2, <4>5 DEF WordsToGo
        <5>3. tx'.pending = 0
          BY <1>5, <2>2, <3>1, <4>1, <5>2
        <5>4. QED
          BY <1>7, <1>11, <2>1, <2>4, <4>1, <5>1, <5>3
             DEF CallCounted, CallingTxPhases, Unmoved
      <4>6. QED BY <2>4, <4>3, <4>4, <4>5 DEF CallingTxPhases
    <3>4. QED BY <1>11, <2>4, <3>2, <3>3, CallingCounted
  <2>5. CASE /\ phase \in CallingTxPhases /\ ~(cycles >= PhaseWords)
             /\ phase' = phase /\ call' = counted /\ tx' = done /\ Unmoved
    <3>1. ASSUME OneWidth
          PROVE  CallCounted'
      <4>1. /\ scan_c \in ScanWidths /\ call.scan = 2 * scan_c
            /\ tx.pending <= WordsToGo
        BY <1>11, <2>5, <3>1 DEF CountInv, CallCounted
      <4>2. PhaseWords' = PhaseWords
        BY <1>7, <2>1, <2>5 DEF PhaseWords
      <4>3. WordsToGo' = WordsToGo - 1
        <5>1. WordsToGo' = PhaseWords - (call.cycles + 1)
                             + (WordsToGo - (PhaseWords - call.cycles))
          BY <2>1, <2>3, <2>5, <4>2, Numbers DEF WordsToGo
        <5>2. WordsToGo \in Int
          BY <2>1, <2>3, Numbers DEF WordsToGo
        <5>3. QED BY <2>1, <2>3, <5>1, <5>2
      <4>4. WordsToGo \in Int
        BY <2>1, <2>3, Numbers DEF WordsToGo
      <4>5. tx'.pending <= WordsToGo' /\ call'.cycles < PhaseWords'
        BY <1>5, <2>1, <2>2, <2>3, <2>5, <4>1, <4>2, <4>3, <4>4
      <4>6. QED
        BY <1>7, <1>11, <2>1, <2>5, <4>1, <4>5
           DEF CallCounted, CallingTxPhases, Unmoved
    <3>2. phase' # "SENDING_ACK"
      BY <2>5 DEF CallingTxPhases
    <3>3. QED BY <1>11, <2>5, <3>1, <3>2, CallingCounted
  <2>6. CASE /\ phase = "SENDING_ACK" /\ call.amd = "NO_LINK"
             /\ LeaveLink(counted, hs, link, done)
    BY <1>1, <1>4, <1>11, <2>1, <2>6, LeaveCounted
  <2>7. CASE phase = "SENDING_ACK" /\ Established(counted, hs, link, done)
    BY <1>1, <1>4, <1>11, <2>1, <2>7, EnteredGood DEF Established, States
  <2>8. CASE /\ phase \notin CallingTxPhases /\ call' = counted /\ tx' = done
             /\ Unmoved /\ UNCHANGED phase
    <3>1. OneWidth => CallCounted'
      BY <1>5, <1>7, <1>11, <2>1, <2>2, <2>8
         DEF CountInv, CallCounted, Unmoved
    <3>2. OneWidth /\ phase' = "SENDING_ACK" /\ tx'.pending > 0 => tx'.drain
      BY <1>4, <1>5, <1>11, <2>2, <2>8 DEF CountInv, WaitIsBounded, In
    <3>3. QED BY <1>11, <2>8, <3>1, <3>2, CallingCounted
  <2>9. QED
    BY <1>11, <2>4, <2>5, <2>6, <2>7, <2>8
       DEF CompletedInCalling, counted, reset
<1>12. CASE In("HANDSHAKE", "SENDING_RESPONSE") /\ CompletedInHandshake(done)
  <2>1. CASE done.pending = 0
    <3>1. /\ phase' = "WAIT_ACK" /\ Unmoved /\ hs'.caller = hs.caller
      BY <1>1, <1>12, <2>1 DEF CompletedInHandshake, Handshakes
    <3>2. CallerKnown'
      BY <1>12, <3>1 DEF CountInv, CallerKnown, In
    <3>3. QED BY <1>12, <3>1, <3>2, HandshakeCounted DEF In
  <2>2. CASE done.pending # 0
    BY <1>1, <1>4, <1>5, <1>7, <1>12, <2>2, StaysCounted
       DEF CompletedInHandshake, In
  <2>3. QED BY <2>1, <2>2
<1>13. CASE tx' = rendered /\ Unmoved /\ UNCHANGED <<phase, call, hs, link>>
  BY <1>1, <1>2, <1>5, <1>7, <1>13, StaysCounted
<1>14. QED
  BY <1>3, <1>8, <1>9, <1>10, <1>11, <1>12, <1>13 DEF OnWordComplete, done

\* What is heard in a handshake never takes the caller's address away.
LEMMA CallerStays ==
  ASSUME TypeOK, CallerKnown, state = "HANDSHAKE", Unmoved, UNCHANGED phase,
         NEW w \in Words,
         hs' = CASE phase = "WAIT_CYCLE_END" -> CallingFrameWord(w)
                 [] phase = "WAIT_ACK" -> AckWord(w)
                 [] OTHER -> Heard
  PROVE  CallerKnown'
<1>1. hs \in Handshakes
  BY DEF TypeOK
<1>2. Heard \in Handshakes /\ Heard.caller = hs.caller /\ Heard.concl = hs.concl
  <2>1. Heard \in Handshakes
    BY HeardTyped
  <2>2. QED BY <1>1, <2>1 DEF Heard, Handshakes
<1>3. hs.caller # <<>> => Extended(hs.caller, w) # <<>>
  BY <1>1 DEF Extended, Handshakes, Addrs
<1>4. CASE phase = "WAIT_CYCLE_END"
  <2>1. hs' = CallingFrameWord(w)
    BY <1>4
  <2>2. CASE Role(w) \in {"TIS_CALLER", "TWAS_WORD"} /\ hs.concl = "NONE"
    <3>1. hs'.caller = <<w.addr>>
      BY <1>2, <2>1, <2>2 DEF CallingFrameWord, Handshakes
    <3>2. QED BY <3>1 DEF CallerKnown
  <2>3. CASE Role(w) = "DATA_EXTENSION"
    <3>1. hs'.caller = Extended(hs.caller, w) /\ hs'.concl = hs.concl
      BY <1>2, <2>1, <2>3 DEF CallingFrameWord, Handshakes
    <3>2. QED BY <1>3, <1>4, <3>1 DEF CallerKnown, Unmoved
  <2>4. CASE ~(Role(w) \in {"TIS_CALLER", "TWAS_WORD"} /\ hs.concl = "NONE")
             /\ Role(w) # "DATA_EXTENSION"
    <3>1. hs'.caller = hs.caller /\ hs'.concl = hs.concl
      BY <1>2, <2>1, <2>4 DEF CallingFrameWord, Handshakes
    <3>2. QED BY <3>1 DEF CallerKnown, Unmoved
  <2>5. QED BY <2>2, <2>3, <2>4
<1>5. CASE phase # "WAIT_CYCLE_END"
  <2>1. hs'.caller = hs.caller
    BY <1>2, <1>5 DEF AckWord, Handshakes
  <2>2. QED BY <1>5, <2>1 DEF CallerKnown, Unmoved
<1>6. QED BY <1>4, <1>5

\* The address words of a call lead into a handshake.
LEMMA IncomingCallCounted ==
  ASSUME TypeOK, CountInv, NEW w \in Words, IncomingCall(w),
         state \in Available \cup {"SOUNDING"}
  PROVE  CountGood
<1>1. call \in Calls /\ link \in Links /\ tx \in TxPaths
      /\ "HANDSHAKE" \in States /\ "HANDSHAKE" # state
  BY DEF TypeOK, States, Available
<1>2. [call EXCEPT !.to = <<w.addr>>] \in Calls
  <2>1. <<w.addr>> \in Addrs
    BY HeardTyped DEF Addrs
  <2>2. QED BY <1>1, <2>1 DEF Calls
<1>3. Heard \in Handshakes /\ [Heard EXCEPT !.silent = TRUE] \in Handshakes
  BY HeardTyped DEF Handshakes
<1>4. ASSUME NEW c \in Calls, NEW h \in Handshakes, CallDetected(c, h)
      PROVE  CountGood
  <2>1. TransitionTo("HANDSHAKE", c, h, link, tx)
    BY <1>4 DEF CallDetected
  <2>2. QED BY <1>1, <2>1, EnteredGood DEF Available
<1>5. QED BY <1>1, <1>2, <1>3, <1>4 DEF IncomingCall

\* process_received_word() and on_invalid_word_().
LEMMA WordDecodedCounted ==
  ASSUME TypeOK, TypeOK', CountInv, WordDecoded
  PROVE  CountGood
<1>1. tx \in TxPaths /\ tx' \in TxPaths /\ call \in Calls /\ hs \in Handshakes
      /\ link \in Links
  BY DEF TypeOK
<1>2. ASSUME UNCHANGED tx
      PROVE  tx'.pending <= tx.pending /\ tx'.drain = tx.drain
  BY <1>1, <1>2 DEF TxPaths
<1>3. ASSUME state = "HANDSHAKE", Unmoved, UNCHANGED <<phase, tx>>, CallerKnown'
      PROVE  CountGood
  <2>1. OneWidth => (phase' = "SENDING_RESPONSE" /\ tx'.pending > 0 => tx'.drain)
    BY <1>3 DEF CountInv, WaitIsBounded, In
  <2>2. QED BY <1>3, <2>1, HandshakeCounted
<1>4. ASSUME NEW w \in Words, ReceiveWord(w)
      PROVE  CountGood
  <2>1. Heard \in Handshakes /\ UNCHANGED scan_c
    BY <1>4, HeardTyped DEF ReceiveWord
  <2>2. CASE state \in Available /\ HearInAvailable(w)
    <3>1. CASE IncomingCall(w)
      BY <2>2, <3>1, IncomingCallCounted
    <3>2. CASE ~IncomingCall(w)
      BY <2>2, <3>2, QuietStates DEF HearInAvailable, Unmoved
    <3>3. QED BY <3>1, <3>2
  <2>3. CASE state = "CALLING" /\ HearInCalling(w)
    <3>1. CASE LeaveLink(call, Heard, link, tx)
      BY <1>1, <2>1, <2>3, <3>1, LeaveCounted
    <3>2. CASE ~LeaveLink(call, Heard, link, tx)
      <4>1. /\ Unmoved /\ UNCHANGED <<phase, tx>>
            /\ call' \in {ResponseWord(w), call}
        BY <2>3, <3>2 DEF HearInCalling
      <4>2. /\ call'.scan = call.scan /\ call'.amd = call.amd
            /\ call'.cycles = call.cycles
        BY <1>1, <4>1 DEF ResponseWord, Calls
      <4>3. QED BY <1>1, <1>2, <2>1, <2>3, <4>1, <4>2, StaysCounted
    <3>3. QED BY <3>1, <3>2
  <2>4. CASE state = "HANDSHAKE" /\ HearInHandshake(w)
    <3>1. CASE LeaveLink(call, Heard, link, tx)
      BY <1>1, <2>1, <2>4, <3>1, LeaveCounted
    <3>2. CASE ~LeaveLink(call, Heard, link, tx)
      <4>1. /\ Unmoved /\ UNCHANGED <<phase, tx>>
            /\ hs' = CASE phase = "WAIT_CYCLE_END" -> CallingFrameWord(w)
                       [] phase = "WAIT_ACK" -> AckWord(w)
                       [] OTHER -> Heard
        BY <2>4, <3>2 DEF HearInHandshake
      <4>2. CallerKnown'
        BY <2>4, <4>1, CallerStays DEF CountInv
      <4>3. QED BY <1>3, <2>4, <4>1, <4>2
    <3>3. QED BY <3>1, <3>2
  <2>5. CASE state = "LINKED" /\ HearInLinked(w)
    <3>1. link' \in {LinkedWord(w), link}
      BY <2>5 DEF HearInLinked
    <3>2. link'.term = link.term /\ link'.owTx = link.owTx
      BY <1>1, <3>1 DEF LinkedWord, Links
    <3>3. QED BY <1>1, <1>2, <2>5, <3>2, StaysCounted DEF HearInLinked
  <2>6. CASE state = "SOUNDING" /\ HearInSounding(w)
    <3>1. CASE SoundingComplete(tx)
      BY <2>6, <3>1, SoundingCompleteCounted
    <3>2. CASE IncomingCall(w)
      BY <2>6, <3>2, IncomingCallCounted
    <3>3. CASE ~SoundingComplete(tx) /\ ~IncomingCall(w)
      BY <2>6, <3>3, QuietStates DEF HearInSounding
    <3>4. QED BY <3>1, <3>2, <3>3
  <2>7. QED
    BY <1>4, <2>2, <2>3, <2>4, <2>5, <2>6 DEF ReceiveWord
<1>5. CASE ReceiveInvalidWord
  <2>1. CASE state = "SOUNDING" /\ SoundingComplete(tx)
    BY <2>1, SoundingCompleteCounted
  <2>2. CASE state = "HANDSHAKE" /\ LeaveLink(call, hs, link, tx)
    BY <1>1, <2>2, LeaveCounted
  <2>3. CASE /\ state = "HANDSHAKE" /\ hs' = [hs EXCEPT !.errors = @ + 1]
             /\ Unmoved /\ UNCHANGED <<phase, tx>>
    <3>1. hs'.caller = hs.caller /\ hs'.concl = hs.concl
      BY <1>1, <2>3 DEF Handshakes
    <3>2. CallerKnown'
      BY <2>3, <3>1 DEF CountInv, CallerKnown, Unmoved
    <3>3. QED BY <1>3, <2>3, <3>2
  <2>4. QED
    BY <1>5, <2>1, <2>2, <2>3 DEF ReceiveInvalidWord, In
<1>6. QED BY <1>4, <1>5 DEF WordDecoded

\* initiate_call(): a request is granted with the width it has written, and one
\* that is refused has written the width of the call under way.
LEMMA RequestCallCounted ==
  ASSUME TypeOK, TypeOK', CountInv, NEW to \in Targets, NEW group \in BOOLEAN,
         NEW amd \in Amds, NEW left \in Nat, RequestCall(to, group, amd, left)
  PROVE  CountGood
<1>1. tx \in TxPaths /\ tx' \in TxPaths /\ call \in Calls /\ hs \in Handshakes
      /\ link \in Links
  BY DEF TypeOK
<1>2. scan_c' \in ScanWidths /\ scan_c' \in Nat
  BY DEF RequestCall, TypeOK
<1>3. CASE PlaceCall(to, group, amd, left)
  <2> DEFINE placed == [call EXCEPT !.to = to, !.group = group, !.amd = amd,
                                    !.left = left, !.scan = 2 * scan_c']
  <2>1. to \in Addrs /\ 2 * scan_c' \in Nat
    <3>1. \A n \in Nat : 2 * n \in Nat
      OBVIOUS
    <3>2. QED BY <1>2, <3>1, ControllerAssumption DEF Addrs
  <2>2. placed \in Calls /\ placed.scan = 2 * scan_c'
    BY <1>1, <2>1 DEF Calls
  <2>3. TransitionTo("CALLING", placed, hs, link, tx) /\ state \in Available
    BY <1>3 DEF PlaceCall
  <2> HIDE DEF placed
  <2>4. "CALLING" \in States /\ "CALLING" # state
    BY <2>3 DEF States, Available
  <2>5. QED BY <1>1, <1>2, <2>2, <2>3, <2>4, EnteredGood
<1>4. CASE /\ state \notin Available
           /\ call' = IF state = "CALLING" THEN [call EXCEPT !.left = left] ELSE call
           /\ Unmoved /\ UNCHANGED <<phase, hs, link, tx>>
  <2>1. /\ call'.scan = call.scan /\ call'.amd = call.amd
        /\ call'.cycles = call.cycles
    BY <1>1, <1>4 DEF Calls
  <2>2. tx'.pending <= tx.pending
    BY <1>1, <1>4 DEF TxPaths
  <2>3. QED BY <1>1, <1>2, <1>4, <2>1, <2>2, StaysCounted
<1>5. QED BY <1>3, <1>4 DEF RequestCall

\* Every command.
LEMMA CommandCounted ==
  ASSUME TypeOK, TypeOK', CountInv, Command
  PROVE  CountGood
<1>1. tx \in TxPaths /\ tx' \in TxPaths /\ call \in Calls /\ hs \in Handshakes
      /\ link \in Links /\ tx.pending <= tx.pending /\ pending_amd \in Amds
  BY DEF TypeOK, TxPaths
<1>2. NumChannels - 1 \in Nat /\ 0 \in Nat
  BY Numbers
<1>3. CASE StartAvailable
  <2>1. CASE state = "SCANNING"
    <3>1. state' \in Available
      BY <1>3, <2>1 DEF StartAvailable, TransitionTo, Moves, Available
    <3>2. QED BY <3>1, QuietStates
  <2>2. CASE state # "SCANNING"
    <3>1. /\ tx'.pending = tx.pending /\ tx'.drain = tx.drain
          /\ Unmoved /\ Rest /\ UNCHANGED <<phase, call, hs, link>>
      BY <1>1, <1>3, <2>2 DEF StartAvailable, TxPaths
    <3>2. QED BY <1>1, <3>1, StaysCounted DEF Rest
  <2>3. QED BY <2>1, <2>2
<1>4. CASE StartScanning
  <2>1. state' \in Available
    BY <1>4 DEF StartScanning, TransitionTo, Moves, Available
  <2>2. QED BY <2>1, QuietStates
<1>5. CASE InitiateCall \/ InitiateSingleChannelCall \/ InitiateGroupCall
  BY <1>1, <1>2, <1>5, RequestCallCounted
     DEF InitiateCall, InitiateSingleChannelCall, InitiateGroupCall
<1>6. CASE SendAmd
  <2>1. \A amd \in {"LINK", "NO_LINK"} : amd \in Amds
    BY DEF Amds
  <2>2. CASE UNCHANGED smVars
    BY <1>1, <2>2, StaysCounted DEF smVars, Unmoved
  <2>3. QED
    BY <1>2, <1>6, <2>1, <2>2, RequestCallCounted DEF SendAmd
<1>7. CASE SendAmdLinked \/ LinkedAmdReceived \/ ProposeFrequency
  <2>1. /\ state = "LINKED" /\ Unmoved /\ UNCHANGED <<phase, tx>>
        /\ link'.term = link.term /\ link'.owTx = link.owTx
    BY <1>1, <1>7
       DEF SendAmdLinked, LinkedAmdReceived, ProposeFrequency, SendLinkedAmd,
           RespondToLinkedAmd, TriggerOrderwire, LinkedRequest, Links
  <2>2. QED BY <1>1, <2>1, StaysCounted
<1>8. CASE Terminate
  <2> DEFINE sent == RxOff(Transmit(FrameWords, tx))
  <2>1. sent \in TxPaths
    BY <1>1, Numbers, KeepsRxOff, KeepsTransmit DEF Keeps
  <2>2. /\ state = "LINKED" /\ Unmoved /\ tx' = ArmDrain(sent)
    BY <1>8 DEF Terminate, TerminateLink
  <2> HIDE DEF sent
  <2>3. tx'.pending > 0 => tx'.drain
    BY <1>2, <2>1, <2>2, PathCounts
  <2>4. QED BY <2>2, <2>3, LinkedCounted
<1>9. ASSUME NEW n \in Nat, RequestSounding(n)
      PROVE  CountGood
  <2>1. state \in Available /\ TransitionTo("SOUNDING", call, hs, link, tx)
    BY <1>9 DEF RequestSounding
  <2>2. "SOUNDING" \in States /\ "SOUNDING" # state
    BY <2>1 DEF States, Available
  <2>3. QED BY <1>1, <2>1, <2>2, EnteredGood DEF Available
<1>10. ASSUME scan_c' \in ScanWidths, Unmoved, UNCHANGED <<phase, call, hs, link, tx>>
       PROVE  CountGood
  BY <1>1, <1>10, StaysCounted
<1>11. CASE SendSounding \/ SendSoundingSweep
  <2>1. \A n \in 1..MaxSweep : n \in Nat
    OBVIOUS
  <2>2. QED
    BY <1>2, <1>9, <1>10, <1>11, <2>1 DEF SendSounding, SendSoundingSweep
<1>12. CASE BroadcastPositionReport
  <2>1. CASE SendBroadcast
    BY <2>1, QuietStates DEF SendBroadcast, Unmoved
  <2>2. QED BY <1>10, <1>12, <2>1 DEF BroadcastPositionReport
<1>13. CASE EmergencyMoves
  <2>1. state' \in Available
    BY <1>13 DEF EmergencyMoves, Moves, Available
  <2>2. QED BY <2>1, QuietStates
<1>14. CASE EmergencyStop
  BY <1>13, <1>14 DEF EmergencyStop
<1>15. CASE PressPtt \/ ReleasePtt
  <2>1. CASE /\ tx' \in {ManualOn(tx), ManualOff(tx)} /\ Unmoved
             /\ UNCHANGED <<phase, call, hs, link>> /\ Rest
    <3>1. tx'.pending = tx.pending /\ tx'.drain = tx.drain
      BY <1>1, <1>2, <2>1, PathCounts
    <3>2. QED BY <1>1, <2>1, <3>1, StaysCounted DEF Rest
  <2>2. QED BY <1>13, <1>15, <2>1 DEF PressPtt, ReleasePtt
<1>16. QED
  BY <1>3, <1>4, <1>5, <1>6, <1>7, <1>8, <1>11, <1>12, <1>14, <1>15 DEF Command

\* Every step.
LEMMA NextCounted ==
  ASSUME TypeOK, CountInv, Next
  PROVE  CountGood
<1>1. TypeOK'
  BY NextGood
<1>2. tx \in TxPaths /\ tx' \in TxPaths /\ 0 \in Nat
  BY <1>1 DEF TypeOK
<1>3. CASE PttLeadElapsed \/ PttTailElapsed
  <2>1. /\ tx' \in {FlushLead(tx), Release(tx)}
        /\ Unmoved /\ Rest /\ UNCHANGED <<phase, call, hs, link>>
    BY <1>3 DEF PttLeadElapsed, PttTailElapsed
  <2>2. tx'.pending = tx.pending /\ tx'.drain = tx.drain
    BY <1>2, <2>1, PathCounts
  <2>3. tx'.pending <= tx.pending
    BY <1>2, <2>2 DEF TxPaths
  <2>4. QED BY <1>2, <2>1, <2>2, <2>3, StaysCounted DEF Rest
<1>4. CASE AbortTx
  <2>1. state' \in Available
    BY <1>4 DEF AbortTx, EmergencyMoves, Moves, Available
  <2>2. QED BY <2>1, QuietStates
<1>5. CASE TickSm
  BY <1>1, <1>5, CallingTickCounted, HandshakeTickCounted, LinkedTickCounted,
     OtherTicksCounted
     DEF TickSm
<1>6. QED
  BY <1>1, <1>3, <1>4, <1>5, WordDecodedCounted, WordRenderedCounted,
     CommandCounted
     DEF Next, Step, MainLoop

\* The station starts with nothing to count.
LEMMA InitCounted ==
  ASSUME Init
  PROVE  CountInv
BY DEF Init, SMInit, CountInv, OriginKnown, CallerKnown, CallCounted,
       WaitIsBounded, In

\* The invariant of part 1.
LEMMA CountInvariant == Spec => []CountInv
<1>1. Init => CountInv
  BY InitCounted
<1>2. TypeOK /\ CountInv /\ [Next]_vars => CountInv'
  <2>1. TypeOK /\ CountInv /\ Next => CountInv'
    BY NextCounted DEF CountGood
  <2>2. CountInv /\ UNCHANGED vars => CountInv'
    BY DEF vars, CountInv, OriginKnown, CallerKnown, CallCounted, WaitIsBounded,
           In, WordsToGo, PhaseWords
  <2>3. QED BY <2>1, <2>2
<1>3. QED BY <1>1, <1>2, TypeCorrect, PTL DEF Spec

\* enter_state(LINKED): a station that was called and has no group call of its
\* own behind it links with the caller, under the whole address collected. The
\* invariant is that the address is there as soon as the handshake goes on.
THEOREM LinksWithCaller == Spec => LinkedWithCaller
<1>1. TypeOK /\ CountInv /\ [Next]_vars => [WithCaller]_vars
  BY NextCounted DEF CountGood
<1>2. LinkedWithCaller <=> [][WithCaller]_vars
  BY PTL DEF LinkedWithCaller, WithCaller
<1>3. QED BY <1>1, <1>2, TypeCorrect, CountInvariant, PTL DEF Spec

\* handle_linked, SENDING_RESPONSE, SENDING_ACK: the state machine never waits
\* for its own words without the drain deadline. What makes it inductive is the
\* count of a call: none of its words is left over when the ACK is begun.
THEOREM WaitsAreBounded ==
  ASSUME OneWidth
  PROVE  Spec => []WaitIsBounded
<1>1. CountInv => WaitIsBounded
  BY DEF CountInv
<1>2. QED BY <1>1, CountInvariant, PTL

-----------------------------------------------------------------------------
(***************************************************************************)
(* Part 2. A calm station: no exceptional timer elapses, it may transmit,  *)
(* and the operator calls, messages, sounds and terminates but neither     *)
(* holds the PTT nor broadcasts nor uses the orderwire.                    *)
(***************************************************************************)
Calm ==
  /\ RareTimers = {} /\ ~RxOnly /\ OneWidth
  /\ Commands \subseteq {"SCAN", "CALL", "SINGLE_CALL", "GROUP_CALL", "AMD",
                         "SOUND", "SWEEP", "TERMINATE"}

Silent == Commands \cap {"SOUND", "SWEEP"} = {}

\* The two conditions the transmit path is in, whatever the handlers do.
Resting(t) ==
  /\ t.rx /\ ~t.manual /\ ~t.abort
  /\ t.pending = 0 /\ t.air = 0 /\ t.buf = 0 /\ ~t.lead

Keyed(t) ==
  /\ ~t.rx /\ ~t.manual /\ ~t.abort
  /\ t.ptt /\ ~t.tail /\ ~t.demod
  /\ t.pending = t.air + t.buf
  /\ t.lead \/ t.buf = 0

\* terminate_link() alone puts words on the air before it keys the radio.
LeadFirst(t) == "TERMINATE" \notin Commands /\ t.lead => t.air = 0

\* The states in which the state machine has switched its receiver off.
Sending ==
  \/ state = "CALLING" /\ phase \in CallingTxPhases \cup {"TUNING", "SENDING_ACK"}
  \/ In("HANDSHAKE", "SENDING_RESPONSE")
  \/ state = "LINKED" /\ link.term
  \/ In("SOUNDING", "TRANSMITTING")

LinkCalm ==
  link.owPending = "NONE" /\ ~link.owTx /\ ~link.retry /\ link.amd = "NONE"

AckHeard == In("CALLING", "SENDING_ACK") => call.heard = {"TO", "TIS"}

NoSounding == Silent => state # "SOUNDING" /\ pre_link_state # "SOUNDING"

CalmInv ==
  /\ ~broadcasting
  /\ Sending => Keyed(tx)
  /\ ~Sending => Resting(tx)
  /\ LeadFirst(tx)
  /\ LinkCalm
  /\ CallPhaseInStep
  /\ AckHeard
  /\ NoSounding

CalmState == Calm /\ TypeOK /\ CountInv /\ CalmInv

\* The step formula of LinkedByThreeFrames.
ThreeFrames ==
  state # "LINKED" /\ state' = "LINKED" =>
    /\ \/ state = "CALLING" /\ call.heard = {"TO", "TIS"} /\ tx.air = 1
       \/ state = "HANDSHAKE" /\ (hs.silent \/ "TIS" \in hs.heard)
    /\ tx'.air = 0 /\ tx'.buf = 0

CalmGood == CalmInv' /\ (Silent => ThreeFrames)

\* The operations take a resting path to a keyed one and back.
LEMMA CalmPath ==
  ASSUME NEW t \in TxPaths, NEW n \in Nat
  PROVE  /\ Resting(t) /\ ~RxOnly =>
              /\ Keyed(RxOff(t)) /\ LeadFirst(RxOff(t))
              /\ Keyed(RxOff(Transmit(n, t)))
         /\ Keyed(t) => Keyed(Transmit(n, t)) /\ Keyed(FlushLead(t))
         /\ Keyed(t) => Keyed(ArmDrain(t)) /\ Keyed(DisarmDrain(t))
         /\ Keyed(t) => Keyed(RxOff(Transmit(n, t)))
         /\ Keyed(t) /\ t.pending = 0 => Resting(RxOn(t))
         /\ Resting(t) => Resting(RxOn(t)) /\ Resting(Release(t))
         /\ Resting(t) => Resting(ArmDrain(t)) /\ Resting(DisarmDrain(t))
         /\ Keyed(t) /\ LeadFirst(t) => LeadFirst(Transmit(n, t))
         /\ LeadFirst(t) => LeadFirst(ArmDrain(t))
         /\ LeadFirst(FlushLead(t))
         /\ Resting(t) => LeadFirst(t)
<1>1. t.pending + n \in Nat /\ t.air + n \in Nat /\ t.buf + n \in Nat
      /\ t.air + t.buf \in Nat
  BY DEF TxPaths
<1>2. Resting(t) /\ ~RxOnly => Keyed(RxOff(t)) /\ LeadFirst(RxOff(t))
  BY TxPathAssumption DEF TxPaths, Resting, Keyed, LeadFirst, RxOff
<1>3. Resting(t) /\ ~RxOnly => Keyed(RxOff(Transmit(n, t)))
  <2> SUFFICES ASSUME Resting(t), ~RxOnly
               PROVE  Keyed(RxOff(Transmit(n, t)))
    OBVIOUS
  <2> DEFINE u == Transmit(n, t)
  <2>1. /\ u \in TxPaths /\ u.rx /\ ~u.manual /\ ~u.abort
        /\ u.pending = n /\ u.air = n /\ u.buf = 0
    <3>1. 0 + n = n
      OBVIOUS
    <3>2. t.pending + n = n /\ t.air + n = n
      BY <3>1 DEF Resting
    <3>3. u = [t EXCEPT !.pending = n, !.air = n]
      BY <3>2 DEF Transmit, TxPaths, Resting
    <3>4. QED BY <3>3 DEF TxPaths, Resting
  <2> HIDE DEF u
  <2>2. Keyed(RxOff(u))
    BY <2>1, TxPathAssumption DEF TxPaths, Keyed, RxOff
  <2>3. QED BY <2>2 DEF u
<1>4. Keyed(t) => Keyed(Transmit(n, t)) /\ Keyed(FlushLead(t))
  BY <1>1 DEF TxPaths, Keyed, Transmit, FlushLead
<1>5. Keyed(t) => Keyed(ArmDrain(t)) /\ Keyed(DisarmDrain(t))
  BY DEF TxPaths, Keyed, ArmDrain, DisarmDrain
<1>6. Keyed(t) => Keyed(RxOff(Transmit(n, t)))
  <2>1. Keyed(t) => RxOff(Transmit(n, t)) = Transmit(n, t)
    BY DEF Keyed, RxOff, Transmit, TxPaths
  <2>2. QED BY <1>4, <2>1
<1>7. Keyed(t) /\ t.pending = 0 => Resting(RxOn(t))
  BY DEF TxPaths, Keyed, Resting, RxOn, Release
<1>8. Resting(t) => Resting(RxOn(t)) /\ Resting(Release(t))
  BY DEF TxPaths, Resting, RxOn, Release
<1>9. Resting(t) => Resting(ArmDrain(t)) /\ Resting(DisarmDrain(t))
  BY DEF TxPaths, Resting, ArmDrain, DisarmDrain
<1>10. /\ Keyed(t) /\ LeadFirst(t) => LeadFirst(Transmit(n, t))
       /\ LeadFirst(t) => LeadFirst(ArmDrain(t))
       /\ LeadFirst(FlushLead(t))
       /\ Resting(t) => LeadFirst(t)
  BY <1>1 DEF TxPaths, LeadFirst, Keyed, Resting, Transmit, ArmDrain, FlushLead
<1>11. QED
  BY <1>2, <1>3, <1>4, <1>5, <1>6, <1>7, <1>8, <1>9, <1>10

\* enter_state() leaves a path at rest when nothing was left to send.
LEMMA CalmEntry ==
  ASSUME NEW t \in TxPaths, Resting(t) \/ (Keyed(t) /\ t.pending = 0)
  PROVE  Resting(EnterTx(t))
<1> DEFINE u == [t EXCEPT !.pending = 0, !.drain = FALSE]
<1>1. u \in TxPaths /\ 0 \in Nat
  BY DEF TxPaths
<1>2. Resting(u) \/ (Keyed(u) /\ u.pending = 0)
  BY DEF TxPaths, Resting, Keyed
<1> HIDE DEF u
<1>3. Resting(RxOn(u))
  BY <1>1, <1>2, CalmPath
<1>4. QED BY <1>3 DEF EnterTx, u

\* A word that is rendered was counted: the path is keyed before and after.
LEMMA CalmRendered ==
  ASSUME NEW t \in TxPaths, Keyed(t), t.air > 0
  PROVE  LET done == Completed([t EXCEPT !.air = @ - 1])
         IN  /\ done \in TxPaths /\ Keyed(done)
             /\ t.pending > 0 /\ done.pending = t.pending - 1
             /\ LeadFirst(t) => LeadFirst(done)
<1> DEFINE rendered == [t EXCEPT !.air = @ - 1]
           done == Completed(rendered)
<1>1. t.pending = t.air + t.buf /\ t.pending \in Nat /\ t.air \in Nat /\ t.buf \in Nat
  BY DEF Keyed, TxPaths
<1>2. t.air - 1 \in Nat /\ t.pending - 1 \in Nat /\ t.pending > 0
      /\ t.pending - 1 = (t.air - 1) + t.buf
  BY <1>1
<1>3. rendered \in TxPaths /\ rendered.pending = t.pending /\ rendered.air = t.air - 1
  BY <1>2 DEF TxPaths
<1>4. done = [rendered EXCEPT !.pending = t.pending - 1]
  BY <1>2, <1>3 DEF Completed, TxPaths
<1>5. done \in TxPaths
  BY <1>2, <1>3, <1>4 DEF TxPaths
<1>6. /\ done.pending = t.pending - 1 /\ done.air = t.air - 1 /\ done.buf = t.buf
      /\ done.rx = t.rx /\ done.manual = t.manual /\ done.abort = t.abort
      /\ done.ptt = t.ptt /\ done.tail = t.tail /\ done.demod = t.demod
      /\ done.lead = t.lead
  BY <1>2, <1>3, <1>4 DEF TxPaths
<1> HIDE DEF done, rendered
<1>7. Keyed(done)
  BY <1>2, <1>6 DEF Keyed
<1>8. LeadFirst(t) => LeadFirst(done)
  BY <1>1, <1>6 DEF LeadFirst
<1>9. QED BY <1>2, <1>5, <1>6, <1>7, <1>8 DEF done, rendered

\* A transition leaves a station that receives, in whatever state.
LEMMA EnteredCalm ==
  ASSUME CalmState, NEW new \in States, NEW c \in Calls, NEW h \in Handshakes,
         NEW l \in Links, NEW t \in TxPaths, new # state,
         TransitionTo(new, c, h, l, t), UNCHANGED broadcasting,
         Resting(t) \/ (Keyed(t) /\ t.pending = 0),
         l.owPending = "NONE" /\ ~l.owTx,
         new = "SOUNDING" => ~Silent,
         new = "LINKED" =>
           \/ state = "CALLING" /\ call.heard = {"TO", "TIS"} /\ tx.air = 1
           \/ state = "HANDSHAKE" /\ (hs.silent \/ "TIS" \in hs.heard)
           \/ state = "SOUNDING"
  PROVE  CalmGood
<1>1. /\ state' = new
      /\ pre_link_state' =
           IF new \in {"CALLING", "HANDSHAKE"} THEN state ELSE pre_link_state
      /\ phase' = EntryPhase[new]
      /\ ~link'.term /\ link'.owTx = l.owTx /\ link'.owPending = l.owPending
      /\ ~link'.retry /\ link'.amd = "NONE"
      /\ tx' = EnterTx(t)
  BY Entered DEF CalmState
<1>2. Resting(tx')
  BY <1>1, CalmEntry
<1>3. ~Sending'
  BY <1>1 DEF Sending, In, EntryPhase, CallingTxPhases
<1>4. LeadFirst(tx') /\ tx'.air = 0 /\ tx'.buf = 0
  BY <1>2 DEF LeadFirst, Resting
<1>5. CallPhaseInStep' /\ AckHeard'
  BY <1>3 DEF CallPhaseInStep, AckHeard, Sending, In
<1>6. LinkCalm'
  BY <1>1 DEF LinkCalm
<1>7. NoSounding'
  BY <1>1 DEF NoSounding, CalmState, CalmInv
<1>8. Silent => ThreeFrames
  BY <1>1, <1>4 DEF ThreeFrames, NoSounding, CalmState, CalmInv
<1>9. ~broadcasting'
  BY DEF CalmState, CalmInv
<1>10. QED
  BY <1>2, <1>3, <1>4, <1>5, <1>6, <1>7, <1>8, <1>9 DEF CalmGood, CalmInv

\* A call, a handshake or a link that ends.
LEMMA LeaveCalm ==
  ASSUME CalmState, NEW c \in Calls, NEW h \in Handshakes, NEW l \in Links,
         NEW t \in TxPaths, state \in {"CALLING", "HANDSHAKE", "LINKED"},
         LeaveLink(c, h, l, t), UNCHANGED broadcasting,
         Resting(t) \/ (Keyed(t) /\ t.pending = 0),
         l.owPending = "NONE" /\ ~l.owTx
  PROVE  CalmGood
<1>1. /\ pre_link_state \in States /\ pre_link_state # state
      /\ pre_link_state # "LINKED"
  BY DEF CalmState, TypeOK, States, Available
<1>2. pre_link_state = "SOUNDING" => ~Silent
  BY DEF CalmState, CalmInv, NoSounding
<1>3. QED BY <1>1, <1>2, EnteredCalm DEF LeaveLink

\* A step that stays in its state, receiving.
LEMMA RestsCalm ==
  ASSUME CalmState, Unmoved, UNCHANGED broadcasting, ~Sending', Resting(tx'),
         LinkCalm'
  PROVE  CalmGood
<1>1. LeadFirst(tx')
  BY DEF LeadFirst, Resting
<1>2. CallPhaseInStep' /\ AckHeard'
  BY DEF CallPhaseInStep, AckHeard, Sending, In
<1>3. NoSounding' /\ ~broadcasting' /\ ThreeFrames
  BY DEF CalmState, CalmInv, NoSounding, Unmoved, ThreeFrames
<1>4. QED BY <1>1, <1>2, <1>3 DEF CalmGood, CalmInv

\* A step that stays in its state, sending.
LEMMA SendsCalm ==
  ASSUME CalmState, Unmoved, UNCHANGED broadcasting, Sending', Keyed(tx'),
         LeadFirst(tx'), LinkCalm', CallPhaseInStep', AckHeard'
  PROVE  CalmGood
<1>1. NoSounding' /\ ~broadcasting' /\ ThreeFrames
  BY DEF CalmState, CalmInv, NoSounding, Unmoved, ThreeFrames
<1>2. QED BY <1>1 DEF CalmGood, CalmInv

\* The facts every step starts from.
LEMMA CalmFacts ==
  ASSUME CalmState
  PROVE  /\ tx \in TxPaths /\ call \in Calls /\ hs \in Handshakes /\ link \in Links
         /\ TypeOK /\ CountInv /\ CallCounted /\ LinkCalm /\ ~broadcasting
         /\ ~RxOnly /\ RareTimers = {} /\ OneWidth
         /\ link.owPending = "NONE" /\ ~link.owTx
         /\ Sending => Keyed(tx)
         /\ ~Sending => Resting(tx)
         /\ Stalled => tx.air = 0 /\ tx.buf = 0 /\ tx.pending = 0
<1>1. Sending => tx.pending = tx.air + tx.buf
  BY DEF CalmState, CalmInv, Keyed
<1>2. ~Sending => tx.pending = tx.air + tx.buf
  BY DEF CalmState, CalmInv, Resting
<1>3. Stalled => tx.air + tx.buf = 0
  BY DEF CalmState, Calm, Stalled
<1>4. tx \in TxPaths
  BY DEF CalmState, TypeOK
<1>5. Stalled => tx.air = 0 /\ tx.buf = 0 /\ tx.pending = 0
  BY <1>1, <1>2, <1>3, <1>4 DEF TxPaths
<1>6. QED
  BY <1>5 DEF CalmState, Calm, TypeOK, CountInv, CalmInv, LinkCalm

\* try_next_calling_channel(), when the call is not sending.
LEMMA TryNextCalm ==
  ASSUME CalmState, state = "CALLING", ~Sending, TryNextChannel(call, tx), Rest
  PROVE  CalmGood
<1>1. CASE call.left > 0
  <2>1. /\ phase' = "LBT" /\ Unmoved /\ UNCHANGED <<link, broadcasting>>
        /\ tx' = [tx EXCEPT !.pending = 0]
    BY <1>1 DEF TryNextChannel, Rest
  <2>2. Resting(tx')
    BY <2>1, CalmFacts DEF Resting, TxPaths
  <2>3. ~Sending' /\ LinkCalm'
    BY <2>1, CalmFacts DEF Sending, In, Unmoved, CallingTxPhases, LinkCalm
  <2>4. QED BY <2>1, <2>2, <2>3, RestsCalm
<1>2. CASE ~(call.left > 0)
  BY <1>2, CalmFacts, LeaveCalm DEF TryNextChannel, Rest
<1>3. QED BY <1>1, <1>2

\* handle_calling().
LEMMA CallingTickCalm ==
  ASSUME CalmState, CallingTick, CountInv'
  PROVE  CalmGood
<1>1. /\ tx \in TxPaths /\ call \in Calls /\ hs \in Handshakes /\ link \in Links
      /\ ~RxOnly /\ link.owPending = "NONE" /\ ~link.owTx
  BY CalmFacts
<1>2. CASE CallingLbtBusy \/ CallingNoResponse
  <2>1. state = "CALLING" /\ ~Sending
    BY <1>2
       DEF CallingLbtBusy, CallingNoResponse, In, Sending, CallingTxPhases
  <2>2. QED
    BY <1>2, <2>1, TryNextCalm DEF CallingLbtBusy, CallingNoResponse
<1>3. CASE CallingLbtClear \/ CallingResponseSettled
  <2>1. /\ state = "CALLING" /\ Unmoved /\ UNCHANGED <<link, broadcasting>>
        /\ phase' \in {"TUNING", "SENDING_ACK"} /\ tx' = RxOff(tx) /\ ~Sending
    BY <1>3
       DEF CallingLbtClear, CallingResponseSettled, In, Rest, Sending,
           CallingTxPhases
  <2>2. Keyed(tx') /\ LeadFirst(tx')
    BY <1>1, <2>1, CalmFacts, CalmPath, Numbers
  <2>3. Sending' /\ LinkCalm' /\ CallPhaseInStep'
    BY <2>1, CalmFacts
       DEF Sending, Unmoved, LinkCalm, CallPhaseInStep, CallingTxPhases
  <2>4. AckHeard'
    BY <1>1, <1>3
       DEF CallingLbtClear, CallingResponseSettled, AckHeard, In, Calls
  <2>5. QED BY <2>1, <2>2, <2>3, <2>4, SendsCalm
<1>4. CASE CallingTuned
  <2>1. /\ state = "CALLING" /\ Unmoved /\ UNCHANGED <<link, broadcasting, scan_c>>
        /\ phase' \in CallingTxPhases /\ tx' = Transmit(CallWords(call), tx)
        /\ Sending /\ tx.pending = 0
    BY <1>4, CalmFacts
       DEF CallingTuned, In, Rest, Sending, CallingTxPhases, CallCounted
  <2>2. Keyed(tx') /\ LeadFirst(tx')
    BY <1>1, <2>1, BurstLengths, CalmFacts, CalmPath DEF CalmState, CalmInv
  <2>3. Sending' /\ LinkCalm' /\ AckHeard'
    BY <2>1, CalmFacts
       DEF Sending, Unmoved, LinkCalm, AckHeard, In, CallingTxPhases
  <2>4. CallPhaseInStep'
    <3>1. tx'.pending = CallWords(call) /\ CallWords(call) \in Nat
      <4>1. CallWords(call) \in Nat
        BY <1>1, BurstLengths
      <4>2. tx'.pending = tx.pending + CallWords(call)
        BY <1>1, <2>1, <4>1, PathCounts
      <4>3. QED BY <2>1, <4>1, <4>2
    <3>2. scan_c \in Nat /\ call.scan = 2 * scan_c
      BY <2>1, CalmFacts DEF CallCounted, TypeOK
    <3>3. call'.cycles = 0 /\ call'.amd = call.amd /\ call'.scan = call.scan
      BY <1>1, <1>4 DEF CallingTuned, Calls
    <3>4. phase' = IF scan_c = 0 THEN "LEADING_CALL"
                   ELSE IF call.group THEN "GROUP_SCANNING_CALL"
                   ELSE "SCANNING_CALL"
      BY <1>4 DEF CallingTuned
    <3>5. WordsToGo' = CallWords(call)
      <4>1. CASE scan_c = 0
        <5>1. PhaseWords' = LeadWords + (IF call.amd = "NONE" THEN 0 ELSE MsgWords)
          BY <3>3, <3>4, <4>1 DEF PhaseWords
        <5>2. QED
          BY <3>2, <3>3, <3>4, <4>1, <5>1, Numbers DEF WordsToGo, CallWords
      <4>2. CASE scan_c # 0
        <5>1. PhaseWords' = call.scan
          BY <2>1, <3>2, <3>3, <3>4, <4>2 DEF PhaseWords
        <5>2. QED
          BY <3>2, <3>3, <3>4, <4>2, <5>1, Numbers DEF WordsToGo, CallWords
      <4>3. QED BY <4>1, <4>2
    <3>6. QED BY <3>1, <3>5 DEF CallPhaseInStep
  <2>5. QED BY <2>1, <2>2, <2>3, <2>4, SendsCalm
<1>5. CASE CallingBuildAck
  <2>1. /\ In("CALLING", "SENDING_ACK") /\ Unmoved /\ Sending
        /\ UNCHANGED <<phase, call, link, broadcasting>>
        /\ tx' = ArmDrain(Transmit(FrameWords, tx))
    BY <1>5 DEF CallingBuildAck, In, Rest, Sending
  <2>2. Transmit(FrameWords, tx) \in TxPaths
    BY <1>1, Numbers, KeepsTransmit DEF Keeps
  <2>3. Keyed(tx') /\ LeadFirst(tx')
    BY <1>1, <2>1, <2>2, Numbers, CalmFacts, CalmPath DEF CalmState, CalmInv
  <2>4. Sending' /\ LinkCalm' /\ AckHeard' /\ CallPhaseInStep'
    BY <2>1, CalmFacts
       DEF Sending, Unmoved, LinkCalm, AckHeard, In, CallPhaseInStep,
           CallingTxPhases, CalmState, CalmInv
  <2>5. QED BY <2>1, <2>3, <2>4, SendsCalm
<1>6. CASE CallingAckStalled
  BY <1>6, CalmFacts DEF CallingAckStalled, TxPaths
<1>7. CASE CallingBudgetSpent
  <2>1. tx.pending = 0 /\ state = "CALLING" /\ UNCHANGED broadcasting
    BY <1>7, CalmFacts DEF CallingBudgetSpent, Rest
  <2>2. QED
    BY <1>1, <1>7, <2>1, CalmFacts, LeaveCalm DEF CallingBudgetSpent
<1>8. QED
  BY <1>2, <1>3, <1>4, <1>5, <1>6, <1>7 DEF CallingTick

\* handle_handshake().
LEMMA HandshakeTickCalm ==
  ASSUME CalmState, HandshakeTick
  PROVE  CalmGood
<1>1. /\ tx \in TxPaths /\ call \in Calls /\ hs \in Handshakes /\ link \in Links
      /\ ~RxOnly /\ link.owPending = "NONE" /\ ~link.owTx /\ LinkCalm
  BY CalmFacts
<1>2. CASE HandshakeSilence \/ HandshakeMessageTooLong \/ HandshakeDeclined
             \/ HandshakeChannelBusy \/ HandshakeNoAck
  <2>1. /\ state = "HANDSHAKE" /\ ~Sending /\ UNCHANGED broadcasting
        /\ LeaveLink(call, hs, link, tx)
    BY <1>2
       DEF HandshakeSilence, HandshakeMessageTooLong, HandshakeDeclined,
           HandshakeChannelBusy, HandshakeNoAck, In, Sending, Rest
  <2>2. QED BY <1>1, <2>1, CalmFacts, LeaveCalm
<1>3. CASE HandshakeAllCallSettled \/ HandshakeAckSettled
  <2>1. PICK c \in {call, [call EXCEPT !.to = hs.caller]} :
          /\ state = "HANDSHAKE" /\ ~Sending /\ UNCHANGED broadcasting
          /\ Established(c, hs, link, tx)
          /\ hs.silent \/ "TIS" \in hs.heard
    BY <1>3
       DEF HandshakeAllCallSettled, HandshakeAckSettled, In, Sending, Rest
  <2>2. c \in Calls /\ "LINKED" \in States
    BY <1>1, <2>1 DEF Calls, Handshakes, States
  <2>3. QED
    BY <1>1, <2>1, <2>2, CalmFacts, EnteredCalm DEF Established
<1>4. CASE HandshakeCallSettled \/ HandshakeSlotReached
  <2>1. /\ state = "HANDSHAKE" /\ Unmoved /\ UNCHANGED <<link, tx, broadcasting>>
        /\ phase' \in {"SLOT_WAIT", "CHANNEL_CHECK"} /\ ~Sending
    BY <1>4
       DEF HandshakeCallSettled, HandshakeSlotReached, In, Rest, Sending
  <2>2. ~Sending' /\ Resting(tx') /\ LinkCalm'
    BY <1>1, <2>1, CalmFacts DEF Sending, In, Unmoved, LinkCalm
  <2>3. QED BY <2>1, <2>2, RestsCalm
<1>5. CASE HandshakeRespond
  <2>1. /\ state = "HANDSHAKE" /\ Unmoved /\ UNCHANGED <<link, broadcasting>>
        /\ phase' = "SENDING_RESPONSE" /\ ~Sending
        /\ tx' = ArmDrain(Transmit(FrameWords, RxOff(tx)))
    BY <1>5 DEF HandshakeRespond, In, Rest, Sending
  <2> DEFINE keyed == RxOff(tx)
             sent == Transmit(FrameWords, keyed)
  <2>2. keyed \in TxPaths /\ Keyed(keyed) /\ LeadFirst(keyed)
    BY <1>1, <2>1, CalmFacts, CalmPath, KeepsRxOff, Numbers DEF Keeps
  <2> HIDE DEF keyed
  <2>3. sent \in TxPaths /\ Keyed(sent) /\ LeadFirst(sent)
    BY <2>2, CalmPath, KeepsTransmit, Numbers DEF Keeps
  <2> HIDE DEF sent
  <2>4. Keyed(ArmDrain(sent)) /\ LeadFirst(ArmDrain(sent))
    BY <2>3, CalmPath, Numbers
  <2>5. Sending' /\ LinkCalm' /\ AckHeard' /\ CallPhaseInStep'
    BY <1>1, <2>1
       DEF Sending, Unmoved, LinkCalm, AckHeard, In, CallPhaseInStep
  <2>6. QED BY <2>1, <2>4, <2>5, SendsCalm DEF sent, keyed
<1>6. CASE HandshakeResponseStalled
  <2> DEFINE t == DisarmDrain(tx)
  <2>1. /\ tx.pending = 0 /\ Sending /\ state = "HANDSHAKE"
        /\ UNCHANGED broadcasting /\ LeaveLink(call, hs, link, t)
    BY <1>6, CalmFacts DEF HandshakeResponseStalled, Rest, Sending, In
  <2>2. t \in TxPaths /\ Keyed(t) /\ t.pending = 0
    BY <1>1, <2>1, CalmFacts, CalmPath, PathCounts, KeepsDrain, Numbers DEF Keeps
  <2> HIDE DEF t
  <2>3. QED BY <1>1, <2>1, <2>2, LeaveCalm
<1>7. CASE HandshakeBudgetSpent
  <2>1. /\ tx.pending = 0 /\ state = "HANDSHAKE" /\ UNCHANGED broadcasting
        /\ LeaveLink(call, hs, link, tx)
    BY <1>7, CalmFacts DEF HandshakeBudgetSpent, Rest
  <2>2. QED BY <1>1, <2>1, CalmFacts, LeaveCalm
<1>8. QED
  BY <1>2, <1>3, <1>4, <1>5, <1>6, <1>7 DEF HandshakeTick

\* handle_linked(): on a calm station only the termination has anything to do.
LEMMA LinkedTickCalm ==
  ASSUME CalmState, LinkedTick
  PROVE  CalmGood
<1>1. /\ tx \in TxPaths /\ call \in Calls /\ hs \in Handshakes /\ link \in Links
      /\ link.owPending = "NONE" /\ ~link.owTx /\ LinkCalm
      /\ ~link.retry /\ link.amd = "NONE" /\ ~LinkIdle
  BY CalmFacts DEF LinkCalm, LinkIdle
<1>2. ASSUME state = "LINKED", ~link.term
      PROVE  ~Sending /\ Resting(tx)
  BY <1>2, CalmFacts DEF Sending, In
<1>3. CASE LinkedTerminationStalled
  <2> DEFINE d == DisarmDrain(tx)
             l == [link EXCEPT !.term = FALSE]
  <2>1. /\ state = "LINKED" /\ Sending /\ tx.pending = 0 /\ UNCHANGED broadcasting
        /\ LeaveLink(call, hs, l, RxOn(d))
    BY <1>3, CalmFacts DEF LinkedTerminationStalled, Sending, Rest
  <2>2. d \in TxPaths /\ Keyed(d) /\ d.pending = 0
    BY <1>1, <2>1, CalmFacts, CalmPath, PathCounts, KeepsDrain, Numbers DEF Keeps
  <2>3. l \in Links /\ l.owPending = "NONE" /\ ~l.owTx
    BY <1>1 DEF Links
  <2> HIDE DEF d, l
  <2>4. RxOn(d) \in TxPaths /\ Resting(RxOn(d))
    BY <2>2, CalmPath, KeepsRxOn, Numbers DEF Keeps
  <2>5. QED BY <1>1, <2>1, <2>3, <2>4, LeaveCalm
<1>4. CASE LinkedPeerTerminated
  <2> DEFINE l == [link EXCEPT !.twas = <<>>]
  <2>1. /\ state = "LINKED" /\ ~link.term /\ UNCHANGED broadcasting
        /\ LeaveLink(call, hs, l, tx)
    BY <1>4 DEF LinkedPeerTerminated, Rest
  <2>2. l \in Links /\ l.owPending = "NONE" /\ ~l.owTx
    BY <1>1, EmptyAddr DEF Links
  <2> HIDE DEF l
  <2>3. QED BY <1>1, <1>2, <2>1, <2>2, LeaveCalm
<1>5. CASE LinkedForeignTwas
  <2>1. /\ state = "LINKED" /\ ~link.term /\ Unmoved
        /\ UNCHANGED <<phase, tx, broadcasting>>
        /\ link' = [link EXCEPT !.twas = <<>>]
    BY <1>5 DEF LinkedForeignTwas, Rest
  <2>2. /\ link'.owPending = "NONE" /\ ~link'.owTx /\ ~link'.retry
        /\ link'.amd = "NONE" /\ ~link'.term
    BY <1>1, <2>1 DEF Links
  <2>3. ~Sending' /\ LinkCalm' /\ Resting(tx')
    BY <1>2, <2>1, <2>2 DEF Sending, In, Unmoved, LinkCalm
  <2>4. QED BY <2>1, <2>3, RestsCalm
<1>6. ~LinkedOrderwireStalled /\ ~LinkedOrderwireStart /\ ~LinkedAmdRetryDue
      /\ ~LinkedAmdNoResponse /\ ~LinkedAmdResponseSettled /\ ~LinkedAmdAckWaited
      /\ ~LinkedInactive /\ ~LinkedBackstop
  BY <1>1
     DEF LinkedOrderwireStalled, LinkedOrderwireStart, LinkedAmdRetryDue,
         LinkedAmdNoResponse, LinkedAmdResponseSettled, LinkedAmdAckWaited,
         LinkedInactive, LinkedBackstop, LinkedListening
<1>7. QED BY <1>3, <1>4, <1>5, <1>6 DEF LinkedTick

\* SOUNDING_COMPLETE, which a station that is not sending alone reaches.
LEMMA SoundingCompleteCalm ==
  ASSUME CalmState, state = "SOUNDING", ~Sending, SoundingComplete(tx),
         UNCHANGED broadcasting
  PROVE  CalmGood
<1>1. /\ tx \in TxPaths /\ call \in Calls /\ hs \in Handshakes /\ link \in Links
      /\ Resting(tx) /\ link.owPending = "NONE" /\ ~link.owTx /\ LinkCalm
      /\ previous_state \in States
  BY CalmFacts DEF TypeOK
<1>2. ~Silent
  BY DEF CalmState, CalmInv, NoSounding
<1>3. CASE sweep > 1
  <2>1. /\ phase' = "LBT" /\ tx' = RxOn(tx) /\ Unmoved /\ UNCHANGED link
    BY <1>3 DEF SoundingComplete, Unmoved
  <2>2. Resting(tx')
    BY <1>1, <2>1, CalmPath, Numbers
  <2>3. ~Sending' /\ LinkCalm'
    BY <1>1, <2>1 DEF Sending, In, Unmoved, LinkCalm
  <2>4. QED BY <2>1, <2>2, <2>3, RestsCalm
<1>4. CASE ~(sweep > 1) /\ previous_state = "SOUNDING"
  <2>1. Unmoved /\ UNCHANGED <<phase, link, tx>>
    BY <1>4 DEF SoundingComplete, TransitionTo, Moves, TxAfter, Unmoved
  <2>2. ~Sending' /\ LinkCalm' /\ Resting(tx')
    BY <1>1, <2>1 DEF Sending, In, Unmoved, LinkCalm
  <2>3. QED BY <2>1, <2>2, RestsCalm
<1>5. CASE ~(sweep > 1) /\ previous_state # "SOUNDING"
  <2>1. TransitionTo(previous_state, call, hs, link, tx)
    BY <1>5 DEF SoundingComplete
  <2>2. QED BY <1>1, <1>2, <1>5, <2>1, EnteredCalm
<1>6. QED BY <1>3, <1>4, <1>5

\* handle_sounding(), the scanner's pause and the broadcast's safety net.
LEMMA OtherTicksCalm ==
  ASSUME CalmState, SoundingTick \/ ScanPauseOver \/ BroadcastStalled
  PROVE  CalmGood
<1>1. tx \in TxPaths /\ LinkCalm /\ ~RxOnly /\ ~broadcasting
  BY CalmFacts
<1>2. CASE SoundingLbtBusy \/ SoundingWindowClosed
  <2>1. state = "SOUNDING" /\ ~Sending /\ SoundingComplete(tx) /\ UNCHANGED broadcasting
    BY <1>2 DEF SoundingLbtBusy, SoundingWindowClosed, In, Sending
  <2>2. QED BY <2>1, SoundingCompleteCalm
<1>3. CASE SoundingTransmit
  <2> DEFINE keyed == RxOff(tx)
  <2>1. /\ state = "SOUNDING" /\ ~Sending /\ Unmoved
        /\ UNCHANGED <<link, broadcasting>>
        /\ phase' = "TRANSMITTING" /\ tx' = Transmit(SoundingWords, keyed)
    BY <1>3 DEF SoundingTransmit, In, Sending, Rest
  <2>2. keyed \in TxPaths /\ Keyed(keyed) /\ LeadFirst(keyed)
    BY <1>1, <2>1, CalmFacts, CalmPath, KeepsRxOff, Numbers DEF Keeps
  <2>3. SoundingWords \in Nat
    BY BurstLengths, CalmFacts DEF TypeOK
  <2> HIDE DEF keyed
  <2>4. Keyed(tx') /\ LeadFirst(tx')
    BY <2>1, <2>2, <2>3, CalmPath
  <2>5. Sending' /\ LinkCalm' /\ AckHeard' /\ CallPhaseInStep'
    BY <1>1, <2>1 DEF Sending, In, Unmoved, LinkCalm, AckHeard, CallPhaseInStep
  <2>6. QED BY <2>1, <2>4, <2>5, SendsCalm
<1>4. CASE SoundingSent
  <2>1. /\ state = "SOUNDING" /\ Sending /\ tx.pending = 0 /\ Unmoved
        /\ UNCHANGED <<link, broadcasting>>
        /\ phase' = "LISTENING" /\ tx' = RxOn(tx)
    BY <1>4 DEF SoundingSent, In, Sending, Rest
  <2>2. Resting(tx')
    BY <1>1, <2>1, CalmFacts, CalmPath, Numbers
  <2>3. ~Sending' /\ LinkCalm'
    BY <1>1, <2>1 DEF Sending, In, Unmoved, LinkCalm
  <2>4. QED BY <2>1, <2>2, <2>3, RestsCalm
<1>5. CASE ScanPauseOver
  <2>1. /\ state = "SCANNING" /\ Unmoved /\ UNCHANGED <<link, tx, broadcasting>>
        /\ ~Sending /\ ~Sending'
    BY <1>5 DEF ScanPauseOver, In, Sending, Rest, Unmoved
  <2>2. Resting(tx') /\ LinkCalm'
    BY <1>1, <2>1, CalmFacts DEF LinkCalm
  <2>3. QED BY <2>1, <2>2, RestsCalm
<1>6. CASE BroadcastStalled
  BY <1>1, <1>6 DEF BroadcastStalled
<1>7. QED BY <1>2, <1>3, <1>4, <1>5, <1>6 DEF SoundingTick

\* on_word_complete(): the burst ends with its last word and not before.
LEMMA WordRenderedCalm ==
  ASSUME CalmState, WordRendered
  PROVE  CalmGood
<1> DEFINE rendered == [tx EXCEPT !.air = @ - 1]
           done == Completed(rendered)
           busy == state = "LINKED" /\ (link.term \/ link.owTx)
<1>1. /\ tx \in TxPaths /\ call \in Calls /\ hs \in Handshakes /\ link \in Links
      /\ link.owPending = "NONE" /\ ~link.owTx /\ LinkCalm /\ ~broadcasting
      /\ CallCounted
  BY CalmFacts
<1>2. Sending /\ Keyed(tx) /\ tx.air > 0
  BY <1>1, CalmFacts DEF WordRendered, Resting, TxPaths
<1>3. /\ done \in TxPaths /\ Keyed(done)
      /\ tx.pending > 0 /\ done.pending = tx.pending - 1
      /\ LeadFirst(done)
  BY <1>1, <1>2, CalmRendered DEF CalmState, CalmInv
<1>4. /\ rendered.pending = tx.pending
      /\ OnWordComplete(rendered)
  BY <1>1 DEF WordRendered, TxPaths
<1> HIDE DEF rendered
<1>5. /\ tx.pending \in Nat /\ done.pending \in Nat
      /\ done.pending = 0 => tx.air = 1 /\ tx.pending = 1
  BY <1>1, <1>2, <1>3 DEF TxPaths, Keyed
<1> HIDE DEF done
<1>6. done.pending = 0 => Resting(RxOn(done))
  BY <1>3, CalmPath, Numbers
<1>7. CASE busy /\ CompletedInLinked(done) /\ UNCHANGED broadcasting
  <2>1. link.term /\ state = "LINKED"
    BY <1>1, <1>7
  <2>2. CASE done.pending = 0
    <3> DEFINE d == DisarmDrain(done)
               l == [link EXCEPT !.term = FALSE]
    <3>1. LeaveLink(call, hs, l, d)
      BY <1>7, <2>1, <2>2 DEF CompletedInLinked
    <3>2. d \in TxPaths /\ Keyed(d) /\ d.pending = 0
      BY <1>3, <2>2, CalmPath, PathCounts, KeepsDrain, Numbers DEF Keeps
    <3>3. l \in Links /\ l.owPending = "NONE" /\ ~l.owTx
      BY <1>1 DEF Links
    <3> HIDE DEF d, l
    <3>4. QED BY <1>1, <1>7, <2>1, <3>1, <3>2, <3>3, LeaveCalm
  <2>3. CASE done.pending # 0
    <3>1. tx' = done /\ Unmoved /\ UNCHANGED <<phase, call, hs, link>>
      BY <1>7, <2>1, <2>3 DEF CompletedInLinked
    <3>2. Sending' /\ LinkCalm' /\ AckHeard' /\ CallPhaseInStep'
      BY <1>1, <2>1, <3>1
         DEF Sending, Unmoved, LinkCalm, AckHeard, CallPhaseInStep, In
    <3>3. QED BY <1>3, <1>7, <3>1, <3>2, SendsCalm
  <2>4. QED BY <2>2, <2>3
<1>8. CASE state = "SOUNDING" /\ CompletedInSounding(done) /\ UNCHANGED broadcasting
  <2>1. phase = "TRANSMITTING" /\ Unmoved /\ UNCHANGED link
    BY <1>2, <1>8 DEF CompletedInSounding, Sending, In
  <2>2. CASE done.pending = 0
    <3>1. phase' = "LISTENING" /\ tx' = RxOn(done)
      BY <1>8, <2>1, <2>2 DEF CompletedInSounding
    <3>2. ~Sending' /\ LinkCalm'
      BY <1>1, <1>8, <2>1, <3>1 DEF Sending, In, Unmoved, LinkCalm
    <3>3. QED BY <1>6, <1>8, <2>1, <2>2, <3>1, <3>2, RestsCalm
  <2>3. CASE done.pending # 0
    <3>1. phase' = phase /\ tx' = done
      BY <1>8, <2>3 DEF CompletedInSounding
    <3>2. Sending' /\ LinkCalm' /\ AckHeard' /\ CallPhaseInStep'
      BY <1>1, <1>8, <2>1, <3>1
         DEF Sending, Unmoved, LinkCalm, AckHeard, CallPhaseInStep, In
    <3>3. QED BY <1>3, <1>8, <2>1, <3>1, <3>2, SendsCalm
  <2>4. QED BY <2>2, <2>3
<1>9. CASE state = "CALLING" /\ CompletedInCalling(done) /\ UNCHANGED broadcasting
  <2> DEFINE cycles == call.cycles + 1
             counted == [call EXCEPT !.cycles = cycles]
             reset == [call EXCEPT !.cycles = 0]
  <2>1. /\ counted \in Calls /\ counted.scan = call.scan /\ counted.amd = call.amd
        /\ counted.cycles = call.cycles + 1 /\ counted.heard = call.heard
        /\ reset.scan = call.scan /\ reset.amd = call.amd /\ reset.cycles = 0
        /\ call.cycles \in Nat
    BY <1>1 DEF Calls
  <2>2. PhaseWords \in Nat /\ UNCHANGED scan_c
    BY <1>1, <1>4, CalmFacts, Numbers DEF PhaseWords, TypeOK, Calls, OnWordComplete
  <2> HIDE DEF counted, reset
  <2>3. ASSUME phase \in CallingTxPhases
        PROVE  tx.pending = WordsToGo /\ call.cycles < PhaseWords
    BY <1>1, <1>9, <2>3 DEF CalmState, CalmInv, CallPhaseInStep, CallCounted
  <2>4. CASE /\ phase \in CallingTxPhases /\ cycles >= PhaseWords
             /\ phase' = NextPhase /\ call' = reset
             /\ tx' = IF NextPhase = "LISTENING" THEN RxOn(done) ELSE done
             /\ Unmoved /\ UNCHANGED <<hs, link>>
    <3>1. call.cycles = PhaseWords - 1
      BY <2>1, <2>2, <2>3, <2>4
    <3>2. CASE phase = "CONCLUSION"
      <4>1. phase' = "LISTENING" /\ tx' = RxOn(done)
        BY <2>4, <3>2 DEF NextPhase
      <4>2. done.pending = 0
        BY <1>3, <1>5, <2>2, <2>3, <2>4, <3>1, <3>2 DEF WordsToGo
      <4>3. ~Sending' /\ LinkCalm'
        BY <1>1, <1>9, <2>4, <4>1
           DEF Sending, In, Unmoved, LinkCalm, CallingTxPhases
      <4>4. QED BY <1>6, <1>9, <2>4, <4>1, <4>2, <4>3, RestsCalm
    <3>3. CASE phase # "CONCLUSION"
      <4>1. /\ tx' = done /\ phase' \in {"LEADING_CALL", "CONCLUSION"}
            /\ phase' = IF phase = "LEADING_CALL" THEN "CONCLUSION" ELSE "LEADING_CALL"
        BY <2>4, <3>3 DEF NextPhase
      <4>2. Sending' /\ LinkCalm' /\ AckHeard'
        BY <1>1, <1>9, <2>4, <4>1
           DEF Sending, In, Unmoved, LinkCalm, AckHeard, CallingTxPhases
      <4>3. WordsToGo = 1 + WordsToGo'
        <5>1. CASE phase = "LEADING_CALL"
          <6>1. PhaseWords' = ConcWords
            BY <4>1, <5>1 DEF PhaseWords
          <6>2. WordsToGo' = ConcWords
            BY <2>1, <2>4, <4>1, <5>1, <6>1, Numbers DEF WordsToGo
          <6>3. QED BY <2>2, <3>1, <5>1, <6>2, Numbers DEF WordsToGo
        <5>2. CASE phase \in {"SCANNING_CALL", "GROUP_SCANNING_CALL"}
          <6>1. PhaseWords' = LeadWords + (IF call.amd = "NONE" THEN 0 ELSE MsgWords)
            BY <2>1, <2>4, <4>1, <5>2 DEF PhaseWords
          <6>2. WordsToGo' = PhaseWords' + ConcWords
            BY <2>1, <2>4, <4>1, <5>2, <6>1, Numbers DEF WordsToGo
          <6>3. QED BY <2>2, <3>1, <5>2, <6>1, <6>2, Numbers DEF WordsToGo
        <5>3. QED BY <2>4, <3>3, <5>1, <5>2 DEF CallingTxPhases
      <4>4. CallPhaseInStep'
        <5>1. WordsToGo' \in Int
          <6>1. PhaseWords' \in Nat
            BY <4>1, Numbers DEF PhaseWords
          <6>2. QED BY <2>1, <2>4, <4>1, <6>1, Numbers DEF WordsToGo
        <5>2. tx'.pending = WordsToGo'
          BY <1>3, <1>5, <2>3, <2>4, <4>1, <4>3, <5>1
        <5>3. QED BY <5>2 DEF CallPhaseInStep
      <4>5. QED BY <1>3, <1>9, <2>4, <4>1, <4>2, <4>4, SendsCalm
    <3>4. QED BY <3>2, <3>3
  <2>5. CASE /\ phase \in CallingTxPhases /\ ~(cycles >= PhaseWords)
             /\ phase' = phase /\ call' = counted /\ tx' = done
             /\ Unmoved /\ UNCHANGED <<hs, link>>
    <3>1. Sending' /\ LinkCalm' /\ AckHeard'
      BY <1>1, <1>9, <2>5
         DEF Sending, In, Unmoved, LinkCalm, AckHeard, CallingTxPhases
    <3>2. PhaseWords' = PhaseWords
      BY <2>1, <2>2, <2>5 DEF PhaseWords
    <3>3. WordsToGo \in Int
      BY <2>1, <2>2, Numbers DEF WordsToGo
    <3>4. WordsToGo' = PhaseWords - (call.cycles + 1)
                         + (WordsToGo - (PhaseWords - call.cycles))
      BY <2>1, <2>2, <2>5, <3>2, Numbers DEF WordsToGo
    <3>5. tx'.pending = WordsToGo'
      BY <1>3, <1>5, <2>1, <2>2, <2>3, <2>5, <3>3, <3>4
    <3>6. CallPhaseInStep'
      BY <3>5 DEF CallPhaseInStep
    <3>7. QED BY <1>3, <1>9, <2>5, <3>1, <3>6, SendsCalm
  <2>6. ASSUME phase = "SENDING_ACK"
        PROVE  call.heard = {"TO", "TIS"}
    BY <1>9, <2>6 DEF CalmState, CalmInv, AckHeard, In
  <2>7. CASE /\ phase = "SENDING_ACK" /\ done.pending = 0
             /\ LeaveLink(counted, hs, link, done)
    BY <1>1, <1>3, <1>9, <2>1, <2>7, LeaveCalm
  <2>8. CASE /\ phase = "SENDING_ACK" /\ done.pending = 0
             /\ Established(counted, hs, link, done)
    <3>1. "LINKED" \in States /\ "LINKED" # state
      BY <1>9 DEF States
    <3>2. QED
      BY <1>1, <1>3, <1>5, <1>9, <2>1, <2>6, <2>8, <3>1, EnteredCalm
         DEF Established
  <2>9. CASE /\ phase \notin CallingTxPhases /\ call' = counted /\ tx' = done
             /\ Unmoved /\ UNCHANGED <<phase, hs, link>>
    <3>1. phase = "SENDING_ACK"
      BY <1>1, <1>2, <1>3, <1>5, <1>9, <2>9 DEF Sending, In, CallCounted
    <3>2. Sending' /\ LinkCalm' /\ CallPhaseInStep'
      BY <1>1, <1>9, <2>9, <3>1
         DEF Sending, Unmoved, LinkCalm, CallPhaseInStep, CallingTxPhases
    <3>3. AckHeard'
      BY <2>1, <2>6, <2>9, <3>1 DEF AckHeard
    <3>4. QED BY <1>3, <1>9, <2>9, <3>2, <3>3, SendsCalm
  <2>10. QED
    BY <1>9, <2>4, <2>5, <2>7, <2>8, <2>9
       DEF CompletedInCalling, counted, reset
<1>10. CASE /\ In("HANDSHAKE", "SENDING_RESPONSE")
            /\ CompletedInHandshake(done) /\ UNCHANGED broadcasting
  <2>1. CASE done.pending = 0
    <3>1. /\ phase' = "WAIT_ACK" /\ tx' = RxOn(done) /\ Unmoved /\ UNCHANGED link
      BY <1>10, <2>1 DEF CompletedInHandshake
    <3>2. ~Sending' /\ LinkCalm'
      BY <1>1, <1>10, <3>1 DEF Sending, In, Unmoved, LinkCalm
    <3>3. QED BY <1>6, <1>10, <2>1, <3>1, <3>2, RestsCalm
  <2>2. CASE done.pending # 0
    <3>1. tx' = done /\ Unmoved /\ UNCHANGED <<phase, call, hs, link>>
      BY <1>10, <2>2 DEF CompletedInHandshake
    <3>2. Sending' /\ LinkCalm' /\ AckHeard' /\ CallPhaseInStep'
      BY <1>1, <1>10, <3>1
         DEF Sending, Unmoved, LinkCalm, AckHeard, CallPhaseInStep, In
    <3>3. QED BY <1>3, <1>10, <3>1, <3>2, SendsCalm
  <2>3. QED BY <2>1, <2>2
<1>11. /\ ~busy /\ state # "SOUNDING" /\ ~broadcasting
       /\ (state = "CALLING" \/ In("HANDSHAKE", "SENDING_RESPONSE"))
            => ~(rendered.pending > 0)
       => FALSE
  BY <1>2, <1>3, <1>4 DEF Sending, In
<1>12. QED
  BY <1>1, <1>4, <1>7, <1>8, <1>9, <1>10, <1>11 DEF OnWordComplete, done

\* A step that leaves the transmit path, the link and the phase alone keeps a
\* station calm, except for what it may do to the counting of a call.
LEMMA UntouchedCalm ==
  ASSUME CalmState, Unmoved, UNCHANGED <<phase, link, tx, broadcasting>>,
         state = "CALLING" =>
           /\ WordsToGo' = WordsToGo
           /\ phase = "SENDING_ACK" => call'.heard = call.heard
  PROVE  CalmGood
<1>1. LinkCalm' /\ LinkCalm /\ (Sending' <=> Sending)
  BY CalmFacts DEF LinkCalm, Sending, In, Unmoved
<1>2. CASE Sending
  <2>1. Sending' /\ Keyed(tx') /\ LeadFirst(tx')
    BY <1>1, <1>2, CalmFacts DEF CalmState, CalmInv
  <2>2. CallPhaseInStep' /\ AckHeard'
    BY DEF CalmState, CalmInv, CallPhaseInStep, AckHeard, In, Unmoved
  <2>3. QED BY <1>1, <2>1, <2>2, SendsCalm
<1>3. CASE ~Sending
  <2>1. ~Sending' /\ Resting(tx')
    BY <1>1, <1>3, CalmFacts
  <2>2. QED BY <1>1, <2>1, RestsCalm
<1>4. QED BY <1>2, <1>3

\* A call is detected by a station that receives.
LEMMA IncomingCallCalm ==
  ASSUME CalmState, NEW w \in Words, IncomingCall(w), ~Sending,
         state \in Available \cup {"SOUNDING"}, UNCHANGED broadcasting
  PROVE  CalmGood
<1>1. /\ tx \in TxPaths /\ call \in Calls /\ hs \in Handshakes /\ link \in Links
      /\ Resting(tx) /\ link.owPending = "NONE" /\ ~link.owTx /\ TypeOK
      /\ "HANDSHAKE" \in States /\ "HANDSHAKE" # state
  BY CalmFacts DEF States, Available
<1>2. [call EXCEPT !.to = <<w.addr>>] \in Calls
  <2>1. <<w.addr>> \in Addrs
    BY <1>1, HeardTyped DEF Addrs
  <2>2. QED BY <1>1, <2>1 DEF Calls
<1>3. Heard \in Handshakes /\ [Heard EXCEPT !.silent = TRUE] \in Handshakes
  BY <1>1, HeardTyped DEF Handshakes
<1>4. ASSUME NEW c \in Calls, NEW h \in Handshakes, CallDetected(c, h)
      PROVE  CalmGood
  <2>1. TransitionTo("HANDSHAKE", c, h, link, tx)
    BY <1>4 DEF CallDetected
  <2>2. QED BY <1>1, <2>1, EnteredCalm
<1>5. QED BY <1>1, <1>2, <1>3, <1>4 DEF IncomingCall

\* process_received_word() and on_invalid_word_(): what is decoded was heard while
\* nothing was being sent.
LEMMA WordDecodedCalm ==
  ASSUME CalmState, WordDecoded
  PROVE  CalmGood
<1>1. /\ tx \in TxPaths /\ call \in Calls /\ hs \in Handshakes /\ link \in Links
      /\ link.owPending = "NONE" /\ ~link.owTx /\ LinkCalm /\ TypeOK
  BY CalmFacts
<1>2. ~Sending /\ Resting(tx)
  BY CalmFacts DEF WordDecoded, Keyed
<1>3. UNCHANGED broadcasting
  BY DEF WordDecoded, ReceiveWord, ReceiveInvalidWord
<1>4. ASSUME NEW h \in Handshakes, state \in {"CALLING", "HANDSHAKE"},
             LeaveLink(call, h, link, tx)
      PROVE  CalmGood
  BY <1>1, <1>2, <1>3, <1>4, LeaveCalm
<1>5. ASSUME state # "CALLING", Unmoved, UNCHANGED <<phase, link, tx>>
      PROVE  CalmGood
  BY <1>3, <1>5, UntouchedCalm
<1>6. ASSUME NEW w \in Words, ReceiveWord(w)
      PROVE  CalmGood
  <2>1. Heard \in Handshakes
    BY <1>1, HeardTyped
  <2>2. CASE state \in Available /\ HearInAvailable(w)
    <3>1. CASE IncomingCall(w)
      BY <1>2, <1>3, <2>2, <3>1, IncomingCallCalm
    <3>2. CASE ~IncomingCall(w)
      <4>1. Unmoved /\ UNCHANGED <<link, tx>>
        BY <2>2, <3>2 DEF HearInAvailable
      <4>2. ~Sending' /\ LinkCalm'
        BY <1>1, <2>2, <4>1 DEF Sending, In, Unmoved, Available, LinkCalm
      <4>3. QED BY <1>2, <1>3, <4>1, <4>2, RestsCalm
    <3>3. QED BY <3>1, <3>2
  <2>3. CASE state = "CALLING" /\ HearInCalling(w)
    <3>1. CASE LeaveLink(call, Heard, link, tx)
      BY <1>4, <2>1, <2>3, <3>1
    <3>2. CASE ~LeaveLink(call, Heard, link, tx)
      <4>1. Unmoved /\ UNCHANGED <<phase, link, tx>>
        BY <2>3, <3>2 DEF HearInCalling
      <4>2. ~Sending' /\ LinkCalm'
        BY <1>1, <1>2, <4>1 DEF Sending, In, Unmoved, LinkCalm
      <4>3. QED BY <1>2, <1>3, <4>1, <4>2, RestsCalm
    <3>3. QED BY <3>1, <3>2
  <2>4. CASE state = "HANDSHAKE" /\ HearInHandshake(w)
    <3>1. CASE LeaveLink(call, Heard, link, tx)
      BY <1>4, <2>1, <2>4, <3>1
    <3>2. CASE ~LeaveLink(call, Heard, link, tx)
      BY <1>5, <2>4, <3>2 DEF HearInHandshake
    <3>3. QED BY <3>1, <3>2
  <2>5. CASE state = "LINKED" /\ HearInLinked(w)
    <3>1. link' \in {LinkedWord(w), link} /\ Unmoved /\ UNCHANGED tx
      BY <2>5 DEF HearInLinked
    <3>2. /\ link'.term = link.term /\ link'.owTx = link.owTx
          /\ link'.owPending = link.owPending /\ link'.retry = link.retry
          /\ link'.amd = link.amd
      BY <1>1, <3>1 DEF LinkedWord, Links
    <3>3. ~Sending' /\ LinkCalm'
      BY <1>1, <1>2, <2>5, <3>1, <3>2 DEF Sending, In, Unmoved, LinkCalm
    <3>4. QED BY <1>2, <1>3, <3>1, <3>3, RestsCalm
  <2>6. CASE state = "SOUNDING" /\ HearInSounding(w)
    <3>1. CASE SoundingComplete(tx)
      BY <1>2, <1>3, <2>6, <3>1, SoundingCompleteCalm
    <3>2. CASE IncomingCall(w)
      BY <1>2, <1>3, <2>6, <3>2, IncomingCallCalm
    <3>3. CASE ~SoundingComplete(tx) /\ ~IncomingCall(w)
      BY <1>5, <2>6, <3>3 DEF HearInSounding
    <3>4. QED BY <3>1, <3>2, <3>3
  <2>7. QED
    BY <1>6, <2>2, <2>3, <2>4, <2>5, <2>6 DEF ReceiveWord
<1>7. CASE ReceiveInvalidWord
  <2>1. CASE state = "SOUNDING" /\ SoundingComplete(tx)
    BY <1>2, <1>3, <2>1, SoundingCompleteCalm
  <2>2. CASE state = "HANDSHAKE" /\ LeaveLink(call, hs, link, tx)
    BY <1>1, <1>4, <2>2
  <2>3. CASE state = "HANDSHAKE" /\ Unmoved /\ UNCHANGED <<phase, link, tx>>
    BY <1>5, <2>3
  <2>4. QED
    BY <1>7, <2>1, <2>2, <2>3 DEF ReceiveInvalidWord, In
<1>8. QED BY <1>6, <1>7 DEF WordDecoded


\* A request, granted or refused, that states its width.
LEMMA RequestCallCalm ==
  ASSUME CalmState, NEW to \in Targets, NEW group \in BOOLEAN,
         NEW amd \in Amds, NEW left \in Nat, RequestCall(to, group, amd, left)
  PROVE  CalmGood
<1>1. /\ tx \in TxPaths /\ call \in Calls /\ hs \in Handshakes /\ link \in Links
      /\ link.owPending = "NONE" /\ ~link.owTx /\ CallCounted
      /\ scan_c \in Nat
  BY CalmFacts DEF TypeOK
<1>2. scan_c' \in ScanWidths /\ UNCHANGED broadcasting
  BY DEF RequestCall
<1>3. CASE PlaceCall(to, group, amd, left)
  <2> DEFINE placed == [call EXCEPT !.to = to, !.group = group, !.amd = amd,
                                    !.left = left, !.scan = 2 * scan_c']
  <2>1. to \in Addrs /\ 2 * scan_c' \in Nat
    <3>1. \A n \in Nat : 2 * n \in Nat
      OBVIOUS
    <3>2. QED BY <1>2, <3>1, ControllerAssumption DEF Addrs
  <2>2. placed \in Calls
    BY <1>1, <2>1 DEF Calls
  <2>3. TransitionTo("CALLING", placed, hs, link, tx) /\ state \in Available
    BY <1>3 DEF PlaceCall
  <2> HIDE DEF placed
  <2>4. "CALLING" \in States /\ "CALLING" # state /\ ~Sending
    BY <2>3 DEF States, Available, Sending, In
  <2>5. Resting(tx)
    BY <2>4, CalmFacts
  <2>6. QED BY <1>1, <1>2, <2>2, <2>3, <2>4, <2>5, EnteredCalm
<1>4. CASE /\ state \notin Available
           /\ call' = IF state = "CALLING" THEN [call EXCEPT !.left = left] ELSE call
           /\ Unmoved /\ UNCHANGED <<phase, hs, link, tx>>
  <2>1. /\ call'.scan = call.scan /\ call'.amd = call.amd
        /\ call'.cycles = call.cycles /\ call'.heard = call.heard
    BY <1>1, <1>4 DEF Calls
  <2>2. ASSUME state = "CALLING"
        PROVE  WordsToGo' = WordsToGo
    <3>1. scan_c' = scan_c
      BY <1>1, <1>2, <2>2, CalmFacts DEF CallCounted, OneWidth
    <3>2. PhaseWords' = PhaseWords
      BY <1>4, <2>1, <3>1 DEF PhaseWords
    <3>3. QED BY <1>4, <2>1, <3>2 DEF WordsToGo
  <2>3. QED BY <1>2, <1>4, <2>1, <2>2, UntouchedCalm
<1>5. QED BY <1>3, <1>4 DEF RequestCall

\* Every command of a calm station.
LEMMA CommandCalm ==
  ASSUME CalmState, Command
  PROVE  CalmGood
<1>1. /\ tx \in TxPaths /\ call \in Calls /\ hs \in Handshakes /\ link \in Links
      /\ link.owPending = "NONE" /\ ~link.owTx /\ LinkCalm /\ ~broadcasting
      /\ ~RxOnly /\ pending_amd \in Amds /\ scan_c \in Nat
  BY CalmFacts DEF TypeOK
<1>2. NumChannels - 1 \in Nat /\ 0 \in Nat
  BY Numbers
<1>3. \A command \in {"AVAILABLE", "LINKED_AMD", "AMD_RECEIVED", "EFS",
                       "BROADCAST", "EMERGENCY", "PTT"} : ~Offered(command)
  BY DEF CalmState, Calm, Offered
<1>4. CASE StartScanning
  <2>1. /\ TransitionTo("SCANNING", call, hs, link, tx) /\ state = "IDLE"
        /\ UNCHANGED broadcasting
    BY <1>4 DEF StartScanning, Rest
  <2>2. Resting(tx) /\ "SCANNING" \in States /\ "SCANNING" # state
    BY <2>1, CalmFacts DEF Sending, In, States
  <2>3. QED BY <1>1, <2>1, <2>2, EnteredCalm
<1>5. CASE InitiateCall \/ InitiateSingleChannelCall \/ InitiateGroupCall
  BY <1>1, <1>2, <1>5, RequestCallCalm
     DEF InitiateCall, InitiateSingleChannelCall, InitiateGroupCall
<1>6. CASE SendAmd
  <2>1. \A amd \in {"LINK", "NO_LINK"} : amd \in Amds
    BY DEF Amds
  <2>2. QED BY <1>1, <1>2, <1>6, <2>1, RequestCallCalm DEF SendAmd
<1>7. CASE Terminate
  <2> DEFINE sent == RxOff(Transmit(FrameWords, tx))
  <2>1. /\ state = "LINKED" /\ Unmoved /\ tx' = ArmDrain(sent)
        /\ link' = [link EXCEPT !.term = TRUE] /\ UNCHANGED <<phase, broadcasting>>
        /\ "TERMINATE" \in Commands
    BY <1>7 DEF Terminate, TerminateLink, Offered, Rest
  <2>2. sent \in TxPaths /\ Keyed(sent)
    BY <1>1, CalmFacts, CalmPath, KeepsRxOff, KeepsTransmit, Numbers DEF Keeps
  <2> HIDE DEF sent
  <2>3. Keyed(tx') /\ LeadFirst(tx')
    BY <1>2, <2>1, <2>2, CalmPath DEF LeadFirst
  <2>4. Sending' /\ LinkCalm' /\ CallPhaseInStep' /\ AckHeard'
    BY <1>1, <2>1
       DEF Sending, LinkCalm, CallPhaseInStep, AckHeard, In, Unmoved, Links
  <2>5. QED BY <2>1, <2>3, <2>4, SendsCalm
<1>8. ASSUME NEW n \in Nat, RequestSounding(n), Offered("SOUND") \/ Offered("SWEEP"),
             UNCHANGED broadcasting
      PROVE  CalmGood
  <2>1. state \in Available /\ TransitionTo("SOUNDING", call, hs, link, tx)
    BY <1>8 DEF RequestSounding
  <2>2. /\ "SOUNDING" \in States /\ "SOUNDING" # state /\ Resting(tx)
    BY <2>1, CalmFacts DEF States, Available, Sending, In
  <2>3. ~Silent
    BY <1>8 DEF Silent, Offered
  <2>4. QED BY <1>1, <1>8, <2>1, <2>2, <2>3, EnteredCalm
<1>9. ASSUME scan_c' \in ScanWidths, Unmoved,
             UNCHANGED <<phase, call, hs, link, tx, broadcasting>>
      PROVE  CalmGood
  <2>1. ASSUME state = "CALLING"
        PROVE  WordsToGo' = WordsToGo
    <3>1. scan_c' = scan_c
      BY <1>9, <2>1, CalmFacts DEF CallCounted, OneWidth
    <3>2. QED BY <1>9, <3>1 DEF WordsToGo, PhaseWords
  <2>2. QED BY <1>9, <2>1, UntouchedCalm
<1>10. CASE SendSounding \/ SendSoundingSweep
  <2>1. \A n \in 1..MaxSweep : n \in Nat
    OBVIOUS
  <2>2. QED
    BY <1>2, <1>8, <1>9, <1>10, <2>1 DEF SendSounding, SendSoundingSweep
<1>11. QED
  BY <1>3, <1>4, <1>5, <1>6, <1>7, <1>10
     DEF Command, StartAvailable, SendAmdLinked, LinkedAmdReceived,
         ProposeFrequency, BroadcastPositionReport, EmergencyStop, PressPtt,
         ReleasePtt

\* Every step of a calm station.
LEMMA NextCalm ==
  ASSUME CalmState, Next
  PROVE  CalmGood
<1>1. /\ tx \in TxPaths /\ LinkCalm /\ TypeOK /\ CountInv /\ 0 \in Nat
      /\ ~tx.abort
  BY CalmFacts DEF Keyed, Resting
<1>2. CountInv'
  BY <1>1, NextCounted DEF CountGood
<1>3. CASE PttLeadElapsed
  <2>1. /\ tx.lead /\ tx' = FlushLead(tx) /\ Unmoved
        /\ UNCHANGED <<phase, call, link, scan_c, broadcasting>>
    BY <1>3 DEF PttLeadElapsed, Rest
  <2>2. Sending /\ Keyed(tx)
    BY <2>1, CalmFacts DEF Resting
  <2>3. Keyed(tx') /\ LeadFirst(tx') /\ tx'.pending = tx.pending
    BY <1>1, <2>1, <2>2, CalmPath, PathCounts
  <2>4. Sending' /\ LinkCalm' /\ AckHeard'
    BY <1>1, <2>1, <2>2
       DEF Sending, In, Unmoved, LinkCalm, AckHeard, CalmState, CalmInv
  <2>5. CallPhaseInStep'
    BY <2>1, <2>3
       DEF CallPhaseInStep, WordsToGo, PhaseWords, Unmoved, CalmState, CalmInv
  <2>6. QED BY <2>1, <2>3, <2>4, <2>5, SendsCalm
<1>4. CASE PttTailElapsed
  <2>1. /\ tx.tail /\ tx' = Release(tx) /\ Unmoved
        /\ UNCHANGED <<phase, call, link, broadcasting>>
    BY <1>4 DEF PttTailElapsed, Rest
  <2>2. ~Sending /\ Resting(tx')
    BY <1>1, <2>1, CalmFacts, CalmPath DEF Keyed
  <2>3. ~Sending' /\ LinkCalm'
    BY <1>1, <2>1, <2>2 DEF Sending, In, Unmoved, LinkCalm
  <2>4. QED BY <2>1, <2>2, <2>3, RestsCalm
<1>5. CASE TickSm
  BY <1>2, <1>5, CallingTickCalm, HandshakeTickCalm, LinkedTickCalm,
     OtherTicksCalm
     DEF TickSm
<1>6. QED
  BY <1>1, <1>3, <1>4, <1>5, WordDecodedCalm, WordRenderedCalm, CommandCalm
     DEF Next, Step, MainLoop, AbortTx


\* The station starts at rest.
LEMMA InitCalm ==
  ASSUME Init
  PROVE  CalmInv
<1>1. /\ state = "IDLE" /\ pre_link_state = "IDLE" /\ tx = TxInit /\ ~broadcasting
      /\ LinkCalm
  BY DEF Init, SMInit, LinkCalm
<1>2. ~Sending
  BY <1>1 DEF Sending, In
<1>3. Resting(tx) /\ LeadFirst(tx)
  BY <1>1 DEF Resting, LeadFirst, TxInit
<1>4. QED
  BY <1>1, <1>2, <1>3
     DEF CalmInv, CallPhaseInStep, AckHeard, NoSounding, In

\* The invariant of part 2, and what it says of a step.
LEMMA CalmInvariant ==
  ASSUME Calm
  PROVE  Spec => []CalmInv
<1>1. Init => CalmInv
  BY InitCalm
<1>2. TypeOK /\ CountInv /\ CalmInv /\ [Next]_vars => CalmInv'
  <2>1. TypeOK /\ CountInv /\ CalmInv /\ Next => CalmInv'
    BY NextCalm DEF CalmState, CalmGood
  <2>2. CalmInv /\ UNCHANGED vars => CalmInv'
    BY DEF vars, CalmInv, Sending, In, LinkCalm, CallPhaseInStep, AckHeard,
           NoSounding, WordsToGo, PhaseWords
  <2>3. QED BY <2>1, <2>2
<1>3. QED BY <1>1, <1>2, TypeCorrect, CountInvariant, PTL DEF Spec

\* on_word_complete(), transmit callback: words_pending is the number of words
\* that are held back or in the modulator. It needs to be known in which states
\* the receiver is off: only there may a word be counted or rendered.
THEOREM WordsAreAccounted ==
  ASSUME Calm
  PROVE  Spec => []WordsAccounted
<1>1. TypeOK /\ CalmInv => WordsAccounted
  BY DEF TypeOK, TxPaths, CalmInv, Keyed, Resting, WordsAccounted
<1>2. QED BY <1>1, TypeCorrect, CalmInvariant, PTL

\* rx_enabled callback: the receiver is opened after the last word of a burst.
THEOREM ReceiverWaitsForSilence ==
  ASSUME Calm
  PROVE  Spec => []ReceivesOnlyWhenSilent
<1>1. CalmInv => ReceivesOnlyWhenSilent
  BY DEF CalmInv, Keyed, Resting, ReceivesOnlyWhenSilent
<1>2. QED BY <1>1, CalmInvariant, PTL

\* on_word_complete() in CALLING: the phase that is derived by counting is the
\* one the rendered word belongs to, with any number of channels, any call width
\* and any message.
THEOREM CallPhasesInStep ==
  ASSUME Calm
  PROVE  Spec => []CallPhaseInStep
<1>1. CalmInv => CallPhaseInStep
  BY DEF CalmInv
<1>2. QED BY <1>1, CalmInvariant, PTL

\* transmit callback, tick_ptt_timing(): no word enters the modulator before the
\* radio is keyed and has settled. A termination does (terminate_link() transmits
\* before it keys), so the station is one that does not terminate.
THEOREM WordsAreKeyed ==
  ASSUME Calm, "TERMINATE" \notin Commands
  PROVE  Spec => []KeyedWhileSending
<1>1. TypeOK /\ CalmInv => KeyedWhileSending
  BY DEF TypeOK, TxPaths, CalmInv, Keyed, Resting, LeadFirst, KeyedWhileSending
<1>2. QED BY <1>1, TypeCorrect, CalmInvariant, PTL

\* HANDSHAKE_COMPLETE: a station that does not sound is linked by nothing but the
\* three frames of a call, and with nothing left to send. A sounding would give
\* way to the state before it, whatever that was.
THEOREM LinksByThreeFrames ==
  ASSUME Calm, Silent
  PROVE  Spec => LinkedByThreeFrames
<1>1. TypeOK /\ CountInv /\ CalmInv /\ [Next]_vars => [ThreeFrames]_vars
  BY NextCalm DEF CalmState, CalmGood
<1>2. LinkedByThreeFrames <=> [][ThreeFrames]_vars
  BY PTL DEF LinkedByThreeFrames, ThreeFrames
<1>3. QED
  BY <1>1, <1>2, TypeCorrect, CountInvariant, CalmInvariant, PTL DEF Spec
=============================================================================
