------------------------------ MODULE Reception ------------------------------
(***************************************************************************)
(* What the controller makes of the words it hears: the identity of a      *)
(* sounding station (SoundingIdentityAccumulator), the texts that ride on  *)
(* a call, a response, an acknowledgement and a link (the four AMD         *)
(* windows), the quality of a station's words and the bilateral exchange   *)
(* of it (LqaExchangeManager).                                             *)
(*                                                                         *)
(* Each received word goes through all of these before the state machine   *)
(* sees it.  The state machine is reduced to the phases they ask for and   *)
(* to the two addresses they credit: to_address (the station that answered *)
(* us) and caller_address (the one that called us).                        *)
(*                                                                         *)
(* A word heard carries its true speaker, which the code does not know: it *)
(* is what the properties compare the credits with.                        *)
(***************************************************************************)
EXTENDS Integers, Sequences

CONSTANTS
  Stations,  \* the other stations
  Nobody,    \* an empty address
  Ext,       \* extension words of a station's address
  Missed,    \* may a word be missed altogether?  Otherwise it is garbled
  MaxFrames  \* frames sent by the other stations

ASSUME ReceptionAssumption ==
  Nobody \notin Stations /\ Ext \in 1..4 /\ Missed \in BOOLEAN /\ MaxFrames \in Nat

MaxExtSlots == 4  \* kMaxExtSlots

VARIABLES
  sm,       \* [st, to, caller, with]: the state machine; with is the true partner
  air,      \* [by, left, hit]: the frame on the air, its words still to come and
            \* whether the last one was missed or garbled
  since,    \* word periods since the last word of the sounding session and of
            \* the text being collected on the link
  session,  \* the sounding session: << >> or one record
  amd,      \* the four AmdAccumulators: [on, acc], acc the words of the text
  pending,  \* call_amd_pending_ and resp_amd_pending_
  owner,    \* linked_amd_peer_ and ack_amd_peer_
  exchange, \* [held, sent, target]: LqaExchangeManager; held is the speaker of
            \* the pending measurement
  quality,  \* speakers of the words in hs_call_acc_ and hs_resp_acc_
  frames,   \* frames sent so far
  texts,    \* texts given to the operator: [win, peer, acc]
  credits   \* pairs <<station credited in the database, true speaker>>

sound == <<session, since>>
mvars == <<sm, air, since, session, amd, pending, owner, exchange, quality, frames,
           texts, credits>>

Windows == {"call", "resp", "linked", "ack"}
Quiet == [on |-> FALSE, acc |-> <<>>]
Heard == [sounding |-> 2, linked |-> 2]

-----------------------------------------------------------------------------
(* What the stations send *)

Word(t, x) == [t |-> t, x |-> x]
Address(t) ==
  <<Word(t, 0)>> \o [i \in 1..Ext |-> Word(IF i % 2 = 1 THEN "DATA" ELSE "REP", i)]
Sounding(t) == Address(t) \o Address(t)
\* A frame to us: at most one text or one measurement before the conclusion.
FrameTo(body, t) == <<Word("TO", 0)>> \o body \o Address(t)
Bodies(n) == {<<>>, <<Word("LQA", 0)>>, <<Word("CMD", -n), Word("DATA", -n)>>}

-----------------------------------------------------------------------------
(* SoundingIdentityAccumulator *)

NoSession == <<>>
Later(n) == IF n < 2 THEN n + 1 ELSE 2
ExpectedType(slot) == IF slot % 2 = 1 THEN "DATA" ELSE "REP"
Opened(by) ==
  <<[anchor |-> by, votes |-> [i \in 1..MaxExtSlots |-> {}], slot |-> 1, open |-> TRUE]>>

Concluded(by) ==
  IF session # NoSession /\ session[1].anchor = by
  THEN <<[session[1] EXCEPT !.slot = 1, !.open = TRUE]>> ELSE Opened(by)
\* The word taken for a slot, or misfit when it is not one for the slot.
Filed(by, w, misfit) ==
  LET s == session[1] IN
  IF ~s.open \/ s.slot > MaxExtSlots THEN session
  ELSE IF w.t = ExpectedType(s.slot)
       THEN <<[s EXCEPT !.votes[s.slot] = @ \union {<<by, w.x>>}, !.slot = @ + 1]>>
       ELSE misfit
\* A variant for mutation: a conclusion does not start a new frame.
AfterWordNeverCloses(by, w) ==
  IF w.t \in {"TIS", "TWAS"} THEN Concluded(by)
  ELSE IF session = NoSession THEN session ELSE Filed(by, w, session)
\* on_word: a word that does not fit ends the cycle until the next conclusion.
AfterWord(by, w) ==
  IF w.t \in {"TIS", "TWAS"} THEN Concluded(by)
  ELSE IF session = NoSession THEN session
       ELSE Filed(by, w, <<[session[1] EXCEPT !.open = FALSE]>>)

\* rx_accumulate_sounding: only while scanning.
SoundingHeard(by, w) ==
  /\ session' = IF sm.st = "SCANNING" THEN AfterWord(by, w) ELSE session
  /\ since' = [sounding |-> IF sm.st = "SCANNING" THEN 0 ELSE Later(since.sounding),
               linked |-> IF sm.st = "LINKED" THEN 0 ELSE Later(since.linked)]

-----------------------------------------------------------------------------
(* The AMD windows *)

\* amd_step: the accumulator after a word, and the text the word completes;
\* flushed is what amd_flush leaves behind.
StepTo(a, by, w, flushed) ==
  LET piece == [by |-> by, x |-> w.x] IN
  CASE w.t = "CMD" -> [acc |-> [on |-> TRUE, acc |-> <<piece>>], done |-> a.acc]
    [] w.t \in {"LQA", "TIS", "TWAS"} -> [acc |-> flushed, done |-> a.acc]
    [] w.t \in {"DATA", "REP"} /\ a.on ->
         [acc |-> [on |-> TRUE, acc |-> Append(a.acc, piece)], done |-> <<>>]
    [] OTHER -> [acc |-> a, done |-> <<>>]
\* A variant for mutation: the accumulator is not emptied.
StepKeeps(a, by, w) == StepTo(a, by, w, a)
Step(a, by, w) == StepTo(a, by, w, Quiet)

\* amd_dispatch: nothing for an empty text or an unknown peer.
Given(win, peer, done) ==
  IF done = <<>> \/ peer = Nobody THEN <<>> ELSE <<[win |-> win, peer |-> peer, acc |-> done]>>

ActivePeer == IF sm.to # Nobody THEN sm.to ELSE sm.caller

\* The window that collects in a state; the two others flush what they hold.
WindowOf(st) ==
  CASE st = "HANDSHAKE" -> "call" [] st = "CALLING" -> "resp" [] st = "LINKED" -> "linked"
    [] st = "WAIT_ACK" -> "ack" [] OTHER -> "none"

TextHeard(by, w) ==
  LET win == WindowOf(sm.st)
      step == Step(amd[win], by, w)
      own(o) == IF win # o THEN owner[o]
                ELSE IF ~amd[o].on /\ step.acc.on
                     THEN (IF o = "linked" THEN ActivePeer ELSE sm.caller) ELSE owner[o]
      stray == {o \in {"linked", "ack"} : o # win}
  IN  /\ amd' = [v \in Windows |-> IF v = win THEN step.acc
                                   ELSE IF v \in stray THEN Quiet ELSE amd[v]]
      /\ owner' = [o \in {"linked", "ack"} |-> own(o)]
      /\ pending' = [v \in {"call", "resp"} |->
                       IF v = win /\ step.done # <<>> THEN Append(pending[v], step.done)
                       ELSE pending[v]]
      /\ texts' = texts
           \o Given("linked", own("linked"), IF win = "linked" THEN step.done ELSE amd["linked"].acc)
           \o Given("ack", own("ack"), IF win = "ack" THEN step.done ELSE amd["ack"].acc)

\* on_sm_state_change on leaving HANDSHAKE or CALLING: the texts of the window
\* go to the operator under the address known by then.
Dispatched(v, peer) ==
  LET all == pending[v] \o (IF amd[v].acc = <<>> THEN <<>> ELSE <<amd[v].acc>>)
  IN  IF peer = Nobody THEN <<>>
      ELSE [i \in DOMAIN all |-> [win |-> v, peer |-> peer, acc |-> all[i]]]
Closed(v, peer) ==
  /\ texts' = texts \o Dispatched(v, peer)
  /\ amd' = [amd EXCEPT ![v] = Quiet]
  /\ pending' = [pending EXCEPT ![v] = <<>>]
  /\ UNCHANGED owner

-----------------------------------------------------------------------------
(* Quality and its exchange *)

\* A variant for mutation: the pending result outlives the exchange.
NoReset == exchange
Reset == [exchange EXCEPT !.held = Nobody]
EncodeOutgoing(peer, request) ==
  [exchange EXCEPT !.sent = request, !.target = IF request THEN peer ELSE Nobody]
CallConcluded(e) == [e EXCEPT !.sent = FALSE, !.target = Nobody]
Applied(e, peer) == IF e.held = Nobody \/ peer = Nobody THEN {} ELSE {<<peer, e.held>>}
Credit(peer, speakers) == IF peer = Nobody THEN {} ELSE {<<peer, s>> : s \in speakers}

QualityHeard(by, w) ==
  /\ exchange' = IF w.t = "LQA" /\ sm.st \in {"HANDSHAKE", "CALLING", "LINKED"}
                 THEN [exchange EXCEPT !.held = by] ELSE exchange
  /\ quality' = CASE sm.st = "HANDSHAKE" -> [quality EXCEPT !.call = @ \union {by}]
                  [] sm.st = "CALLING" ->
                       [quality EXCEPT !.resp = IF w.t = "TIS" THEN {by} ELSE @ \union {by}]
                  [] OTHER -> quality

-----------------------------------------------------------------------------
(* The air *)

\* tick_frame_settle: two word periods after their last word the session and
\* the text on the link are concluded, at the latest before the third.
Waiting == (session # NoSession /\ since.sounding > 1) \/ (amd["linked"].on /\ since.linked > 1)
SettleSounding ==
  /\ session # NoSession /\ since.sounding >= 1
  /\ session' = NoSession
  /\ UNCHANGED <<sm, air, since, amd, pending, owner, exchange, quality, frames, texts, credits>>
SettleLinked ==
  /\ amd["linked"].on /\ since.linked >= 1
  /\ texts' = texts \o Given("linked", owner["linked"], amd["linked"].acc)
  /\ amd' = [amd EXCEPT !["linked"] = Quiet]
  /\ owner' = [owner EXCEPT !["linked"] = Nobody]
  /\ UNCHANGED <<sm, air, since, session, pending, exchange, quality, frames, credits>>

\* Only the partner is heard in a handshake or on a link.
Send ==
  /\ air.left = <<>> /\ frames < MaxFrames /\ ~Waiting
  /\ \E s \in Stations :
       /\ sm.with \in {s, Nobody}
       /\ \E b \in Bodies(frames + 1), t \in {"TIS", "TWAS"} :
            \/ sm.with = Nobody /\ air' = [by |-> s, left |-> Sounding(t), hit |-> FALSE]
            \/ air' = [by |-> s, left |-> FrameTo(b, t), hit |-> FALSE]
  /\ frames' = frames + 1
  /\ UNCHANGED <<sm, since, session, amd, pending, owner, exchange, quality, texts, credits>>

Silence ==
  /\ air.left = <<>> /\ ~Waiting
  /\ since' = [k \in DOMAIN since |-> Later(since[k])]
  /\ since' # since
  /\ UNCHANGED <<sm, air, session, amd, pending, owner, exchange, quality, frames, texts, credits>>

\* The state machine after a word of the partner's frame.
SmAfter(by, w) ==
  CASE sm.st = "HANDSHAKE" /\ w.t = "TIS" -> [sm EXCEPT !.caller = by]
    [] sm.st = "CALLING" /\ w.t \in {"TIS", "TWAS"} -> [sm EXCEPT !.to = by]
    [] OTHER -> sm

\* A TO word with our address while scanning: HANDSHAKE is entered, after the
\* accumulators have seen the word.
Called(by, w) ==
  /\ sm.st = "SCANNING" /\ w.t = "TO"
  /\ sm' = [sm EXCEPT !.st = "HANDSHAKE", !.caller = Nobody, !.with = by]
  /\ SoundingHeard(by, w)
  /\ texts' = texts \o Given("linked", owner["linked"], amd["linked"].acc)
                    \o Given("ack", owner["ack"], amd["ack"].acc)
  /\ amd' = [v \in Windows |-> IF v = "resp" THEN amd[v] ELSE Quiet]
  /\ pending' = [pending EXCEPT !["call"] = <<>>]
  /\ quality' = [quality EXCEPT !.call = {}]
  /\ exchange' = Reset
  /\ UNCHANGED <<owner, credits>>

Received ==
  /\ air.left # <<>> /\ ~Waiting
  /\ LET by == air.by  w == Head(air.left) IN
     /\ air' = [air EXCEPT !.left = Tail(@), !.hit = FALSE]
     /\ \/ Called(by, w)
        \/ /\ ~(sm.st = "SCANNING" /\ w.t = "TO")
           /\ sm' = SmAfter(by, w)
           /\ SoundingHeard(by, w) /\ TextHeard(by, w) /\ QualityHeard(by, w)
           /\ UNCHANGED credits
  /\ UNCHANGED frames

\* Two words in a row are not lost.  A garbled word is still delivered: it
\* ends the cycle of a session; a missed one is not noticed at all.
Lost ==
  /\ air.left # <<>> /\ ~air.hit /\ ~Waiting
  /\ air' = [air EXCEPT !.left = Tail(@), !.hit = TRUE]
  /\ IF Missed \/ sm.st # "SCANNING"
     THEN /\ since' = [k \in DOMAIN since |-> Later(since[k])]
          /\ UNCHANGED session
     ELSE SoundingHeard(air.by, Word("BAD", 0))
  /\ UNCHANGED <<sm, amd, pending, owner, exchange, quality, frames, texts, credits>>

-----------------------------------------------------------------------------
(* The state machine's reports *)

FrameOver == air.left = <<>> /\ ~Waiting

\* initiate_call: the measurement is queued for the target before the state
\* machine decides; CALLING is entered only from SCANNING.
Call(s) ==
  /\ FrameOver /\ frames < MaxFrames
  /\ IF sm.st = "SCANNING"
     THEN /\ sm' = [sm EXCEPT !.st = "CALLING", !.to = Nobody, !.with = s]
          /\ amd' = [amd EXCEPT !["resp"] = Quiet]
          /\ pending' = [pending EXCEPT !["resp"] = <<>>]
          /\ quality' = [quality EXCEPT !.resp = {}]
          /\ exchange' = [EncodeOutgoing(s, TRUE) EXCEPT !.held = Reset.held]
     ELSE exchange' = EncodeOutgoing(s, TRUE) /\ UNCHANGED <<sm, amd, pending, quality>>
  /\ UNCHANGED <<air, since, session, owner, frames, texts, credits>>

\* maybe_emit_call_alert: the call has been heard to its end.
Alert ==
  /\ FrameOver /\ sm.st = "HANDSHAKE" /\ sm.caller # Nobody
  /\ sm' = [sm EXCEPT !.st = "WAIT_ACK"]
  /\ exchange' = [EncodeOutgoing(sm.caller, FALSE) EXCEPT !.held = Nobody]
  /\ credits' = credits \union Credit(sm.caller, quality.call) \union Applied(exchange, sm.caller)
  /\ quality' = [quality EXCEPT !.call = {}]
  /\ UNCHANGED <<air, since, session, amd, pending, owner, frames, texts>>

\* LINK_ESTABLISHED and then the change of state.
Linked ==
  /\ FrameOver
  /\ sm.st = "WAIT_ACK" \/ (sm.st = "CALLING" /\ sm.to # Nobody)
  /\ credits' = credits \union Credit(sm.to, quality.resp) \union Applied(exchange, sm.to)
  /\ quality' = [call |-> {}, resp |-> {}]
  /\ exchange' = CallConcluded(Reset)
  /\ session' = NoSession
  /\ IF sm.st = "CALLING" THEN Closed("resp", ActivePeer) ELSE Closed("call", sm.caller)
  /\ sm' = [sm EXCEPT !.st = "LINKED"]
  /\ UNCHANGED <<air, since, frames>>

\* Back to scanning: a timeout, a TWAS, no answer on any channel (which is
\* reported) or the operator (who is not told).
GiveUp ==
  /\ sm.st \in {"HANDSHAKE", "WAIT_ACK", "CALLING"}
  /\ sm' = [sm EXCEPT !.st = "SCANNING", !.with = Nobody]
  /\ air' = [air EXCEPT !.left = <<>>]
  /\ IF sm.st = "CALLING" THEN Closed("resp", ActivePeer) ELSE Closed("call", sm.caller)
  /\ \E told \in IF sm.st = "CALLING" THEN BOOLEAN ELSE {FALSE} :
       /\ session' = IF told THEN NoSession ELSE session
       /\ exchange' = IF told THEN CallConcluded(exchange) ELSE exchange
       /\ credits' = IF told THEN credits \union Credit(sm.to, quality.resp) ELSE credits
       /\ quality' = IF sm.st # "CALLING" THEN [quality EXCEPT !.call = {}]
                     ELSE IF told THEN [quality EXCEPT !.resp = {}] ELSE quality
  /\ UNCHANGED <<since, frames>>

LinkEnds ==
  /\ FrameOver /\ sm.st = "LINKED"
  /\ sm' = [sm EXCEPT !.st = "SCANNING", !.with = Nobody]
  /\ UNCHANGED <<air, since, session, amd, pending, owner, exchange, quality, frames,
                 texts, credits>>

ReceptionInit ==
  /\ sm = [st |-> "SCANNING", to |-> Nobody, caller |-> Nobody, with |-> Nobody]
  /\ air = [by |-> Nobody, left |-> <<>>, hit |-> FALSE]
  /\ since = Heard /\ session = NoSession
  /\ amd = [v \in Windows |-> Quiet]
  /\ pending = [v \in {"call", "resp"} |-> <<>>]
  /\ owner = [o \in {"linked", "ack"} |-> Nobody]
  /\ exchange = [held |-> Nobody, sent |-> FALSE, target |-> Nobody]
  /\ quality = [call |-> {}, resp |-> {}]
  /\ frames = 0 /\ texts = <<>> /\ credits = {}

ReceptionNext ==
  \/ SettleSounding \/ SettleLinked \/ Send \/ Silence \/ Received \/ Lost
  \/ \E s \in Stations : Call(s)
  \/ Alert \/ Linked \/ GiveUp \/ LinkEnds

ReceptionSpec == ReceptionInit /\ [][ReceptionNext]_mvars

-----------------------------------------------------------------------------
(* Properties *)

\* The identity a sounding is filed under is the beginning of the address of
\* the station that sounded: an extension word is never filed at the place of
\* another one, nor of another station.
IdentityIsPrefix ==
  session # NoSession =>
    \A i \in 1..MaxExtSlots : session[1].votes[i] \subseteq {<<session[1].anchor, i>>}

\* A text reaches the operator at most once; one that came with a call or an
\* acknowledgement, under the address of the station that sent all of it.
TextsFromSender ==
  /\ \A i \in DOMAIN texts : texts[i].win \in {"call", "ack"} =>
       \A p \in DOMAIN texts[i].acc : texts[i].acc[p].by = texts[i].peer
  /\ \A i, j \in DOMAIN texts : i # j => texts[i].acc[1] # texts[j].acc[1]

\* What the database takes down for a station after a handshake was measured
\* on that station's words.
CreditedToSpeaker == \A c \in credits : c[1] = c[2]

\* A text in a response or on a link is the partner's too.  (It may not be:
\* to_address and caller_address survive the call they were set for.)
AllTextsFromSender ==
  \A i \in DOMAIN texts : \A p \in DOMAIN texts[i].acc : texts[i].acc[p].by = texts[i].peer

\* No answer on any channel counts against the station that was called.  (It
\* may count against the one called before.)
TargetIsCalled == sm.st = "CALLING" => exchange.target \in {sm.with, Nobody}
=============================================================================
