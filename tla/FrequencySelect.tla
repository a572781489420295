--------------------------- MODULE FrequencySelect ---------------------------
(***************************************************************************)
(* Leaving a link for a better channel: FreqSelectManager (CMD 'f') and    *)
(* the controller's evaluate_relink, with the measurement of the words on  *)
(* the link whose age both look at.  The peer may be a station of any      *)
(* make: it proposes, answers or ignores what it is sent.                  *)
(*                                                                         *)
(* Time passes in units of Tdrw.  Frequencies are in units of 100 Hz; on   *)
(* the air they are rounded down to 1 kHz.                                 *)
(***************************************************************************)
EXTENDS Integers, FiniteSets

CONSTANTS
  Channels,  \* frequencies the station knows scores of
  Score,     \* their scores: [Channels -> Nat]
  Threshold, \* relink_improvement_threshold
  Enhanced,  \* enhanced_freq_select, else relink_enabled
  MaxWords   \* orderwires of the peer

Settle == 1      \* a frame is over after Tdrw of silence
Hysteresis == 4  \* words must be this old before a channel is compared
Timeout == 4     \* 3 s
Cooldown == 76   \* 60 s
Unset == -1      \* rx_ber_settle_ms_ = 0

VARIABLES
  linked,  \* [on, channel]: the link and its channel
  efs,     \* [phase, hz, timer, cool]: FreqSelectManager
  age,     \* time since the last word heard on the link, or Unset
  await,   \* pending_cmd_rx_
  relink,  \* pending_relink_addr_ is set
  sent,    \* the last orderwire sent: a frequency, 0 for a refusal, or Unset
  words    \* orderwires heard

svars == <<linked, efs, age, await, relink, sent, words>>

Coded(hz) == hz - (hz % 10)  \* encode_freq_data_word

ScoreOf(hz) == IF hz \in Channels THEN Score[hz] ELSE 0
Best == CHOOSE c \in Channels : \A d \in Channels : Score[d] <= Score[c]
Better(hz) == ScoreOf(hz) > ScoreOf(linked.channel) + Threshold

\* terminate_link(): the link is over for this station.
Leave == linked' = [linked EXCEPT !.on = FALSE] /\ relink' = TRUE

\* FreqSelectManager::handle_response.
HandleResponse(hz) ==
  /\ IF hz # 0 /\ hz = efs.hz
     THEN efs' = [efs EXCEPT !.phase = "EXECUTING"] /\ Leave
     ELSE /\ efs' = IF hz = 0 THEN [efs EXCEPT !.phase = "IDLE", !.cool = Cooldown] ELSE efs
          /\ UNCHANGED <<linked, relink>>
  /\ UNCHANGED sent

\* FreqSelectManager::handle_proposal: the answer is the frequency itself or 0.
HandleProposal(hz) ==
  /\ sent' = IF hz = 0 THEN sent ELSE IF Better(hz) THEN Coded(hz) ELSE 0
  /\ UNCHANGED <<linked, efs, relink>>

\* on_word: CMD 'f', then the word after it.
HearCommand ==
  /\ linked.on /\ words < MaxWords /\ ~await
  /\ await' = TRUE /\ age' = 0 /\ words' = words + 1
  /\ UNCHANGED <<linked, efs, relink, sent>>
HearData ==
  /\ linked.on /\ await /\ await' = FALSE /\ age' = 0
  /\ \E hz \in {Coded(c) : c \in Channels} \union {0} :
       IF efs.phase = "PROPOSED" THEN HandleResponse(hz) ELSE HandleProposal(hz)
  /\ UNCHANGED words
HearOther ==
  /\ linked.on /\ await /\ await' = FALSE /\ age' = 0
  /\ UNCHANGED <<linked, efs, relink, sent, words>>

\* tick_frame_settle: the measurement is committed and its age forgotten.
Settled(a) == IF a >= Settle THEN Unset ELSE a

\* FreqSelectManager::evaluate, evaluate_relink.
Ripe(a) == a # Unset /\ a >= Hysteresis /\ Best # linked.channel /\ Better(Best)

Down(n) == IF n > 0 THEN n - 1 ELSE 0

\* One update(): tick_frame_settle and then tick_relink; the main loop may have
\* been busy elsewhere for up to late units.
Update ==
  /\ \E late \in 1..Hysteresis + 1 :
     LET a == Settled(IF age = Unset THEN Unset ELSE age + late)
         may == linked.on /\ ~relink /\ efs.phase = "IDLE" /\ Ripe(a)
     IN  /\ age' = a
         /\ IF may /\ Enhanced /\ efs.cool = 0
            THEN /\ efs' = [phase |-> "PROPOSED", hz |-> Best, timer |-> Timeout, cool |-> 0]
                 /\ sent' = Coded(Best) /\ UNCHANGED <<linked, relink>>
            ELSE /\ efs' = [efs EXCEPT !.timer = Down(@), !.cool = Down(@),
                                       !.phase = IF @ = "PROPOSED" /\ efs.timer = 0
                                                 THEN "IDLE" ELSE @]
                 /\ UNCHANGED sent
                 /\ IF may /\ ~Enhanced THEN Leave ELSE UNCHANGED <<linked, relink>>
  /\ UNCHANGED <<await, words>>

\* The pending call goes out, on the best channel, once the link is over.
CallAgain ==
  /\ ~linked.on /\ relink /\ relink' = FALSE
  /\ linked' = [on |-> TRUE, channel |-> Best]
  /\ UNCHANGED <<efs, age, await, sent, words>>

SelectInit ==
  /\ linked \in [on : {TRUE}, channel : Channels]
  /\ efs = [phase |-> "IDLE", hz |-> 0, timer |-> 0, cool |-> 0]
  /\ age = Unset /\ await = FALSE /\ relink = FALSE /\ sent = Unset /\ words = 0

SelectNext == HearCommand \/ HearData \/ HearOther \/ Update \/ CallAgain

\* update() runs on every pass of the main loop.
SelectSpec ==
  SelectInit /\ [][SelectNext]_svars /\ WF_svars(Update) /\ WF_svars(CallAgain)

\* A link on which words have been heard, while a clearly better channel is
\* known, is sooner or later left for it, or its peer is asked to.
BetterChannelTaken ==
  (linked.on /\ age # Unset /\ Better(Best)) ~> (efs.phase # "IDLE" \/ relink)
=============================================================================
