------------------------------ MODULE AleTxPath ------------------------------
(***************************************************************************)
(* The transmit path between the link state machine and the radio, as the  *)
(* controller wires it (ALEController::wire_callbacks): word counting,     *)
(* PTT with its lead and its tail, and the modulator's queue.              *)
(*                                                                         *)
(* The path is one record, and what the code does to it is a function from *)
(* record to record, so that the state machine can compose several calls   *)
(* in the order its handlers make them.                                    *)
(*                                                                         *)
(*   pending  words_pending of the state machine                           *)
(*   drain    tx_drain_start_ms_ # 0: the drain deadline is armed          *)
(*   rx       what the state machine last asked for, sm_rx_enabled_        *)
(*   manual   manual_ptt_: the operator holds the PTT                      *)
(*   ptt      the radio is keyed                                           *)
(*   lead     ptt_lead_deadline_ms_ > 0                                    *)
(*   tail     ptt_tail_deadline_ms_ > 0                                    *)
(*   demod    the demodulator is enabled                                   *)
(*   buf      words held back in pending_tx_words_                         *)
(*   air      words in the modulator, not rendered yet                     *)
(*   abort    abort_tx_pending_                                            *)
(***************************************************************************)
EXTENDS Integers

CONSTANTS
  HasLead,   \* config ptt_lead_ms > 0
  HasTail,   \* config ptt_tail_ms + output latency > 0
  RxOnly     \* the station's channel is receive-only (Direction=RX)

ASSUME TxPathAssumption ==
  /\ HasLead \in BOOLEAN
  /\ HasTail \in BOOLEAN
  /\ RxOnly \in BOOLEAN

TxPaths ==
  [pending : Nat, drain : BOOLEAN, rx : BOOLEAN, manual : BOOLEAN,
   ptt : BOOLEAN, lead : BOOLEAN, tail : BOOLEAN, demod : BOOLEAN,
   buf : Nat, air : Nat, abort : BOOLEAN]

\* start_available() has enabled the demodulator; nothing was ever keyed.
TxInit ==
  [pending |-> 0, drain |-> FALSE, rx |-> TRUE, manual |-> FALSE,
   ptt |-> FALSE, lead |-> FALSE, tail |-> FALSE, demod |-> TRUE,
   buf |-> 0, air |-> 0, abort |-> FALSE]

\* set_ptt_and_notify(false) and the demodulator back on.
Release(t) == [t EXCEPT !.ptt = FALSE, !.demod = TRUE, !.tail = FALSE]

\* A variant for mutation: the demodulator does not wait for the tail.
RxOnTooEarly(t) ==
  LET ended == [t EXCEPT !.rx = TRUE, !.lead = FALSE, !.buf = 0]
  IN  IF t.rx \/ t.manual THEN [t EXCEPT !.rx = TRUE]
      ELSE IF HasTail THEN [ended EXCEPT !.tail = TRUE, !.demod = TRUE]
      ELSE Release(ended)

\* The rx_enabled callback with true: the redundant call is dropped, the held
\* PTT stays with the operator, and otherwise the release waits for the tail.
RxOn(t) ==
  LET asked == [t EXCEPT !.rx = TRUE]
      ended == [asked EXCEPT !.lead = FALSE, !.buf = 0]
  IN  IF t.rx THEN t
      ELSE IF t.manual THEN asked
      ELSE IF HasTail THEN [ended EXCEPT !.tail = TRUE]
      ELSE Release(ended)

\* Variants for mutation: the tail is not cancelled; the channel is not asked.
RxOffKeepsTail(t) ==
  LET asked == [t EXCEPT !.rx = FALSE]
  IN  IF ~t.rx THEN t
      ELSE IF t.manual THEN [asked EXCEPT !.demod = FALSE]
      ELSE IF RxOnly THEN [asked EXCEPT !.abort = TRUE]
      ELSE [asked EXCEPT !.demod = FALSE, !.ptt = TRUE, !.lead = HasLead]

\* A variant for mutation: a receive-only channel is keyed as well.
RxOffAnyChannel(t) ==
  LET asked == [t EXCEPT !.rx = FALSE]
  IN  IF ~t.rx THEN t
      ELSE IF t.manual THEN [asked EXCEPT !.demod = FALSE]
      ELSE [asked EXCEPT !.tail = FALSE, !.demod = FALSE,
                         !.ptt = TRUE, !.lead = HasLead]

\* The rx_enabled callback with false: key the radio, or refuse on a
\* receive-only channel and leave a note for the next tick.
RxOff(t) ==
  LET asked == [t EXCEPT !.rx = FALSE]
  IN  IF ~t.rx THEN t
      ELSE IF t.manual THEN [asked EXCEPT !.demod = FALSE]
      ELSE IF RxOnly THEN [asked EXCEPT !.abort = TRUE]
      ELSE [asked EXCEPT !.tail = FALSE, !.demod = FALSE,
                         !.ptt = TRUE, !.lead = HasLead]

\* A variant for mutation: words that are held back are not counted.
TransmitUncounted(n, t) ==
  IF t.lead THEN [t EXCEPT !.buf = @ + n]
            ELSE [t EXCEPT !.pending = @ + n, !.air = @ + n]

\* transmit_words() of n words through the transmit callback: while the lead
\* runs they are held back, otherwise they enter the modulator.
Transmit(n, t) ==
  IF t.lead THEN [t EXCEPT !.pending = @ + n, !.buf = @ + n]
            ELSE [t EXCEPT !.pending = @ + n, !.air = @ + n]

\* The drain deadline is armed only when there is something to drain.
ArmDrain(t)    == [t EXCEPT !.drain = (t.pending > 0) \/ @]
DisarmDrain(t) == [t EXCEPT !.drain = FALSE]

\* A variant for mutation: it takes one word more than was sent to reach zero.
CompletedLate(t) == [t EXCEPT !.pending = IF @ > 1 THEN @ - 1 ELSE @]

\* One word less to wait for; the counter never goes below zero.
Completed(t) == [t EXCEPT !.pending = IF @ > 0 THEN @ - 1 ELSE 0]

\* tick_ptt_timing(), lead elapsed: the held words go to the modulator.
FlushLead(t) ==
  [t EXCEPT !.lead = FALSE, !.air = @ + t.buf, !.buf = 0]

\* set_manual_ptt(true) before it reaches the state machine.
ManualOn(t) ==
  [t EXCEPT !.manual = TRUE, !.tail = FALSE, !.lead = FALSE, !.buf = 0,
            !.demod = FALSE, !.ptt = TRUE]

\* A variant for mutation: the release is left to a state machine that receives.
ManualOffKeepsPtt(t) == [t EXCEPT !.manual = FALSE]

\* set_manual_ptt(false): release only if the state machine wants to receive.
ManualOff(t) ==
  IF t.rx THEN [t EXCEPT !.manual = FALSE, !.ptt = FALSE, !.demod = TRUE]
          ELSE [t EXCEPT !.manual = FALSE]

\* emergency_stop() after the state machine was stopped. Of the words in the
\* modulator at most the one being rendered survives the flush.
Flushed(kept, t) ==
  [t EXCEPT !.buf = 0, !.air = kept, !.lead = FALSE, !.tail = FALSE,
            !.manual = FALSE, !.ptt = FALSE, !.demod = TRUE]
==============================================================================
