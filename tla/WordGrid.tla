------------------------------- MODULE WordGrid -------------------------------
(***************************************************************************)
(* Demodulator and WordGridTracker: finding the words in a stream of       *)
(* samples.  The window of the last word period is decoded at every step;  *)
(* a word decodes at each position within half a symbol of its end, so the *)
(* tracker has to choose one of them and to keep the next words apart from *)
(* it.                                                                     *)
(*                                                                         *)
(* The unit is a sixteenth of a symbol in the code and a quarter here; a   *)
(* word is WordLen units.  Words end at the multiples of WordLen.          *)
(***************************************************************************)
EXTENDS Integers, FiniteSets

CONSTANTS
  Symbol,   \* SAMPLES_PER_SYMBOL
  WordLen,  \* WORD_SAMPLES
  Words     \* words of the transmission heard

ASSUME GridAssumption ==
  Symbol \in Nat \ {0, 1} /\ WordLen \in Nat /\ WordLen > 3 * Symbol /\ Words \in Nat \ {0}

GridTimeout == 3 * WordLen

VARIABLES
  pos,       \* write_pos_
  lock,      \* [on, anchor]: grid_locked_, grid_anchor_
  uncorr,    \* uncorr_anchor_
  ref,       \* the Refinement: << >> or [first, best, energy, word]
  blind,     \* the position up to which the window has no word, after a hop
  delivered, \* how often each word of the transmission was delivered
  errors     \* words delivered as uncorrectable

gridvars == <<pos, lock, uncorr, ref, blind, delivered, errors>>

NoRef == <<>>
MinSpacing == WordLen - Symbol

\* The word that ends within half a symbol of a position, or 0.
WordAt(p) ==
  LET near == {k \in 1..Words : 2 * (p - k * WordLen) \in (-Symbol)..Symbol} IN
  IF near = {} THEN 0 ELSE CHOOSE k \in near : TRUE
Distance(p) == LET d == p - WordAt(p) * WordLen IN IF d < 0 THEN -d ELSE d

\* What try_decode_ may make of the window: a word decodes clean or corrected
\* near its end or not at all; elsewhere, while there is signal, noise at best.
Outcomes(p) ==
  (IF WordAt(p) # 0 /\ p >= blind THEN {"clean", "fixed"} ELSE {}) \union
  (IF p < (Words + 1) * WordLen /\ p >= blind THEN {"bad"} ELSE {}) \union {"none"}

Deliver(k) == delivered' = [delivered EXCEPT ![k] = @ + 1]

\* commit_refined_word_: the best position becomes the anchor of the grid.
Ripe(p) == ref # NoRef /\ p - ref[1].first >= Symbol
Committed(p) == IF Ripe(p) THEN [on |-> TRUE, anchor |-> ref[1].best] ELSE lock
\* The lock is lost three words after the last anchor.
Held(p) ==
  LET l == Committed(p) IN
  [l EXCEPT !.on = @ /\ ~((Ripe(p) \/ ref = NoRef) /\ p - l.anchor > GridTimeout)]

\* gate_word_: a first word must open an address; the next words keep their
\* distance, and one that needed correction must be on the grid.
GateOpen(l, c, opens, p) == IF ~l.on THEN opens ELSE TRUE
Gate(l, c, opens, p) ==
  IF ~l.on THEN opens
  ELSE LET phase == (p - l.anchor) % WordLen IN
       /\ p - l.anchor >= MinSpacing
       /\ c = "clean" \/ phase <= Symbol \/ phase >= MinSpacing

\* try_emit_decoded_: the candidate with the most energy so far.
Refined(r, p) ==
  LET c == [first |-> IF r = NoRef THEN p ELSE r[1].first,
            best |-> p, dist |-> Distance(p), word |-> WordAt(p)]
  IN  IF r = NoRef \/ c.dist < r[1].dist THEN <<c>> ELSE r

\* process_candidate at the next step.  opens: the word opens an address.
Candidate ==
  /\ pos < (Words + 2) * WordLen
  /\ pos' = pos + 1
  /\ LET p == pos + 1
         l == Held(p)
         r == IF Ripe(p) THEN NoRef ELSE ref IN
     \E c \in Outcomes(p), opens \in BOOLEAN :
       /\ lock' = l
       /\ ref' = IF c \in {"clean", "fixed"} /\ Gate(l, c, opens, p) THEN Refined(r, p) ELSE r
       /\ IF Ripe(p) THEN Deliver(ref[1].word) ELSE UNCHANGED delivered
       \* try_emit_uncorrectable_: exactly on the grid.
       /\ IF /\ c = "bad" /\ r = NoRef /\ l.on
             /\ p - l.anchor >= MinSpacing /\ (p - l.anchor) % WordLen = 0
             /\ p - uncorr >= MinSpacing
          THEN /\ uncorr' = p
               /\ errors' = errors \union (IF WordAt(p) = 0 THEN {} ELSE {WordAt(p)})
          ELSE UNCHANGED <<uncorr, errors>>
  /\ UNCHANGED blind

\* on_silence_gap: the transmission is over.
SilenceGap ==
  /\ pos >= (Words * WordLen) + (2 * Symbol)
  /\ lock.on \/ ref # NoRef
  /\ lock' = [(IF ref = NoRef THEN lock ELSE [on |-> TRUE, anchor |-> ref[1].best]) EXCEPT !.on = FALSE]
  /\ IF ref = NoRef THEN UNCHANGED delivered ELSE Deliver(ref[1].word)
  /\ ref' = NoRef
  /\ UNCHANGED <<pos, uncorr, blind, errors>>

\* mark_channel_hop, applied at the next samples: the window is empty.
Hop ==
  /\ lock' = [on |-> FALSE, anchor |-> 0] /\ uncorr' = 0 /\ ref' = NoRef
  /\ blind' = pos + WordLen /\ blind' # blind
  /\ UNCHANGED <<pos, delivered, errors>>

GridInit ==
  /\ pos = 0 /\ lock = [on |-> FALSE, anchor |-> 0] /\ uncorr = 0 /\ ref = NoRef
  /\ blind = 0 /\ delivered = [k \in 1..Words |-> 0] /\ errors = {}

GridNext == Candidate \/ SilenceGap \/ Hop

GridSpec == GridInit /\ [][GridNext]_gridvars

-----------------------------------------------------------------------------
(* Properties *)

\* However many positions it decodes at, a word on the air is delivered once.
WordOnce == \A k \in 1..Words : delivered[k] <= 1

\* A word that is delivered was not reported as uncorrectable before.  (It
\* may be: the two paths keep their own distances.)
WordOrError == \A k \in errors : delivered[k] = 0
=============================================================================
