---------------------------- MODULE SignalProofs ----------------------------
(***************************************************************************)
(* What is heard, and what the controller makes of it.                     *)
(*                                                                         *)
(* A word on the air is delivered once, for every length of a symbol and   *)
(* of a word, however many positions it decodes at, and whatever hops and  *)
(* silence gaps come between.  What the invariant says is that a word is   *)
(* delivered when the positions at which it decodes are all over: the time *)
(* a candidate is kept is as long as that stretch of positions.  The       *)
(* occupancy detector follows.                                             *)
(*                                                                         *)
(* Then, for every set of stations, every length of an address and every   *)
(* number of frames: the identity a sounding is filed under, the credits   *)
(* in the database, and the texts given to the operator.  The identity     *)
(* rests on what is still to come on the air: the next extension word      *)
(* belongs to the slot the session has open (NextFits).  The credits and   *)
(* the senders rest on the partner: between the call and the end of the    *)
(* link nobody else is heard (Partnered), so what is collected for it, and *)
(* left over when it is gone, is its own.  That no text is given twice is  *)
(* shown by where each text is (At): a step moves what a place holds to    *)
(* one place at most (PlacesMove).                                         *)
(*                                                                         *)
(* Last, the copies of a bit of the word code: a short fade meets one of   *)
(* the three at most, and the other two are the majority.                  *)
(***************************************************************************)
EXTENDS WordGrid, ChannelOccupancy, Reception, WordCodec, FiniteSetTheorems, SequenceTheorems, TLAPS

\* Word k decodes at position p.
Near(p, k) == 2 * (p - k * WordLen) \in (-Symbol)..Symbol

GridTypeOK ==
  /\ pos \in Nat
  /\ delivered \in [1..Words -> Nat]

\* The candidate kept is of one word, which was not delivered.
CandidateFresh ==
  \/ ref = NoRef
  \/ /\ ref = <<ref[1]>>
     /\ ref[1].word \in 1..Words /\ ref[1].first \in Nat /\ ref[1].best \in Nat
     /\ ref[1].first <= ref[1].best /\ ref[1].best <= pos
     /\ pos - ref[1].first < Symbol
     /\ Near(ref[1].first, ref[1].word)
     /\ delivered[ref[1].word] = 0

\* A word is delivered when it decodes nowhere any more.
DeliveredIsPast ==
  \A k \in 1..Words : delivered[k] # 0 => 2 * (pos - k * WordLen) >= Symbol

GridInv == GridTypeOK /\ CandidateFresh /\ DeliveredIsPast /\ WordOnce

-----------------------------------------------------------------------------
\* Two words end a word's length apart at least.
LEMMA WordsApart ==
  ASSUME NEW j \in Nat, NEW k \in Nat, j < k
  PROVE  /\ j * WordLen \in Nat /\ k * WordLen \in Nat
         /\ j * WordLen + WordLen <= k * WordLen
<1>1. WordLen \in Nat
  BY GridAssumption
<1>2. k - j - 1 \in Nat /\ (k - j - 1) * WordLen \in Nat
  BY <1>1
<1>3. (k - j - 1) * WordLen = k * WordLen - j * WordLen - WordLen
  BY <1>1
<1>4. j * WordLen \in Nat /\ k * WordLen \in Nat
  BY <1>1
<1>5. QED BY <1>1, <1>2, <1>3, <1>4

\* Positions less than a symbol apart are not near two different words.
LEMMA NearIsUnique ==
  ASSUME NEW p \in Nat, NEW q \in Nat, NEW j \in 1..Words, NEW k \in 1..Words,
         Near(p, j), Near(q, k), q - p \in 0..Symbol
  PROVE  j = k
<1>0. /\ Symbol \in Nat /\ WordLen \in Nat /\ WordLen > 3 * Symbol /\ Symbol > 0
      /\ j \in Nat /\ k \in Nat
  BY GridAssumption
<1> DEFINE J == j * WordLen
           K == k * WordLen
<1>1. J \in Nat /\ K \in Nat
  BY <1>0
<1>2. 2 * (p - J) >= -Symbol /\ 2 * (p - J) <= Symbol /\ 2 * (q - K) >= -Symbol /\ 2 * (q - K) <= Symbol
  BY <1>0, <1>1 DEF Near
<1>3. (j < k => J + WordLen <= K) /\ (k < j => K + WordLen <= J)
  BY <1>0, WordsApart
<1> HIDE DEF J, K
<1>4. ~(J + WordLen <= K) /\ ~(K + WordLen <= J)
  BY <1>0, <1>1, <1>2
<1>5. QED BY <1>0, <1>3, <1>4

\* No word begins behind the last one.
LEMMA WordBeforeEnd ==
  ASSUME NEW k \in 1..Words
  PROVE  k * WordLen \in Nat /\ Words * WordLen \in Nat /\ k * WordLen <= Words * WordLen
<1> DEFINE K == k * WordLen
           End == Words * WordLen
<1>1. WordLen \in Nat /\ Words \in Nat /\ k \in Nat /\ k <= Words
  BY GridAssumption
<1>2. CASE k = Words
  <2>1. End \in Nat
    BY <1>1
  <2> HIDE DEF End
  <2>2. K = End
    BY <1>2 DEF End
  <2>3. QED BY <2>1, <2>2 DEF K, End
<1>3. CASE k < Words
  <2>1. K \in Nat /\ End \in Nat /\ K + WordLen <= End
    BY <1>1, <1>3, WordsApart
  <2> HIDE DEF K, End
  <2>2. K <= End
    BY <1>1, <2>1
  <2>3. QED BY <2>1, <2>2 DEF K, End
<1>4. QED BY <1>1, <1>2, <1>3

\* The word found at a position.
LEMMA WordAtIs ==
  ASSUME NEW p, WordAt(p) # 0
  PROVE  WordAt(p) \in 1..Words /\ Near(p, WordAt(p))
BY DEF WordAt, Near

\* Nothing was heard at the start.
LEMMA GridInvInit == GridInit => GridInv
BY DEF GridInit, GridInv, GridTypeOK, CandidateFresh, DeliveredIsPast, WordOnce

\* A candidate that is ripe is delivered; one that is not stays the same word's.
LEMMA CandidateKeeps == GridInv /\ Candidate => GridInv'
<1> SUFFICES ASSUME GridInv, Candidate PROVE GridInv'
  OBVIOUS
<1> DEFINE p == pos + 1
           l == Held(p)
           r == IF Ripe(p) THEN NoRef ELSE ref
<1>0. /\ Symbol \in Nat /\ WordLen \in Nat /\ WordLen > 3 * Symbol /\ Symbol > 1
      /\ pos \in Nat /\ p \in Nat /\ pos' = p /\ p = pos + 1
      /\ delivered \in [1..Words -> Nat]
  BY GridAssumption DEF GridInv, GridTypeOK, Candidate
<1>ends. \A k \in 1..Words : k * WordLen \in Nat
  BY GridAssumption
<1>1. PICK c \in Outcomes(p), opens \in BOOLEAN :
        /\ ref' = IF c \in {"clean", "fixed"} /\ Gate(l, c, opens, p) THEN Refined(r, p) ELSE r
        /\ IF Ripe(p) THEN Deliver(ref[1].word) ELSE UNCHANGED delivered
  BY DEF Candidate
<1> HIDE DEF p, l, r
<1>2. c \in {"clean", "fixed"} => WordAt(p) \in 1..Words /\ Near(p, WordAt(p))
  BY WordAtIs DEF Outcomes
<1>3. ref # NoRef => /\ ref[1].word \in 1..Words /\ ref[1].first \in Nat /\ ref[1].best \in Nat
                     /\ ref[1].first <= ref[1].best /\ ref[1].best <= pos
                     /\ pos - ref[1].first < Symbol
                     /\ Near(ref[1].first, ref[1].word)
                     /\ delivered[ref[1].word] = 0
                     /\ ref = <<ref[1]>>
  BY DEF GridInv, CandidateFresh
<1>4. CASE Ripe(p)
  <2>1. ref # NoRef /\ p - ref[1].first = Symbol /\ r = NoRef
    BY <1>0, <1>3, <1>4 DEF Ripe, r
  <2>2. ~Gate(l, c, opens, p)
    <3>1. p - ref[1].best <= Symbol
      BY <1>0, <1>3, <2>1
    <3>2. Committed(p) = [on |-> TRUE, anchor |-> ref[1].best]
      BY <1>4 DEF Committed
    <3>3. ~(p - ref[1].best > GridTimeout)
      BY <1>0, <1>3, <2>1, <3>1 DEF GridTimeout
    <3>4. l.on /\ l.anchor = ref[1].best
      <4>1. l = [Committed(p) EXCEPT !.on = Committed(p).on /\
                   ~((Ripe(p) \/ ref = NoRef) /\ p - Committed(p).anchor > GridTimeout)]
        BY DEF l, Held
      <4>2. l.on = (TRUE /\ ~((Ripe(p) \/ ref = NoRef) /\ p - ref[1].best > GridTimeout))
        BY <3>2, <4>1
      <4>3. l.on
        BY <3>3, <4>2, Zenon
      <4>4. l.anchor = ref[1].best
        BY <3>2, <4>1
      <4>5. QED BY <4>3, <4>4
    <3>5. ~(p - l.anchor >= MinSpacing)
      BY <1>0, <1>3, <2>1, <3>1, <3>4 DEF MinSpacing
    <3>6. QED BY <3>4, <3>5 DEF Gate
  <2>3. ref' = NoRef
    BY <1>1, <2>1, <2>2
  <2>4. delivered' = [delivered EXCEPT ![ref[1].word] = 1]
    BY <1>0, <1>1, <1>3, <1>4, <2>1 DEF Deliver
  <2>5. 2 * (p - ref[1].word * WordLen) >= Symbol
    <3> DEFINE K == ref[1].word * WordLen
               f == ref[1].first
    <3>1. K \in Nat /\ f \in Nat /\ 2 * (f - K) >= -Symbol /\ p - f = Symbol
      BY <1>0, <1>ends, <1>3, <2>1 DEF Near
    <3> HIDE DEF K, f
    <3>2. 2 * (p - K) >= Symbol
      BY <1>0, <3>1
    <3>3. QED BY <3>2 DEF K
  <2>6. DeliveredIsPast' /\ WordOnce'
    <3> SUFFICES ASSUME NEW k \in 1..Words
                 PROVE  /\ delivered'[k] # 0 => 2 * (p - k * WordLen) >= Symbol
                        /\ delivered'[k] <= 1
      BY <1>0 DEF DeliveredIsPast, WordOnce
    <3>1. CASE k = ref[1].word
      BY <1>0, <2>4, <2>5, <3>1
    <3>2. CASE k # ref[1].word
      BY <1>0, <2>4, <3>2 DEF GridInv, DeliveredIsPast, WordOnce
    <3>3. QED BY <3>1, <3>2
  <2>7. GridTypeOK'
    BY <1>0, <2>4 DEF GridTypeOK
  <2>8. QED BY <2>3, <2>6, <2>7 DEF GridInv, CandidateFresh
<1>5. CASE ~Ripe(p)
  <2>1. r = ref /\ delivered' = delivered
    BY <1>1, <1>5 DEF r
  <2>2. GridTypeOK' /\ WordOnce' /\ DeliveredIsPast'
    BY <1>0, <2>1 DEF GridInv, GridTypeOK, WordOnce, DeliveredIsPast
  <2>3. ref # NoRef => p - ref[1].first < Symbol
    BY <1>0, <1>3, <1>5 DEF Ripe
  <2>4. CASE ref' = ref
    BY <1>0, <1>3, <2>1, <2>2, <2>3, <2>4 DEF GridInv, CandidateFresh
  <2>5. CASE ref' = Refined(ref, p) /\ c \in {"clean", "fixed"}
    <3>1. CASE ref = NoRef
      <4> DEFINE w == WordAt(p)
      <4>1. ref' = <<[first |-> p, best |-> p, dist |-> Distance(p), word |-> w]>>
        BY <2>5, <3>1 DEF Refined
      <4>2. w \in 1..Words /\ Near(p, w)
        BY <1>2, <2>5
      <4> HIDE DEF w
      <4>3. delivered[w] = 0
        <5> DEFINE K == w * WordLen
        <5>1. K \in Nat /\ 2 * (p - K) <= Symbol
          BY <1>0, <1>ends, <4>2 DEF Near
        <5>2. delivered[w] # 0 => 2 * (pos - K) >= Symbol
          BY <4>2 DEF GridInv, DeliveredIsPast
        <5> HIDE DEF K
        <5>3. QED BY <1>0, <4>2, <5>1, <5>2
      <4>4. CandidateFresh'
        BY <1>0, <2>1, <4>1, <4>2, <4>3 DEF CandidateFresh
      <4>5. QED BY <2>2, <4>4 DEF GridInv
    <3>2. CASE ref # NoRef
      <4> DEFINE w == WordAt(p)
                 d == Distance(p)
      <4>1. ref' \in {ref, <<[first |-> ref[1].first, best |-> p, dist |-> d, word |-> w]>>}
        BY <2>5, <3>2 DEF Refined
      <4>2. w \in 1..Words /\ Near(p, w)
        BY <1>2, <2>5
      <4> HIDE DEF w, d
      <4>3. w = ref[1].word
        <5>1. p - ref[1].first \in 0..Symbol
          BY <1>0, <1>3, <2>3, <3>2
        <5>2. QED BY <1>0, <1>3, <3>2, <4>2, <5>1, NearIsUnique
      <4>4. CASE ref' = <<[first |-> ref[1].first, best |-> p, dist |-> d, word |-> w]>>
        <5>1. /\ ref'[1].word = ref[1].word /\ ref'[1].first = ref[1].first /\ ref'[1].best = p
              /\ ref' = <<ref'[1]>>
          BY <4>3, <4>4
        <5>2. ref[1].first <= p /\ ref[1].best \in Nat
          BY <1>0, <1>3, <3>2
        <5>3. Near(ref[1].first, ref[1].word)'
          BY <1>3, <3>2, <5>1 DEF Near
        <5>4. CandidateFresh'
          BY <1>0, <1>3, <2>1, <2>3, <3>2, <5>1, <5>2, <5>3 DEF CandidateFresh
        <5>5. QED BY <2>2, <5>4 DEF GridInv
      <4>5. QED BY <2>4, <4>1, <4>4
    <3>3. QED BY <3>1, <3>2
  <2>6. QED BY <1>1, <2>1, <2>4, <2>5
<1>6. QED BY <1>4, <1>5

\* When the air is silent no candidate is left; a hop drops the one that is.
LEMMA GapAndHopKeep == GridInv /\ (SilenceGap \/ Hop \/ UNCHANGED gridvars) => GridInv'
<1> SUFFICES ASSUME GridInv, SilenceGap \/ Hop \/ UNCHANGED gridvars PROVE GridInv'
  OBVIOUS
<1>1. CASE SilenceGap
  <2>1. ref = NoRef
    <3> SUFFICES ASSUME ref # NoRef PROVE FALSE
      OBVIOUS
    <3> DEFINE k == ref[1].word
               f == ref[1].first
               K == k * WordLen
               End == Words * WordLen
    <3>1. /\ Symbol \in Nat /\ Symbol > 1 /\ WordLen \in Nat /\ Words \in Nat /\ pos \in Nat
          /\ k \in 1..Words /\ f \in Nat /\ pos - f < Symbol /\ Near(f, k)
      BY GridAssumption DEF GridInv, GridTypeOK, CandidateFresh
    <3>2. K \in Nat /\ End \in Nat /\ K <= End
      BY <3>1, WordBeforeEnd
    <3>3. 2 * (f - K) <= Symbol
      BY <3>1, <3>2 DEF Near
    <3>4. pos >= End + 2 * Symbol
      BY <1>1 DEF SilenceGap
    <3> HIDE DEF k, f, K, End
    <3>5. QED BY <3>1, <3>2, <3>3, <3>4
  <2>2. ref' = NoRef /\ UNCHANGED <<pos, delivered>>
    BY <1>1, <2>1 DEF SilenceGap
  <2>3. QED BY <2>2 DEF GridInv, GridTypeOK, CandidateFresh, DeliveredIsPast, WordOnce
<1>2. CASE Hop
  <2>1. ref' = NoRef /\ UNCHANGED <<pos, delivered>>
    BY <1>2 DEF Hop
  <2>2. QED BY <2>1 DEF GridInv, GridTypeOK, CandidateFresh, DeliveredIsPast, WordOnce
<1>3. CASE UNCHANGED gridvars
  BY <1>3 DEF gridvars, GridInv, GridTypeOK, CandidateFresh, DeliveredIsPast, WordOnce
<1>4. QED BY <1>1, <1>2, <1>3

\* WordGridTracker hands no word to the FEC output twice, with any number of
\* words, and a hop or a silence at any position.
THEOREM WordsAreDeliveredOnce == GridSpec => []WordOnce
<1>1. GridInv /\ [GridNext]_gridvars => GridInv'
  BY CandidateKeeps, GapAndHopKeep DEF GridNext
<1>2. GridInv => WordOnce
  BY DEF GridInv
<1>3. QED BY <1>1, <1>2, GridInvInit, PTL DEF GridSpec
-----------------------------------------------------------------------------
(***************************************************************************)
(* The occupancy detector errs on neither side: once the floor was learned *)
(* on an empty channel, the empty channel is clear, though the receiver is *)
(* muted after every transmission, and a signal is noticed within three    *)
(* blocks.  The invariant keeps the floor between the level of the empty   *)
(* channel and what it can have drifted since.                             *)
(***************************************************************************)

\* A signal that stands out: the drift of all blocks does not reach it.
Loud == Signal > Ambient + Margin + 2 * MaxBlocks * Drift

OccupancyTypeOK ==
  /\ active \in BOOLEAN /\ busy \in BOOLEAN /\ learned \in BOOLEAN
  /\ floor \in [db : Int, valid : BOOLEAN, before : Int, relearn : 0..RelearnBlocks]
  /\ votes \in Seq(BOOLEAN) /\ Len(votes) = 4
  /\ blocks \in 0..MaxBlocks /\ tail \in 0..RelearnBlocks
  /\ run \in [level : {Mute, Ambient, Signal}, n : 0..LbtBlocks, found : BOOLEAN,
              unsettled : BOOLEAN]

Highest == Ambient + MaxBlocks + blocks

\* The floor of a channel that was learned, and the one kept for the time after
\* a transmission.
FloorBetween ==
  learned =>
    /\ Ambient <= floor.db /\ floor.db <= Highest /\ floor.before <= Highest
    /\ ~floor.valid => floor.before = floor.db
    /\ run.level = Mute /\ Mute < Ambient => Ambient <= floor.before

\* The receiver is muted only as long as the floor is being learned again.
MutedWhileLearning ==
  /\ ~floor.valid => votes = None4
  /\ ~active => ~floor.valid
  /\ active /\ ~floor.valid => tail \in {0, RelearnBlocks}
  /\ floor.valid /\ tail < RelearnBlocks => floor.relearn = RelearnBlocks + 1 - tail

\* The blocks at one level have voted for what they are.
VotesFollow ==
  /\ busy => TwoOf(votes)
  /\ learned /\ run.level # Signal => \A i \in 1..4 : i > 4 - run.n => ~votes[i]
  /\ learned /\ run.level = Signal =>
       (active /\ run.n >= 1 => votes[4]) /\ (run.n >= 2 => run.found)

OccupancyInv == OccupancyTypeOK /\ FloorBetween /\ MutedWhileLearning /\ VotesFollow

\* What the constants are.
LEMMA Levels ==
  Loud => /\ Mute \in Nat /\ Ambient \in Nat /\ Signal \in Nat /\ Margin \in Nat /\ MaxBlocks \in Nat
          /\ Mute <= Ambient /\ Signal > Ambient + Margin + 2 * MaxBlocks
BY OccupancyAssumption DEF Loud, Drift

\* The floor moves towards a lower level and does not fall below it.
LEMMA TowardIsBetween ==
  ASSUME NEW f \in Int, NEW level \in Int, level <= f
  PROVE  /\ Toward(f, level, 50) \in level..f
         /\ Toward(f, level, 30) \in level..f
BY DEF Toward

\* Votes move up by one.
LEMMA VotesShift ==
  ASSUME NEW v \in Seq(BOOLEAN), Len(v) = 4, NEW hot \in BOOLEAN
  PROVE  LET s == Tail(v) \o <<hot>> IN
         /\ s \in Seq(BOOLEAN) /\ Len(s) = 4
         /\ s[1] = v[2] /\ s[2] = v[3] /\ s[3] = v[4] /\ s[4] = hot
<1> DEFINE t == Tail(v)
           u == <<hot>>
           s == t \o u
<1>1. t \in Seq(BOOLEAN) /\ Len(t) = 3 /\ \A i \in 1..3 : t[i] = v[i + 1]
  BY HeadTailProperties
<1>2. u \in Seq(BOOLEAN) /\ Len(u) = 1 /\ u[1] = hot
  OBVIOUS
<1> HIDE DEF t, u
<1>3. s \in Seq(BOOLEAN) /\ Len(s) = 4 /\ \A i \in 1..4 : s[i] = IF i <= 3 THEN t[i] ELSE u[i - 3]
  <2>1. /\ s \in Seq(BOOLEAN) /\ Len(s) = Len(t) + Len(u)
        /\ \A i \in 1..(Len(t) + Len(u)) : s[i] = IF i <= Len(t) THEN t[i] ELSE u[i - Len(t)]
    BY <1>1, <1>2, ConcatProperties
  <2>2. QED BY <1>1, <1>2, <2>1
<1> HIDE DEF s
<1>4. s[1] = v[2] /\ s[2] = v[3] /\ s[3] = v[4] /\ s[4] = hot
  BY <1>1, <1>2, <1>3
<1>5. QED BY <1>3, <1>4 DEF s, t, u

\* Four cold blocks are no signal.
LEMMA ColdIsClear ==
  ASSUME NEW v, ~v[1], ~v[2], ~v[3], ~v[4]
  PROVE  ~TwoOf(v)
<1>1. {i \in 1..4 : v[i]} = {}
  OBVIOUS
<1>2. QED BY <1>1, FS_EmptySet DEF TwoOf

\* Two hot blocks in a row are one.
LEMMA TwoAreEnough ==
  ASSUME NEW v, v[3], v[4]
  PROVE  TwoOf(v)
<1> DEFINE S == {i \in 1..4 : v[i]}
           T == {3}
<1>1. IsFiniteSet(S)
  <2>1. 1 \in Int /\ 4 \in Int
    OBVIOUS
  <2>2. IsFiniteSet(1..4)
    BY <2>1, FS_Interval
  <2>3. QED BY <2>2, FS_Subset
<1>2. IsFiniteSet(T) /\ Cardinality(T) = 1 /\ 4 \notin T
  BY FS_Singleton
<1>3. T \cup {4} \subseteq S
  OBVIOUS
<1> HIDE DEF S, T
<1>4. Cardinality(T \cup {4}) = 2
  BY <1>2, FS_AddElement
<1>5. Cardinality(T \cup {4}) <= Cardinality(S) /\ Cardinality(S) \in Nat
  BY <1>1, <1>3, FS_Subset, FS_CardinalityType
<1>6. QED BY <1>4, <1>5 DEF TwoOf, S

\* The detector starts on an empty channel that it does not know.
LEMMA OccupancyInvInit == OccupancyInit => OccupancyInv
<1> SUFFICES ASSUME OccupancyInit PROVE OccupancyInv
  OBVIOUS
<1>1. None4 \in Seq(BOOLEAN) /\ Len(None4) = 4
  BY DEF None4
<1>2. /\ active = TRUE /\ floor = [db |-> 0, valid |-> FALSE, before |-> 0, relearn |-> 0]
      /\ votes = None4 /\ busy = FALSE /\ blocks = 0 /\ tail = 10
      /\ run = [level |-> Ambient, n |-> 0, found |-> FALSE, unsettled |-> TRUE] /\ learned = FALSE
  BY DEF OccupancyInit, RelearnBlocks
<1>3. OccupancyTypeOK
  <2>1. floor \in [db : Int, valid : BOOLEAN, before : Int, relearn : 0..10]
    BY <1>2
  <2>2. run \in [level : {Mute, Ambient, Signal}, n : 0..7, found : BOOLEAN, unsettled : BOOLEAN]
    BY <1>2
  <2>3. blocks \in 0..MaxBlocks /\ tail \in 0..10
    BY <1>2, OccupancyAssumption
  <2>4. active \in BOOLEAN /\ busy \in BOOLEAN /\ learned \in BOOLEAN
    BY <1>2
  <2>5. votes \in Seq(BOOLEAN) /\ Len(votes) = 4
    BY <1>1, <1>2
  <2>6. QED BY <2>1, <2>2, <2>3, <2>4, <2>5 DEF OccupancyTypeOK, RelearnBlocks, LbtBlocks
<1>4. FloorBetween
  BY <1>2 DEF FloorBetween
<1>5. MutedWhileLearning
  BY <1>2 DEF MutedWhileLearning, RelearnBlocks
<1>6. VotesFollow
  BY <1>2 DEF VotesFollow
<1>7. QED BY <1>3, <1>4, <1>5, <1>6 DEF OccupancyInv

\* What a block does, part by part.
LEMMA BlockIs ==
  ASSUME OccupancyTypeOK, NEW level \in {Mute, Ambient, Signal}, Block(level)
  PROVE  /\ active /\ active' /\ blocks \in Nat /\ blocks < MaxBlocks /\ blocks' = blocks + 1
         /\ floor' = IF floor.valid THEN Follows(level) ELSE First(level)
         /\ votes' = Voted(floor.valid /\ Hot(level)) /\ busy' = TwoOf(votes')
         /\ tail' = IF tail < 10 THEN tail + 1 ELSE tail
         /\ run'.level = level
         /\ run'.n = IF level # run.level THEN 1 ELSE IF run.n < 7 THEN run.n + 1 ELSE run.n
         /\ run'.found = IF level # run.level THEN busy' ELSE run.found \/ busy'
         /\ run' \in [level : {Mute, Ambient, Signal}, n : 0..7, found : BOOLEAN, unsettled : BOOLEAN]
         /\ learned' = IF level = Signal /\ (~floor.valid \/ floor.relearn > 0) THEN FALSE
                ELSE learned \/ (level = Ambient /\ ~floor.valid /\ floor.before <= Ambient + MaxBlocks)
<1>1. busy' = TwoOf(votes') /\ busy' \in BOOLEAN
  BY DEF Block, TwoOf
<1>2. floor \in [db : Int, valid : BOOLEAN, before : Int, relearn : 0..10]
  BY DEF OccupancyTypeOK, RelearnBlocks
<1>3. run \in [level : {Mute, Ambient, Signal}, n : 0..7, found : BOOLEAN, unsettled : BOOLEAN]
  BY DEF OccupancyTypeOK, LbtBlocks
<1>4. run' = IF level = run.level
             THEN [run EXCEPT !.n = IF @ < 7 THEN @ + 1 ELSE @, !.found = @ \/ busy']
             ELSE [level |-> level, n |-> 1, found |-> busy',
                    unsettled |-> ~floor.valid \/ floor.relearn > 0]
  BY DEF Block, LbtBlocks
<1>5. /\ run'.level = level
      /\ run'.n = IF level # run.level THEN 1 ELSE IF run.n < 7 THEN run.n + 1 ELSE run.n
      /\ run'.found = IF level # run.level THEN busy' ELSE run.found \/ busy'
  <2>1. CASE level = run.level
    BY <1>3, <1>4, <2>1
  <2>2. CASE level # run.level
    BY <1>4, <2>2
  <2>3. QED BY <2>1, <2>2
<1>6. run' \in [level : {Mute, Ambient, Signal}, n : 0..7, found : BOOLEAN, unsettled : BOOLEAN]
  <2>1. CASE level = run.level
    <3>1. (IF run.n < 7 THEN run.n + 1 ELSE run.n) \in 0..7 /\ (run.found \/ busy') \in BOOLEAN
      BY <1>1, <1>3
    <3>2. QED BY <1>3, <1>4, <2>1, <3>1
  <2>2. CASE level # run.level
    <3>1. (~floor.valid \/ floor.relearn > 0) \in BOOLEAN
      BY <1>2
    <3>2. QED BY <1>1, <1>4, <2>2, <3>1
  <2>3. QED BY <2>1, <2>2
<1>7. active /\ active' /\ blocks \in Nat /\ blocks < MaxBlocks /\ blocks' = blocks + 1
  BY OccupancyAssumption DEF Block, OccupancyTypeOK
<1>8. /\ floor' = IF floor.valid THEN Follows(level) ELSE First(level)
      /\ votes' = Voted(floor.valid /\ Hot(level))
  BY DEF Block
<1>9. tail' = IF tail < 10 THEN tail + 1 ELSE tail
  BY DEF Block, RelearnBlocks
<1>10. learned' = IF level = Signal /\ (~floor.valid \/ floor.relearn > 0) THEN FALSE
                ELSE learned \/ (level = Ambient /\ ~floor.valid /\ floor.before <= Ambient + MaxBlocks)
  BY DEF Block
<1>11. QED BY <1>1, <1>5, <1>6, <1>7, <1>8, <1>9, <1>10

\* What a block does to the floor.
LEMMA FloorIs ==
  ASSUME OccupancyTypeOK, NEW level \in {Mute, Ambient, Signal}, level \in Nat, Block(level)
  PROVE  /\ floor' \in [db : Int, valid : BOOLEAN, before : Int, relearn : 0..10]
         /\ floor'.valid /\ floor'.before = floor.before
         /\ floor'.relearn = IF ~floor.valid THEN 10 ELSE IF floor.relearn > 0 THEN floor.relearn - 1 ELSE 0
         /\ floor'.db = IF ~floor.valid THEN MaxOf(floor.before, level)
                        ELSE IF floor.relearn > 0 THEN MaxOf(floor.before, Toward(floor.db, level, 50))
                        ELSE (IF level < floor.db THEN Toward(floor.db, level, 30)
                              ELSE IF level <= floor.db + Margin THEN Toward(floor.db, level, 5)
                              ELSE floor.db) + 1
<1>0. Margin \in Nat
  BY OccupancyAssumption
<1>1. floor \in [db : Int, valid : BOOLEAN, before : Int, relearn : 0..10]
  BY DEF OccupancyTypeOK, RelearnBlocks
<1>2. /\ Toward(floor.db, level, 50) \in Int /\ Toward(floor.db, level, 30) \in Int
      /\ Toward(floor.db, level, 5) \in Int
  BY <1>1 DEF Toward
<1>3. floor' = IF floor.valid THEN Follows(level) ELSE First(level)
  BY BlockIs
<1>4. Hot(level) <=> ~(level <= floor.db + Margin)
  BY <1>0, <1>1 DEF Hot
<1>5. CASE ~floor.valid
  <2> DEFINE d == MaxOf(floor.before, level)
  <2>1. d \in Int
    BY <1>1 DEF MaxOf
  <2>2. floor' = [floor EXCEPT !.db = d, !.valid = TRUE, !.relearn = 10]
    BY <1>3, <1>5 DEF First, RelearnBlocks
  <2> HIDE DEF d
  <2>3. floor' = [db |-> d, valid |-> TRUE, before |-> floor.before, relearn |-> 10]
    BY <1>1, <2>2
  <2>4. floor' \in [db : Int, valid : BOOLEAN, before : Int, relearn : 0..10]
    BY <1>1, <2>1, <2>3
  <2>5. floor'.db = d /\ floor'.valid /\ floor'.before = floor.before /\ floor'.relearn = 10
    BY <2>3
  <2>6. QED BY <1>5, <2>4, <2>5 DEF d
<1>6. CASE floor.valid /\ floor.relearn > 0
  <2> DEFINE d == MaxOf(floor.before, Toward(floor.db, level, 50))
             r == floor.relearn - 1
  <2>1. d \in Int /\ r \in 0..10
    BY <1>1, <1>2, <1>6 DEF MaxOf
  <2>2. floor' = [floor EXCEPT !.db = d, !.relearn = r]
    BY <1>1, <1>3, <1>6 DEF Follows
  <2> HIDE DEF d, r
  <2>3. floor'.db = d /\ floor' \in [db : Int, valid : BOOLEAN, before : Int, relearn : 0..10]
        /\ floor'.valid /\ floor'.before = floor.before /\ floor'.relearn = r
    BY <1>1, <1>6, <2>1, <2>2
  <2>4. QED BY <1>6, <2>3 DEF d, r
<1>7. CASE floor.valid /\ floor.relearn = 0
  <2> DEFINE d == (IF level < floor.db THEN Toward(floor.db, level, 30)
                   ELSE IF level <= floor.db + Margin THEN Toward(floor.db, level, 5)
                   ELSE floor.db) + 1
  <2>1. d \in Int
    BY <1>1, <1>2
  <2>2. floor' = [floor EXCEPT !.db = d]
    BY <1>1, <1>3, <1>4, <1>7 DEF Follows, Drift
  <2> HIDE DEF d
  <2>3. floor'.db = d /\ floor' \in [db : Int, valid : BOOLEAN, before : Int, relearn : 0..10]
        /\ floor'.valid /\ floor'.before = floor.before /\ floor'.relearn = 0
    BY <1>1, <1>7, <2>1, <2>2
  <2>4. QED BY <1>7, <2>3 DEF d
<1>8. QED BY <1>1, <1>5, <1>6, <1>7

\* A learned floor stays between the level of the empty channel and its drift.
LEMMA BlockKeepsFloor ==
  ASSUME Loud, OccupancyInv, NEW level \in {Mute, Ambient, Signal}, Block(level),
         level \in {Ambient, Signal} \/ (tail < RelearnBlocks /\ run.level = Mute)
  PROVE  FloorBetween' /\ MutedWhileLearning'
<1>0. /\ Mute \in Nat /\ Ambient \in Nat /\ Signal \in Nat /\ Margin \in Nat /\ MaxBlocks \in Nat
      /\ Mute <= Ambient /\ Signal > Ambient + Margin + 2 * MaxBlocks /\ level \in Nat
  BY Levels
<1> USE <1>0
<1>1. floor \in [db : Int, valid : BOOLEAN, before : Int, relearn : 0..10]
  BY DEF OccupancyInv, OccupancyTypeOK, RelearnBlocks
<1>2. blocks \in Nat /\ blocks < MaxBlocks /\ blocks' = blocks + 1 /\ active /\ active'
  BY BlockIs DEF OccupancyInv
<1>3. /\ floor' \in [db : Int, valid : BOOLEAN, before : Int, relearn : 0..10]
      /\ floor'.valid /\ floor'.before = floor.before
      /\ floor'.relearn = IF ~floor.valid THEN 10 ELSE IF floor.relearn > 0 THEN floor.relearn - 1 ELSE 0
  BY FloorIs DEF OccupancyInv
<1>4. MutedWhileLearning'
  <2>1. tail \in 0..10 /\ tail' = IF tail < 10 THEN tail + 1 ELSE tail
    BY BlockIs DEF OccupancyInv, OccupancyTypeOK, RelearnBlocks
  <2>2. ASSUME tail' < 10 PROVE floor'.relearn = 11 - tail'
    <3>1. tail < 10 /\ tail' = tail + 1
      BY <2>1, <2>2
    <3>2. CASE ~floor.valid
      <4>1. tail = 0
        BY <1>2, <3>1, <3>2 DEF OccupancyInv, MutedWhileLearning, RelearnBlocks
      <4>2. QED BY <1>3, <3>1, <3>2, <4>1
    <3>3. CASE floor.valid
      <4>1. floor.relearn = 11 - tail
        BY <2>1, <3>1, <3>3 DEF OccupancyInv, MutedWhileLearning, RelearnBlocks
      <4>2. floor.relearn > 0 /\ floor'.relearn = floor.relearn - 1
        BY <1>3, <2>1, <3>1, <3>3, <4>1
      <4>3. QED BY <2>1, <3>1, <4>1, <4>2
    <3>4. QED BY <1>1, <3>2, <3>3
  <2>3. tail' \in 0..10
    BY <2>1
  <2>4. QED BY <1>2, <1>3, <2>2, <2>3 DEF MutedWhileLearning, RelearnBlocks
<1>5. FloorBetween'
  <2> SUFFICES ASSUME learned' PROVE FloorBetween'
    BY DEF FloorBetween
  <2>0. learned' = IF level = Signal /\ (~floor.valid \/ floor.relearn > 0) THEN FALSE
                   ELSE learned \/ (level = Ambient /\ ~floor.valid /\ floor.before <= Ambient + MaxBlocks)
    BY BlockIs DEF OccupancyInv
  <2>a. ~(level = Signal /\ (~floor.valid \/ floor.relearn > 0))
    BY <2>0
  <2>b. learned \/ (level = Ambient /\ ~floor.valid /\ floor.before <= Ambient + MaxBlocks)
    BY <2>0, <2>a
  <2>1. /\ level = Signal => learned /\ floor.valid /\ floor.relearn = 0
        /\ learned \/ (level = Ambient /\ ~floor.valid)
        /\ ~learned => floor.before <= Ambient + MaxBlocks
    BY <1>1, <2>a, <2>b
  <2>2. learned => /\ Ambient <= floor.db /\ floor.db <= Ambient + MaxBlocks + blocks
                   /\ floor.before <= Ambient + MaxBlocks + blocks
    BY DEF OccupancyInv, FloorBetween, Highest
  <2>3. floor'.before <= Ambient + MaxBlocks + blocks
    BY <1>1, <1>2, <1>3, <2>1, <2>2
  <2>4. level # Signal /\ level # Ambient /\ Mute < Ambient => learned /\ Ambient <= floor.before
    BY <2>1 DEF OccupancyInv, FloorBetween
  <2>5. run'.level = level
    BY BlockIs DEF OccupancyInv
  <2>6. Ambient <= floor'.db /\ floor'.db <= Ambient + MaxBlocks + blocks + 1
    <3>1. CASE ~floor.valid
      <4>1. floor'.db = MaxOf(floor.before, level) /\ level <= Ambient
        BY <2>1, <3>1, FloorIs DEF OccupancyInv
      <4>2. QED BY <1>1, <1>2, <1>3, <2>3, <2>4, <4>1 DEF MaxOf
    <3>2. CASE floor.valid /\ floor.relearn > 0
      <4>1. floor'.db = MaxOf(floor.before, Toward(floor.db, level, 50)) /\ level <= Ambient /\ learned
        BY <1>1, <2>1, <3>2, FloorIs DEF OccupancyInv
      <4>2. Toward(floor.db, level, 50) \in level..floor.db
        <5>1. floor.db \in Int /\ level \in Int /\ level <= floor.db
          BY <1>1, <2>2, <4>1
        <5>2. QED BY <5>1, TowardIsBetween
      <4>3. Toward(floor.db, level, 50) \in Int /\ Toward(floor.db, level, 50) <= Ambient + MaxBlocks + blocks
            /\ level <= Toward(floor.db, level, 50)
        BY <1>1, <1>2, <2>2, <4>1, <4>2
      <4>4. level = Ambient \/ Ambient <= floor.before
        BY <2>4, <4>1
      <4>5. QED BY <1>1, <1>2, <1>3, <2>3, <4>1, <4>3, <4>4 DEF MaxOf
    <3>3. CASE floor.valid /\ floor.relearn = 0
      <4>1. learned
        BY <2>1, <3>3
      <4>2. level # Mute \/ Mute = Ambient
        BY <3>3 DEF OccupancyInv, MutedWhileLearning, OccupancyTypeOK, RelearnBlocks
      <4>3. floor'.db = (IF level < floor.db THEN Toward(floor.db, level, 30)
                         ELSE IF level <= floor.db + Margin THEN Toward(floor.db, level, 5)
                         ELSE floor.db) + 1
        BY <3>3, FloorIs DEF OccupancyInv
      <4>4. CASE level = Ambient
        <5>1. CASE Ambient < floor.db
          <6>1. Toward(floor.db, level, 30) \in Ambient..floor.db
            BY <1>1, <4>4, <5>1, TowardIsBetween
          <6>2. floor'.db = Toward(floor.db, level, 30) + 1
            BY <4>3, <4>4, <5>1
          <6>3. QED BY <1>1, <1>2, <2>2, <4>1, <6>1, <6>2
        <5>2. CASE Ambient = floor.db
          <6>1. Toward(floor.db, level, 5) = floor.db
            BY <1>1, <4>4, <5>2 DEF Toward
          <6>2. QED BY <1>1, <1>2, <2>2, <4>1, <4>3, <4>4, <5>2, <6>1
        <5>3. QED BY <1>1, <2>2, <4>1, <5>1, <5>2
      <4>5. CASE level = Signal
        <5>1. floor'.db = floor.db + 1
          BY <1>1, <1>2, <2>2, <4>1, <4>3, <4>5
        <5>2. QED BY <1>1, <1>2, <2>2, <4>1, <5>1
      <4>6. QED BY <4>2, <4>4, <4>5
    <3>4. QED BY <1>1, <3>1, <3>2, <3>3
  <2>7. QED BY <1>1, <1>2, <1>3, <2>3, <2>4, <2>5, <2>6 DEF FloorBetween, Highest
<1>6. QED BY <1>4, <1>5

\* What is heard in a block is voted for.
LEMMA BlockKeepsVotes ==
  ASSUME Loud, OccupancyInv, NEW level \in {Mute, Ambient, Signal}, Block(level)
  PROVE  VotesFollow'
<1>0. /\ Mute \in Nat /\ Ambient \in Nat /\ Signal \in Nat /\ Margin \in Nat /\ MaxBlocks \in Nat
      /\ Mute <= Ambient /\ Signal > Ambient + Margin + 2 * MaxBlocks /\ level \in Nat
  BY Levels
<1> DEFINE hot == floor.valid /\ Hot(level)
<1>1. floor \in [db : Int, valid : BOOLEAN, before : Int, relearn : 0..10]
  BY DEF OccupancyInv, OccupancyTypeOK, RelearnBlocks
<1>2. hot \in BOOLEAN /\ (hot <=> floor.valid /\ level > floor.db + Margin)
  BY <1>0, <1>1 DEF Hot
<1>3. /\ active /\ blocks \in Nat /\ blocks < MaxBlocks
      /\ votes' = Voted(hot) /\ busy' = TwoOf(votes') /\ run'.level = level
      /\ run'.n = IF level # run.level THEN 1 ELSE IF run.n < 7 THEN run.n + 1 ELSE run.n
      /\ run'.found = IF level # run.level THEN busy' ELSE run.found \/ busy'
      /\ learned' => (level = Signal => learned /\ floor.valid) /\ (~learned => ~floor.valid)
  BY BlockIs DEF OccupancyInv
<1>4. run.n \in 0..7 /\ votes \in Seq(BOOLEAN) /\ Len(votes) = 4
  BY DEF OccupancyInv, OccupancyTypeOK, LbtBlocks
<1> HIDE DEF hot
<1>5. /\ votes'[1] = votes[2] /\ votes'[2] = votes[3]
      /\ votes'[3] = votes[4] /\ votes'[4] = hot
  <2>1. votes' = Tail(votes) \o <<hot>>
    BY <1>3 DEF Voted
  <2>2. hot \in BOOLEAN /\ votes \in Seq(BOOLEAN) /\ Len(votes) = 4
    BY <1>2, <1>4
  <2> DEFINE s == Tail(votes) \o <<hot>>
  <2>3. s[1] = votes[2] /\ s[2] = votes[3] /\ s[3] = votes[4] /\ s[4] = hot
    BY <2>2, VotesShift
  <2> HIDE DEF s
  <2>4. votes' = s
    BY <2>1 DEF s
  <2>5. QED BY <2>3, <2>4
<1>6. learned => Ambient <= floor.db /\ floor.db <= Ambient + MaxBlocks + blocks
  BY DEF OccupancyInv, FloorBetween, Highest
<1>7. ASSUME learned', level # Signal, NEW i \in 1..4, i > 4 - run'.n PROVE ~votes'[i]
  <2>1. ~hot
    BY <1>0, <1>1, <1>2, <1>3, <1>6, <1>7
  <2>2. CASE i = 4
    BY <1>5, <2>1, <2>2
  <2>3. CASE i < 4
    <3>1. votes'[i] = votes[i + 1] /\ i + 1 \in 1..4
      <4>1. i = 1 \/ i = 2 \/ i = 3
        BY <2>3
      <4>2. QED BY <1>5, <4>1
    <3>2. CASE ~learned
      <4>1. votes = None4
        BY <1>3, <1>7, <3>2 DEF OccupancyInv, MutedWhileLearning
      <4>2. ~None4[1] /\ ~None4[2] /\ ~None4[3] /\ ~None4[4]
        BY DEF None4
      <4>3. i + 1 = 2 \/ i + 1 = 3 \/ i + 1 = 4
        BY <2>3
      <4>4. QED BY <3>1, <4>1, <4>2, <4>3
    <3>3. CASE learned
      <4>1. run.level = level /\ i + 1 > 4 - run.n
        <5>1. run'.n = IF level # run.level THEN 1 ELSE IF run.n < 7 THEN run.n + 1 ELSE run.n
          BY <1>3
        <5>2. run.n \in 0..7 /\ i > 4 - run'.n /\ i \in 1..3
          BY <1>4, <1>7, <2>3
        <5>3. QED BY <5>1, <5>2
      <4>2. QED BY <1>7, <3>1, <3>3, <4>1 DEF OccupancyInv, VotesFollow
    <3>4. QED BY <3>2, <3>3
  <2>4. QED BY <2>2, <2>3
<1>8. ASSUME learned', level = Signal PROVE votes'[4] /\ (run'.n >= 2 => run'.found)
  <2>1. hot
    BY <1>0, <1>1, <1>2, <1>3, <1>6, <1>8
  <2>2. ASSUME run'.n >= 2 PROVE run'.found
    <3>1. run.level = level /\ run.n >= 1 /\ run'.found = (run.found \/ busy')
      BY <1>3, <1>4, <2>2
    <3>2. votes[4]
      BY <1>3, <1>8, <3>1 DEF OccupancyInv, VotesFollow
    <3>3. TwoOf(votes')
      BY <1>5, <2>1, <3>2, TwoAreEnough
    <3>4. QED BY <1>3, <3>1, <3>3
  <2>3. QED BY <1>5, <2>1, <2>2
<1>9. QED BY <1>3, <1>7, <1>8 DEF VotesFollow

\* A block keeps the invariant.
LEMMA BlockKeeps ==
  ASSUME Loud, OccupancyInv, NEW level \in {Mute, Ambient, Signal}, Block(level),
         level \in {Ambient, Signal} \/ (tail < RelearnBlocks /\ run.level = Mute)
  PROVE  OccupancyInv'
<1>1. OccupancyTypeOK /\ level \in Nat
  BY OccupancyAssumption DEF OccupancyInv
<1>2. OccupancyTypeOK'
  <2>1. floor' \in [db : Int, valid : BOOLEAN, before : Int, relearn : 0..10]
    BY <1>1, FloorIs
  <2>2. votes' \in Seq(BOOLEAN) /\ Len(votes') = 4
    <3>1. (floor.valid /\ Hot(level)) \in BOOLEAN
      BY <1>1 DEF OccupancyTypeOK, Hot
    <3>2. votes' = Tail(votes) \o <<floor.valid /\ Hot(level)>>
      BY <1>1, BlockIs DEF Voted
    <3>3. votes \in Seq(BOOLEAN) /\ Len(votes) = 4
      BY <1>1 DEF OccupancyTypeOK
    <3> HIDE DEF Hot
    <3>4. QED BY <3>1, <3>2, <3>3, VotesShift
  <2>3. busy' \in BOOLEAN
    <3>1. busy' = TwoOf(votes')
      BY <1>1, BlockIs
    <3>2. QED BY <3>1 DEF TwoOf
  <2>4. learned' \in BOOLEAN
    <3>1. learned \in BOOLEAN
      BY <1>1 DEF OccupancyTypeOK
    <3>2. (learned \/ (level = Ambient /\ ~floor.valid /\ floor.before <= Ambient + MaxBlocks)) \in BOOLEAN
      BY <3>1
    <3>3. learned' = IF level = Signal /\ (~floor.valid \/ floor.relearn > 0) THEN FALSE
                     ELSE learned \/ (level = Ambient /\ ~floor.valid /\ floor.before <= Ambient + MaxBlocks)
      BY <1>1, BlockIs
    <3>4. QED BY <3>2, <3>3
  <2>5. tail' \in 0..10 /\ blocks' \in 0..MaxBlocks /\ active' \in BOOLEAN
    <3>1. tail \in 0..10 /\ blocks \in Nat /\ MaxBlocks \in Nat
      BY <1>1, OccupancyAssumption DEF OccupancyTypeOK, RelearnBlocks
    <3>2. tail' = IF tail < 10 THEN tail + 1 ELSE tail
      BY <1>1, BlockIs
    <3>3. blocks < MaxBlocks /\ blocks' = blocks + 1
      BY <1>1, BlockIs
    <3>4. active' = TRUE
      BY DEF Block, OccupancyTypeOK
    <3>5. QED BY <3>1, <3>2, <3>3, <3>4
  <2>6. run' \in [level : {Mute, Ambient, Signal}, n : 0..7, found : BOOLEAN, unsettled : BOOLEAN]
    BY <1>1, BlockIs
  <2>7. QED BY <2>1, <2>2, <2>3, <2>4, <2>5, <2>6 DEF OccupancyTypeOK, RelearnBlocks, LbtBlocks
<1>3. QED BY <1>2, BlockKeepsFloor, BlockKeepsVotes DEF OccupancyInv

\* Transmissions, changes of the channel and a vote taken afresh.
LEMMA ResetsKeep ==
  ASSUME Loud, OccupancyInv, Transmit \/ Receive \/ Retune \/ Rearm \/ UNCHANGED ovars
  PROVE  OccupancyInv'
<1>0. /\ None4 \in Seq(BOOLEAN) /\ Len(None4) = 4
      /\ ~None4[1] /\ ~None4[2] /\ ~None4[3] /\ ~None4[4]
  BY DEF None4
<1>1. \A i \in 1..4 : ~None4[i]
  <2>1. \A i \in 1..4 : i = 1 \/ i = 2 \/ i = 3 \/ i = 4
    OBVIOUS
  <2>2. QED BY <1>0, <2>1
<1>2. /\ Mute \in Nat /\ Ambient \in Nat /\ Signal \in Nat /\ MaxBlocks \in Nat
      /\ Mute <= Ambient /\ Ambient < Signal
  BY Levels
<1>3. floor \in [db : Int, valid : BOOLEAN, before : Int, relearn : 0..10]
  BY DEF OccupancyInv, OccupancyTypeOK, RelearnBlocks
<1>4. run \in [level : {Mute, Ambient, Signal}, n : 0..7, found : BOOLEAN, unsettled : BOOLEAN]
  BY DEF OccupancyInv, OccupancyTypeOK, LbtBlocks
<1>5. CASE Transmit
  <2>1. /\ active' = FALSE /\ busy' = FALSE /\ votes' = None4 /\ floor'.db = floor.db
        /\ floor'.before = floor.db /\ floor'.valid = FALSE /\ floor'.relearn = 0
        /\ floor' \in [db : Int, valid : BOOLEAN, before : Int, relearn : 0..10]
        /\ UNCHANGED <<blocks, tail, run, learned>>
    <3>1. floor' = [floor EXCEPT !.before = floor.db, !.valid = FALSE, !.relearn = 0]
      BY <1>5 DEF Transmit
    <3>2. floor' = [db |-> floor.db, valid |-> FALSE, before |-> floor.db, relearn |-> 0]
      BY <1>3, <3>1
    <3>3. floor' \in [db : Int, valid : BOOLEAN, before : Int, relearn : 0..10]
      BY <1>3, <3>2
    <3>4. QED BY <1>5, <3>2, <3>3 DEF Transmit
  <2>2. OccupancyTypeOK'
    <3>1. votes' \in Seq(BOOLEAN) /\ Len(votes') = 4
      BY <1>0, <2>1
    <3>2. active' \in BOOLEAN /\ busy' \in BOOLEAN
      BY <2>1
    <3>3. blocks' \in 0..MaxBlocks /\ tail' \in 0..10 /\ learned' \in BOOLEAN /\ run' = run
      BY <2>1 DEF OccupancyInv, OccupancyTypeOK, RelearnBlocks
    <3>4. QED BY <1>4, <2>1, <3>1, <3>2, <3>3 DEF OccupancyTypeOK, RelearnBlocks, LbtBlocks
  <2>3. FloorBetween'
    BY <2>1 DEF OccupancyInv, FloorBetween, Highest
  <2>4. MutedWhileLearning'
    BY <2>1 DEF MutedWhileLearning
  <2>5. VotesFollow'
    BY <1>1, <2>1 DEF OccupancyInv, VotesFollow
  <2>6. QED BY <2>2, <2>3, <2>4, <2>5 DEF OccupancyInv
<1>6. CASE Receive
  <2>1. /\ ~active /\ active' = TRUE /\ tail' = 0
        /\ run' = [level |-> Mute, n |-> 0, found |-> FALSE, unsettled |-> TRUE]
        /\ UNCHANGED <<floor, votes, busy, blocks, learned>>
    BY <1>6 DEF Receive
  <2>2. ~floor.valid /\ votes = None4
    BY <2>1 DEF OccupancyInv, MutedWhileLearning
  <2>3. run'.level = Mute /\ run'.n = 0
        /\ run' \in [level : {Mute, Ambient, Signal}, n : 0..7, found : BOOLEAN, unsettled : BOOLEAN]
    BY <2>1
  <2>4. OccupancyTypeOK'
    BY <2>1, <2>3 DEF OccupancyInv, OccupancyTypeOK, RelearnBlocks, LbtBlocks
  <2>5. FloorBetween'
    BY <2>1, <2>2 DEF OccupancyInv, FloorBetween, Highest
  <2>6. MutedWhileLearning'
    BY <2>1, <2>2 DEF MutedWhileLearning
  <2>7. VotesFollow'
    BY <1>1, <1>2, <2>1, <2>2, <2>3 DEF OccupancyInv, VotesFollow
  <2>8. QED BY <2>4, <2>5, <2>6, <2>7 DEF OccupancyInv
<1>7. CASE Retune
  <2>1. /\ active /\ busy' = FALSE /\ votes' = None4
        /\ floor' \in [db : Int, valid : BOOLEAN, before : Int, relearn : 0..10]
        /\ floor'.valid = FALSE
        /\ run' = [level |-> Ambient, n |-> 0, found |-> FALSE, unsettled |-> TRUE]
        /\ learned' = FALSE /\ tail' = 10
        /\ UNCHANGED <<active, blocks>>
    <3>1. floor' = [floor EXCEPT !.valid = FALSE, !.relearn = 0]
      BY <1>7 DEF Retune
    <3>2. floor' = [db |-> floor.db, valid |-> FALSE, before |-> floor.before, relearn |-> 0]
      BY <1>3, <3>1
    <3>3. floor' \in [db : Int, valid : BOOLEAN, before : Int, relearn : 0..10]
      BY <1>3, <3>2
    <3>4. QED BY <1>7, <3>2, <3>3 DEF Retune, RelearnBlocks
  <2>2. run' \in [level : {Mute, Ambient, Signal}, n : 0..7, found : BOOLEAN, unsettled : BOOLEAN]
    BY <2>1
  <2>3. OccupancyTypeOK'
    <3>1. blocks \in 0..MaxBlocks /\ active \in BOOLEAN
      BY DEF OccupancyInv, OccupancyTypeOK
    <3>2. learned' \in BOOLEAN /\ busy' \in BOOLEAN /\ tail' \in 0..10
      <4>1. learned' = FALSE /\ busy' = FALSE /\ tail' = 10
        BY <2>1
      <4>2. learned' \in BOOLEAN /\ busy' \in BOOLEAN
        BY <4>1
      <4>3. tail' \in 0..10
        BY <4>1
      <4>4. QED BY <4>2, <4>3
    <3>3. blocks' \in 0..MaxBlocks /\ active' \in BOOLEAN
      BY <2>1, <3>1
    <3>4. votes' \in Seq(BOOLEAN) /\ Len(votes') = 4
      BY <1>0, <2>1
    <3>5. QED BY <2>1, <2>2, <3>2, <3>3, <3>4 DEF OccupancyTypeOK, RelearnBlocks, LbtBlocks
  <2>4. FloorBetween' /\ MutedWhileLearning' /\ VotesFollow'
    BY <2>1 DEF FloorBetween, MutedWhileLearning, VotesFollow, RelearnBlocks
  <2>5. QED BY <2>3, <2>4 DEF OccupancyInv
<1>8. CASE Rearm
  <2>1. /\ active /\ busy' = FALSE /\ votes' = None4
        /\ run' = [run EXCEPT !.n = 0, !.found = FALSE]
        /\ UNCHANGED <<active, floor, blocks, tail, learned>>
    BY <1>8 DEF Rearm
  <2>2. run'.level = run.level /\ run'.n = 0
        /\ run' \in [level : {Mute, Ambient, Signal}, n : 0..7, found : BOOLEAN, unsettled : BOOLEAN]
    <3>1. run' = [level |-> run.level, n |-> 0, found |-> FALSE, unsettled |-> run.unsettled]
      BY <1>4, <2>1
    <3>2. QED BY <1>4, <3>1
  <2>3. OccupancyTypeOK'
    BY <1>0, <2>1, <2>2 DEF OccupancyInv, OccupancyTypeOK, LbtBlocks
  <2>4. FloorBetween'
    BY <2>1, <2>2 DEF OccupancyInv, FloorBetween, Highest
  <2>5. MutedWhileLearning'
    BY <2>1 DEF OccupancyInv, MutedWhileLearning
  <2>6. VotesFollow'
    BY <1>1, <2>1, <2>2 DEF VotesFollow
  <2>7. QED BY <2>3, <2>4, <2>5, <2>6 DEF OccupancyInv
<1>9. CASE UNCHANGED ovars
  BY <1>9 DEF ovars, OccupancyInv, OccupancyTypeOK, FloorBetween, MutedWhileLearning,
     VotesFollow, Highest, TwoOf
<1>10. QED BY <1>5, <1>6, <1>7, <1>8, <1>9

\* finish_block_(), set_active() and reset(): the verdict that holds back or lets
\* go a transmission is right, for every level of noise and of a loud signal.
THEOREM VerdictIsRight ==
  ASSUME Loud
  PROVE  OccupancySpec => []OccupancyRight
<1>1. OccupancyInv /\ [OccupancyNext]_ovars => OccupancyInv'
  <2> SUFFICES ASSUME OccupancyInv, [OccupancyNext]_ovars PROVE OccupancyInv'
    OBVIOUS
  <2>1. CASE Blocks
    <3>1. CASE Block(Ambient)
      BY <3>1, BlockKeeps
    <3>2. CASE Block(Signal)
      BY <3>2, BlockKeeps
    <3>3. CASE tail < RelearnBlocks /\ run.level = Mute /\ Block(Mute)
      BY <3>3, BlockKeeps
    <3>4. QED BY <2>1, <3>1, <3>2, <3>3 DEF Blocks
  <2>2. CASE Transmit \/ Receive \/ Retune \/ Rearm \/ UNCHANGED ovars
    BY <2>2, ResetsKeep
  <2>3. QED BY <2>1, <2>2 DEF OccupancyNext
<1>2. OccupancyInv => OccupancyRight
  <2> SUFFICES ASSUME OccupancyInv PROVE OccupancyRight
    OBVIOUS
  <2>1. ASSUME learned, run.level # Signal, run.n > 3 PROVE ~busy
    <3>1. run.n \in 0..7
      BY DEF OccupancyInv, OccupancyTypeOK, LbtBlocks
    <3>2. ~votes[1] /\ ~votes[2] /\ ~votes[3] /\ ~votes[4]
      BY <2>1, <3>1 DEF OccupancyInv, VotesFollow
    <3>3. QED BY <3>2, ColdIsClear DEF OccupancyInv, VotesFollow
  <2>2. ASSUME learned, run.level = Signal, run.n >= 3 PROVE run.found
    <3>1. run.n \in 0..7
      BY DEF OccupancyInv, OccupancyTypeOK, LbtBlocks
    <3>2. QED BY <2>2, <3>1 DEF OccupancyInv, VotesFollow
  <2>3. QED BY <2>1, <2>2 DEF OccupancyRight, EmptyStaysClear, SignalNoticed
<1>3. QED BY <1>1, <1>2, OccupancyInvInit, PTL DEF OccupancySpec

-----------------------------------------------------------------------------
(* Reception *)

\* An address, or none.
Anyone == Stations \union {Nobody}
WordTypes == {"TO", "TIS", "TWAS", "CMD", "LQA", "DATA", "REP"}
Phases == {"SCANNING", "HANDSHAKE", "CALLING", "WAIT_ACK", "LINKED"}
Pieces == [by : Stations, x : Int]
Slots == 1..MaxExtSlots

\* What the identity accumulator holds.
SessionOK(s) ==
  \/ s = NoSession
  \/ /\ s = <<s[1]>>
     /\ s[1] \in [anchor : Stations, votes : [Slots -> SUBSET (Stations \X Int)],
                  slot : 1..(MaxExtSlots + 1), open : BOOLEAN]

\* The types of what is heard and of what is made of it.
ReceptionTypeOK ==
  /\ sm \in [st : Phases, to : Anyone, caller : Anyone, with : Anyone]
  /\ air \in [by : Anyone, left : Seq([t : WordTypes, x : Int]), hit : BOOLEAN]
  /\ SessionOK(session)
  /\ amd \in [Windows -> [on : BOOLEAN, acc : Seq(Pieces)]]
  /\ pending \in [{"call", "resp"} -> Seq(Seq(Pieces))]
  /\ owner \in [{"linked", "ack"} -> Anyone]
  /\ exchange \in [held : Anyone, sent : BOOLEAN, target : Anyone]
  /\ quality \in [call : SUBSET Stations, resp : SUBSET Stations]
  /\ frames \in Nat
  /\ texts \in Seq([win : Windows, peer : Anyone, acc : Seq(Pieces)])

\* What is on the air: a frame's words follow one another.
FrameShape(left, n) ==
  /\ \A i \in DOMAIN left :
       /\ left[i].t \in {"TIS", "TWAS"} => left[i].x = 0
       /\ left[i].t = "CMD" => left[i].x = -n
  /\ \A i \in DOMAIN left : i > 1 /\ left[i].t \in {"DATA", "REP"} =>
       \/ left[i - 1].t = "CMD"
       \/ left[i - 1].t \in {"TIS", "TWAS", "DATA", "REP"} /\ left[i].x = left[i - 1].x + 1
  /\ \A i, j \in DOMAIN left : left[i].t = "CMD" /\ left[j].t = "CMD" => i = j

\* In a handshake and on a link only the partner is on the air, and the addresses of
\* the state machine that have been heard are its.
Partnered ==
  /\ sm.st = "SCANNING" <=> sm.with = Nobody
  /\ air.left # <<>> => air.by \in Stations /\ (sm.with # Nobody => air.by = sm.with)
  /\ sm.st = "HANDSHAKE" => sm.caller \in {Nobody, sm.with}
  /\ sm.st = "WAIT_ACK" => sm.caller = sm.with
  /\ sm.st = "CALLING" => sm.to \in {Nobody, sm.with}

\* While scanning, the extension word on the air belongs to the slot the session has
\* open, and to its station.
NextFits ==
  session # NoSession /\ session[1].open /\ session[1].slot <= MaxExtSlots
  /\ sm.st = "SCANNING" /\ air.left # <<>> /\ air.left[1].t \in {"DATA", "REP"}
  => air.left[1].x = session[1].slot /\ air.by = session[1].anchor

\* Measurements and qualities held for a handshake are the partner's; the qualities
\* that an unreported call leaves behind are of the station that answered it.
Measured ==
  /\ sm.st \in {"HANDSHAKE", "CALLING"} => exchange.held \in {Nobody, sm.with}
  /\ sm.st = "WAIT_ACK" => exchange.held = Nobody
  /\ sm.st \in {"HANDSHAKE", "WAIT_ACK"} => quality.call \subseteq {sm.with}
  /\ sm.st = "CALLING" => quality.resp \subseteq {sm.with}
  /\ sm.to # Nobody => quality.resp \subseteq {sm.to}

\* What is left of the frame on the air has the shape of a frame.
AirShape == FrameShape(air.left, frames)

\* An AMD accumulator.
Accs == [on : BOOLEAN, acc : Seq(Pieces)]
WordSet == [t : WordTypes, x : Int]

\* A word takes an accumulator to an accumulator and completes a text.
LEMMA StepType ==
  ASSUME NEW a \in Accs, NEW by \in Stations, NEW w \in WordSet
  PROVE  /\ Step(a, by, w).acc \in Accs
         /\ Step(a, by, w).done \in Seq(Pieces)
<1> DEFINE piece == [by |-> by, x |-> w.x]
<1>1. piece \in Pieces
  BY DEF Pieces, WordSet
<1>2. <<piece>> \in Seq(Pieces) /\ Append(a.acc, piece) \in Seq(Pieces) /\ a.acc \in Seq(Pieces)
  BY <1>1 DEF Accs
<1>3. Quiet \in Accs
  BY DEF Quiet, Accs
<1>4. [on |-> TRUE, acc |-> Append(a.acc, piece)] \in Accs
  BY <1>2 DEF Accs
<1>5. [on |-> TRUE, acc |-> <<piece>>] \in Accs
  BY <1>2 DEF Accs
<1>6. <<>> \in Seq(Pieces)
  OBVIOUS
<1> HIDE DEF piece
<1>7. CASE w.t = "CMD"
  BY <1>2, <1>5, <1>7 DEF Step, StepTo, piece
<1>8. CASE w.t \in {"LQA", "TIS", "TWAS"}
  BY <1>2, <1>3, <1>8 DEF Step, StepTo, piece
<1>9. CASE w.t \in {"DATA", "REP"} /\ a.on
  <2>1. Step(a, by, w) = [acc |-> [on |-> TRUE, acc |-> Append(a.acc, piece)], done |-> <<>>]
    BY <1>9 DEF Step, StepTo, piece
  <2>2. QED BY <2>1, <1>4, <1>6
<1>10. CASE w.t \in WordTypes \ {"CMD", "LQA", "TIS", "TWAS"} /\ ~(w.t \in {"DATA", "REP"} /\ a.on)
  <2>1. Step(a, by, w) = [acc |-> a, done |-> <<>>]
    BY <1>10 DEF Step, StepTo, piece
  <2>2. QED BY <2>1, <1>6
<1>11. w.t \in WordTypes
  BY DEF WordSet
<1>12. QED BY <1>7, <1>8, <1>9, <1>10, <1>11

\* What a word makes of an accumulator.
LEMMA StepCases ==
  ASSUME NEW a \in Accs, NEW by \in Stations, NEW w \in WordSet, a.on \/ a.acc = <<>>
  PROVE  \/ /\ w.t = "CMD"
            /\ Step(a, by, w).acc = [on |-> TRUE, acc |-> <<[by |-> by, x |-> w.x]>>]
            /\ Step(a, by, w).done = a.acc
         \/ /\ w.t # "CMD"
            /\ Step(a, by, w).acc = Quiet
            /\ Step(a, by, w).done = a.acc
         \/ /\ w.t # "CMD"
            /\ Step(a, by, w).acc = a
            /\ Step(a, by, w).done = <<>>
         \/ /\ w.t # "CMD" /\ a.on
            /\ Step(a, by, w).acc = [on |-> TRUE, acc |-> Append(a.acc, [by |-> by, x |-> w.x])]
            /\ Step(a, by, w).done = <<>>
<1> DEFINE piece == [by |-> by, x |-> w.x]
<1> HIDE DEF piece
<1>7. CASE w.t = "CMD"
  BY <1>7 DEF Step, StepTo
<1>8. CASE w.t \in {"LQA", "TIS", "TWAS"}
  BY <1>8 DEF Step, StepTo
<1>9. CASE w.t \in {"DATA", "REP"} /\ a.on
  <2>1. Step(a, by, w) = [acc |-> [on |-> TRUE, acc |-> Append(a.acc, piece)], done |-> <<>>]
    BY <1>9 DEF Step, StepTo, piece
  <2>3. QED BY <2>1, <1>9 DEF piece
<1>10. CASE w.t \in WordTypes \ {"CMD", "LQA", "TIS", "TWAS"} /\ ~(w.t \in {"DATA", "REP"} /\ a.on)
  <2>1. Step(a, by, w) = [acc |-> a, done |-> <<>>]
    BY <1>10 DEF Step, StepTo
  <2>2. QED BY <2>1, <1>10
<1>11. w.t \in WordTypes
  BY DEF WordSet
<1>12. QED BY <1>7, <1>8, <1>9, <1>10, <1>11

\* Words, the garbled ones among them.
AnyWord == [t : WordTypes \union {"BAD"}, x : Int]
Texts == [win : Windows, peer : Anyone, acc : Seq(Pieces)]

\* What is given to the operator is a sequence of texts.
LEMMA GivenType ==
  ASSUME NEW v \in Windows, NEW peer \in Anyone, NEW done \in Seq(Pieces)
  PROVE  Given(v, peer, done) \in Seq(Texts)
<1>1. [win |-> v, peer |-> peer, acc |-> done] \in Texts
  BY DEF Texts
<1>2. QED BY <1>1 DEF Given

\* So are the texts given when a window closes.
LEMMA DispatchedType ==
  ASSUME NEW v \in {"call", "resp"}, NEW peer \in Anyone, ReceptionTypeOK
  PROVE  Dispatched(v, peer) \in Seq(Texts)
<1> DEFINE last == IF amd[v].acc = <<>> THEN <<>> ELSE <<amd[v].acc>>
           all == pending[v] \o last
<1>1. v \in Windows /\ amd[v].acc \in Seq(Pieces) /\ pending[v] \in Seq(Seq(Pieces))
  BY DEF ReceptionTypeOK, Windows
<1>2. last \in Seq(Seq(Pieces))
  BY <1>1
<1>3. all \in Seq(Seq(Pieces))
  BY <1>1, <1>2
<1> HIDE DEF last
<1>4. DOMAIN all = 1..Len(all) /\ Len(all) \in Nat
  BY <1>3
<1>5. ASSUME NEW i \in DOMAIN all
      PROVE  [win |-> v, peer |-> peer, acc |-> all[i]] \in Texts
  <2>1. all[i] \in Seq(Pieces)
    BY <1>3, <1>4
  <2>2. QED BY <2>1, <1>1 DEF Texts
<1>6. Dispatched(v, peer) = IF peer = Nobody THEN <<>>
        ELSE [i \in DOMAIN all |-> [win |-> v, peer |-> peer, acc |-> all[i]]]
  BY DEF Dispatched, last
<1> HIDE DEF all
<1>7. QED BY <1>4, <1>5, <1>6

\* A word takes the session to a session.
LEMMA AfterWordType ==
  ASSUME SessionOK(session), NEW by \in Stations, NEW w \in AnyWord
  PROVE  SessionOK(AfterWord(by, w))
<1> DEFINE s == session[1]
           S == [anchor : Stations, votes : [Slots -> SUBSET (Stations \X Int)],
                 slot : 1..(MaxExtSlots + 1), open : BOOLEAN]
<1>0. MaxExtSlots = 4
  BY DEF MaxExtSlots
<1>1. session # NoSession => session = <<s>> /\ s \in S
  BY DEF SessionOK
<1>2. ASSUME NEW r \in S PROVE SessionOK(<<r>>)
  BY <1>2 DEF SessionOK
<1>3. SessionOK(Opened(by))
  <2>1. [anchor |-> by, votes |-> [i \in 1..MaxExtSlots |-> {}], slot |-> 1, open |-> TRUE] \in S
    BY <1>0 DEF Slots
  <2>2. QED BY <2>1, <1>2 DEF Opened
<1>4. SessionOK(Concluded(by))
  <2>1. CASE session # NoSession /\ session[1].anchor = by
    <3>1. [s EXCEPT !.slot = 1, !.open = TRUE] \in S
      <4>1. s \in S /\ 1 \in 1..(MaxExtSlots + 1)
        BY <2>1, <1>1, <1>0
      <4>2. QED BY <4>1
    <3>2. QED BY <3>1, <2>1, <1>2 DEF Concluded
  <2>2. QED BY <2>1, <1>3 DEF Concluded
<1>5. ASSUME session # NoSession
      PROVE  SessionOK(Filed(by, w, <<[session[1] EXCEPT !.open = FALSE]>>))
  <2>0. s \in S /\ SessionOK(session)
    BY <1>5, <1>1
  <2>1. CASE ~s.open \/ s.slot > MaxExtSlots
    BY <2>0, <2>1 DEF Filed
  <2>2. CASE s.open /\ s.slot <= MaxExtSlots /\ w.t = ExpectedType(s.slot)
    <3>1. /\ s.slot \in Slots /\ s.slot + 1 \in 1..(MaxExtSlots + 1)
          /\ <<by, w.x>> \in Stations \X Int
      BY <2>2, <2>0, <1>0 DEF Slots, AnyWord
    <3>2. [s.votes EXCEPT ![s.slot] = @ \union {<<by, w.x>>}] \in [Slots -> SUBSET (Stations \X Int)]
      BY <3>1, <2>0
    <3>3. [s EXCEPT !.votes[s.slot] = @ \union {<<by, w.x>>}, !.slot = @ + 1] \in S
      BY <3>1, <3>2, <2>0
    <3>4. Filed(by, w, <<[session[1] EXCEPT !.open = FALSE]>>)
            = <<[s EXCEPT !.votes[s.slot] = @ \union {<<by, w.x>>}, !.slot = @ + 1]>>
      <4>1. ~(~s.open \/ s.slot > MaxExtSlots)
        BY <2>2, <2>0, <1>0
      <4>2. QED BY <4>1, <2>2, Zenon DEF Filed
    <3> HIDE DEF s, S
    <3>5. QED BY <3>3, <3>4, <1>2
  <2>3. CASE s.open /\ s.slot <= MaxExtSlots /\ w.t # ExpectedType(s.slot)
    <3>1. [s EXCEPT !.open = FALSE] \in S
      BY <2>0
    <3>2. Filed(by, w, <<[session[1] EXCEPT !.open = FALSE]>>) = <<[s EXCEPT !.open = FALSE]>>
      <4>1. ~(~s.open \/ s.slot > MaxExtSlots)
        BY <2>3, <2>0, <1>0
      <4>2. QED BY <4>1, <2>3, Zenon DEF Filed
    <3>3. QED BY <3>1, <3>2, <1>2
  <2>4. s.open \in BOOLEAN /\ s.slot \in Int
    BY <2>0, <1>0
  <2>5. s.slot <= MaxExtSlots \/ s.slot > MaxExtSlots
    BY <2>4, <1>0
  <2>6. QED BY <2>1, <2>2, <2>3, <2>4, <2>5
<1>6. SessionOK(NoSession)
  BY DEF SessionOK
<1>7. QED BY <1>4, <1>5, <1>6 DEF AfterWord

\* The words of an address: the conclusion, then extensions numbered from one.
LEMMA AddressFacts ==
  ASSUME NEW t \in {"TIS", "TWAS"}
  PROVE  /\ Address(t) \in Seq(WordSet) /\ Len(Address(t)) = Ext + 1
         /\ Address(t)[1] = [t |-> t, x |-> 0]
         /\ \A i \in 2..(Ext + 1) : Address(t)[i].t \in {"DATA", "REP"} /\ Address(t)[i].x = i - 1
<1> DEFINE f(i) == Word(IF i % 2 = 1 THEN "DATA" ELSE "REP", i)
           rest == [i \in 1..Ext |-> f(i)]
<1>0. Ext \in Nat /\ Ext >= 1
  BY ReceptionAssumption
<1>1. Word(t, 0) \in WordSet /\ Word(t, 0) = [t |-> t, x |-> 0]
  BY DEF Word, WordSet, WordTypes
<1>2. \A i \in 1..Ext : f(i) \in WordSet /\ f(i).t \in {"DATA", "REP"} /\ f(i).x = i
  BY <1>0 DEF Word, WordSet, WordTypes
<1> HIDE DEF f
<1>3. rest \in Seq(WordSet) /\ Len(rest) = Ext
  BY <1>2, <1>0
<1>4. \A i \in 1..Ext : rest[i] = f(i)
  OBVIOUS
<1>5. Address(t) = <<Word(t, 0)>> \o rest
  BY DEF Address, f, rest
<1> HIDE DEF rest
<1>6. <<Word(t, 0)>> \in Seq(WordSet) /\ Len(<<Word(t, 0)>>) = 1
  BY <1>1
<1>7. Address(t) \in Seq(WordSet) /\ Len(Address(t)) = Ext + 1
  BY <1>3, <1>5, <1>6, <1>0
<1>8. Address(t)[1] = Word(t, 0)
  BY <1>3, <1>5, <1>6, <1>0
<1>9. \A i \in 2..(Ext + 1) : Address(t)[i] = f(i - 1)
  <2> TAKE i \in 2..(Ext + 1)
  <2>1. i - 1 \in 1..Ext
    BY <1>0
  <2>2. Address(t)[i] = rest[i - 1]
    BY <1>3, <1>5, <1>6, <1>0
  <2>3. QED BY <2>1, <2>2, <1>4
<1>10. \A i \in 2..(Ext + 1) : i - 1 \in 1..Ext
  BY <1>0
<1>11. QED BY <1>1, <1>2, <1>7, <1>8, <1>9, <1>10

\* Words of a text or a measurement, before the conclusion of a frame.
LEMMA BodyFacts ==
  ASSUME NEW n \in Nat, NEW b \in Bodies(n)
  PROVE  /\ b \in Seq(WordSet) /\ Len(b) \in 0..2
         /\ \/ b = <<>> \/ b = <<[t |-> "LQA", x |-> 0]>>
            \/ b = <<[t |-> "CMD", x |-> -n], [t |-> "DATA", x |-> -n]>>
<1>1. \/ b = <<>> \/ b = <<[t |-> "LQA", x |-> 0]>>
      \/ b = <<[t |-> "CMD", x |-> -n], [t |-> "DATA", x |-> -n]>>
  BY DEF Bodies, Word
<1>2. {[t |-> "LQA", x |-> 0], [t |-> "CMD", x |-> -n], [t |-> "DATA", x |-> -n]} \subseteq WordSet
  BY DEF WordSet, WordTypes
<1>3. b \in Seq(WordSet) /\ Len(b) \in 0..2
  <2>1. CASE b = <<>> BY <2>1
  <2>2. CASE b = <<[t |-> "LQA", x |-> 0]>> BY <2>2, <1>2
  <2>3. CASE b = <<[t |-> "CMD", x |-> -n], [t |-> "DATA", x |-> -n]>>
    <3> DEFINE u == [t |-> "CMD", x |-> -n]
               v == [t |-> "DATA", x |-> -n]
    <3>1. u \in WordSet /\ v \in WordSet BY <1>2
    <3> HIDE DEF u, v
    <3>2. <<u, v>> \in Seq(WordSet) /\ Len(<<u, v>>) = 2 BY <3>1
    <3>3. QED BY <3>2, <2>3 DEF u, v
  <2>4. QED BY <2>1, <2>2, <2>3, <1>1
<1>4. QED BY <1>1, <1>3

\* A frame is a sequence of words.
LEMMA SentType ==
  ASSUME NEW n \in Nat, NEW b \in Bodies(n), NEW t \in {"TIS", "TWAS"}
  PROVE  Sounding(t) \in Seq(WordSet) /\ FrameTo(b, t) \in Seq(WordSet)
<1>1. Address(t) \in Seq(WordSet)
  BY AddressFacts
<1>2. b \in Seq(WordSet)
  BY BodyFacts
<1>3. <<Word("TO", 0)>> \in Seq(WordSet)
  BY DEF Word, WordSet, WordTypes
<1>4. QED BY <1>1, <1>2, <1>3 DEF Sounding, FrameTo

\* The initial states are well typed.
LEMMA ReceptionTypeInit == ReceptionInit => ReceptionTypeOK
<1> SUFFICES ASSUME ReceptionInit PROVE ReceptionTypeOK
  OBVIOUS
<1>1. Quiet \in [on : BOOLEAN, acc : Seq(Pieces)]
  BY DEF Quiet
<1>2. amd \in [Windows -> [on : BOOLEAN, acc : Seq(Pieces)]]
  BY <1>1 DEF ReceptionInit
<1>3. pending \in [{"call", "resp"} -> Seq(Seq(Pieces))] /\ texts \in Seq(Texts)
  BY DEF ReceptionInit
<1>4. sm \in [st : Phases, to : Anyone, caller : Anyone, with : Anyone]
  BY DEF ReceptionInit, Phases, Anyone
<1>5. air \in [by : Anyone, left : Seq([t : WordTypes, x : Int]), hit : BOOLEAN]
  <2>1. <<>> \in Seq([t : WordTypes, x : Int]) /\ FALSE \in BOOLEAN /\ Nobody \in Anyone
    BY DEF Anyone
  <2>2. QED BY <2>1 DEF ReceptionInit
<1>6. exchange \in [held : Anyone, sent : BOOLEAN, target : Anyone]
      /\ quality \in [call : SUBSET Stations, resp : SUBSET Stations]
      /\ owner \in [{"linked", "ack"} -> Anyone]
  BY DEF ReceptionInit, Anyone
<1>7. SessionOK(session) /\ frames \in Nat
  BY DEF ReceptionInit, SessionOK
<1>8. QED BY <1>2, <1>3, <1>4, <1>5, <1>6, <1>7 DEF ReceptionTypeOK, Texts

\* The word taken from the air.
LEMMA WordTaken ==
  ASSUME ReceptionTypeOK, air.left # <<>>
  PROVE  /\ Head(air.left) \in WordSet /\ Head(air.left) = air.left[1]
         /\ Tail(air.left) \in Seq(WordSet)
         /\ Len(air.left) \in Nat /\ Len(air.left) >= 1 /\ Len(Tail(air.left)) = Len(air.left) - 1
         /\ \A i \in DOMAIN Tail(air.left) : i + 1 \in DOMAIN air.left /\ Tail(air.left)[i] = air.left[i + 1]
<1>1. air.left \in Seq(WordSet)
  BY DEF ReceptionTypeOK, WordSet
<1>2. QED BY <1>1

\* A word leaves the text windows well typed.
LEMMA TextHeardType ==
  ASSUME ReceptionTypeOK, NEW by \in Stations, NEW w \in WordSet, TextHeard(by, w),
         sm.st \in Phases
  PROVE  /\ (amd \in [Windows -> Accs])'
         /\ (pending \in [{"call", "resp"} -> Seq(Seq(Pieces))])'
         /\ (owner \in [{"linked", "ack"} -> Anyone])'
         /\ (texts \in Seq(Texts))'
<1> DEFINE win == WindowOf(sm.st)
           step == Step(amd[win], by, w)
           own(o) == IF win # o THEN owner[o]
                ELSE IF ~amd[o].on /\ step.acc.on
                     THEN (IF o = "linked" THEN ActivePeer ELSE sm.caller) ELSE owner[o]
           stray == {o \in {"linked", "ack"} : o # win}
           g1 == Given("linked", own("linked"), IF win = "linked" THEN step.done ELSE amd["linked"].acc)
           g2 == Given("ack", own("ack"), IF win = "ack" THEN step.done ELSE amd["ack"].acc)
<1>1. win \in Windows \union {"none"}
  BY DEF WindowOf, Windows
<1>2. win \in Windows => step.acc \in Accs /\ step.done \in Seq(Pieces)
  BY StepType DEF ReceptionTypeOK, Accs
<1>3. ActivePeer \in Anyone /\ sm.caller \in Anyone
  BY DEF ReceptionTypeOK, ActivePeer
<1>4. Quiet \in Accs
  BY DEF Quiet, Accs
<1>5. \A o \in {"linked", "ack"} : own(o) \in Anyone
  BY <1>3 DEF ReceptionTypeOK
<1> HIDE DEF step
<1>6. amd' = [v \in Windows |-> IF v = win THEN step.acc ELSE IF v \in stray THEN Quiet ELSE amd[v]]
  BY DEF TextHeard, step
<1>7. owner' = [o \in {"linked", "ack"} |-> own(o)]
  BY DEF TextHeard, step
<1>8. pending' = [v \in {"call", "resp"} |->
                       IF v = win /\ step.done # <<>> THEN Append(pending[v], step.done)
                       ELSE pending[v]]
  BY DEF TextHeard, step
<1>9. texts' = texts \o g1 \o g2
  BY DEF TextHeard, step
<1> HIDE DEF own, win
<1>10. amd \in [Windows -> Accs]
  BY DEF ReceptionTypeOK, Accs
<1>11. amd' \in [Windows -> Accs]
  BY <1>6, <1>2, <1>4, <1>10
<1>12. owner' \in [{"linked", "ack"} -> Anyone]
  BY <1>7, <1>5
<1>13. pending' \in [{"call", "resp"} -> Seq(Seq(Pieces))]
  <2>1. ASSUME NEW v \in {"call", "resp"}, v = win
        PROVE  Append(pending[v], step.done) \in Seq(Seq(Pieces))
    <3>1. pending[v] \in Seq(Seq(Pieces)) /\ v \in Windows
      BY DEF ReceptionTypeOK, Windows
    <3>2. QED BY <3>1, <1>2, <2>1
  <2>2. pending \in [{"call", "resp"} -> Seq(Seq(Pieces))]
    BY DEF ReceptionTypeOK
  <2>3. QED BY <1>8, <2>1, <2>2
<1>14. g1 \in Seq(Texts) /\ g2 \in Seq(Texts)
  <2>1. "linked" \in Windows /\ "ack" \in Windows
    BY DEF Windows
  <2>2. amd["linked"].acc \in Seq(Pieces) /\ amd["ack"].acc \in Seq(Pieces)
    BY <2>1, <1>10 DEF Accs
  <2>3. own("linked") \in Anyone /\ own("ack") \in Anyone
    BY <1>5
  <2>4. QED BY <2>1, <2>2, <2>3, <1>2, GivenType
<1> HIDE DEF g1, g2
<1>15. texts \in Seq(Texts)
  BY DEF ReceptionTypeOK, Texts
<1>16. texts' \in Seq(Texts)
  BY <1>9, <1>14, <1>15
<1>17. QED BY <1>11, <1>12, <1>13, <1>16

\* So does the closing of a window.
LEMMA ClosedType ==
  ASSUME ReceptionTypeOK, NEW v \in {"call", "resp"}, NEW peer \in Anyone, Closed(v, peer)
  PROVE  /\ (amd \in [Windows -> [on : BOOLEAN, acc : Seq(Pieces)]])'
         /\ (pending \in [{"call", "resp"} -> Seq(Seq(Pieces))])'
         /\ (owner \in [{"linked", "ack"} -> Anyone])'
         /\ (texts \in Seq([win : Windows, peer : Anyone, acc : Seq(Pieces)]))'
<1>1. Dispatched(v, peer) \in Seq(Texts)
  BY DispatchedType
<1>2. texts \in Seq(Texts)
  BY DEF ReceptionTypeOK, Texts
<1>3. texts' = texts \o Dispatched(v, peer)
  BY DEF Closed
<1>4. texts' \in Seq(Texts)
  BY <1>1, <1>2, <1>3
<1>5. Quiet \in [on : BOOLEAN, acc : Seq(Pieces)]
  BY DEF Quiet
<1>6. (amd \in [Windows -> [on : BOOLEAN, acc : Seq(Pieces)]])'
  BY <1>5 DEF Closed, ReceptionTypeOK
<1>7. <<>> \in Seq(Seq(Pieces))
  OBVIOUS
<1>8. (pending \in [{"call", "resp"} -> Seq(Seq(Pieces))])'
  BY <1>7 DEF Closed, ReceptionTypeOK
<1>9. QED BY <1>4, <1>6, <1>8 DEF Texts, Closed, ReceptionTypeOK

\* And so does a word for the measurements and qualities.
LEMMA QualityHeardType ==
  ASSUME ReceptionTypeOK, NEW by \in Stations, NEW w \in WordSet, QualityHeard(by, w)
  PROVE  /\ exchange' \in [held : Anyone, sent : BOOLEAN, target : Anyone]
         /\ quality' \in [call : SUBSET Stations, resp : SUBSET Stations]
<1>1. exchange' \in [held : Anyone, sent : BOOLEAN, target : Anyone]
  BY DEF QualityHeard, ReceptionTypeOK, Anyone
<1>2. quality.call \union {by} \in SUBSET Stations /\ quality.resp \union {by} \in SUBSET Stations
      /\ {by} \in SUBSET Stations
  BY DEF ReceptionTypeOK
<1>3. quality' \in [call : SUBSET Stations, resp : SUBSET Stations]
  BY <1>2 DEF QualityHeard, ReceptionTypeOK
<1>4. QED BY <1>1, <1>3

\* Every step keeps the types, as long as somebody speaks what is on the air.
LEMMA ReceptionTypeStep ==
  ASSUME ReceptionTypeOK, air.left # <<>> => air.by \in Stations, ReceptionNext
  PROVE  ReceptionTypeOK'
<1>0. Quiet \in [on : BOOLEAN, acc : Seq(Pieces)] /\ <<>> \in Seq(Seq(Pieces))
  BY DEF Quiet
<1>1. CASE SettleSounding
  BY <1>1 DEF SettleSounding, ReceptionTypeOK, SessionOK
<1>2. CASE SettleLinked
  <2>1. Given("linked", owner["linked"], amd["linked"].acc) \in Seq(Texts)
    <3>1. amd["linked"].acc \in Seq(Pieces) /\ owner["linked"] \in Anyone /\ "linked" \in Windows
      BY DEF ReceptionTypeOK, Windows
    <3>2. QED BY <3>1, GivenType
  <2>2. texts' \in Seq(Texts)
    BY <1>2, <2>1 DEF SettleLinked, ReceptionTypeOK, Texts
  <2>3. amd' \in [Windows -> [on : BOOLEAN, acc : Seq(Pieces)]]
    BY <1>2, <1>0 DEF SettleLinked, ReceptionTypeOK
  <2>4. owner' \in [{"linked", "ack"} -> Anyone]
    BY <1>2 DEF SettleLinked, ReceptionTypeOK, Anyone
  <2>5. QED BY <1>2, <2>2, <2>3, <2>4 DEF SettleLinked, ReceptionTypeOK, SessionOK, Texts
<1>3. CASE Send
  <2>1. air'.by \in Stations /\ air'.left \in Seq(WordSet) /\ air'.hit = FALSE
        /\ air' = [by |-> air'.by, left |-> air'.left, hit |-> FALSE]
    <3>1. PICK s \in Stations, b \in Bodies(frames + 1), t \in {"TIS", "TWAS"} :
             \/ air' = [by |-> s, left |-> Sounding(t), hit |-> FALSE]
             \/ air' = [by |-> s, left |-> FrameTo(b, t), hit |-> FALSE]
      BY <1>3 DEF Send
    <3>2. frames + 1 \in Nat
      BY DEF ReceptionTypeOK
    <3>3. Sounding(t) \in Seq(WordSet) /\ FrameTo(b, t) \in Seq(WordSet)
      BY <3>2, SentType
    <3>4. QED BY <3>1, <3>3
  <2>2. air' \in [by : Anyone, left : Seq([t : WordTypes, x : Int]), hit : BOOLEAN]
    <3> DEFINE q == air'.left
               z == air'.by
    <3>1. q \in Seq([t : WordTypes, x : Int]) /\ z \in Anyone /\ FALSE \in BOOLEAN
      BY <2>1 DEF WordSet, Anyone
    <3>2. air' = [by |-> z, left |-> q, hit |-> FALSE]
      BY <2>1
    <3> HIDE DEF q, z
    <3>3. QED BY <3>1, <3>2
  <2>3. QED BY <1>3, <2>2 DEF Send, ReceptionTypeOK, SessionOK
<1>4. CASE Silence
  BY <1>4 DEF Silence, ReceptionTypeOK, SessionOK
<1>5. CASE Received
  <2> DEFINE by == air.by
             w == Head(air.left)
  <2>1. by \in Stations /\ w \in WordSet /\ Tail(air.left) \in Seq(WordSet)
    BY <1>5, WordTaken DEF Received
  <2>2. air' \in [by : Anyone, left : Seq([t : WordTypes, x : Int]), hit : BOOLEAN]
    <3>1. Tail(air.left) \in Seq([t : WordTypes, x : Int])
      BY <2>1 DEF WordSet
    <3>2. QED BY <1>5, <3>1 DEF Received, ReceptionTypeOK
  <2> HIDE DEF by, w
  <2>3. w \in AnyWord
    BY <2>1 DEF WordSet, AnyWord
  <2>4. SessionOK(session)
    BY DEF ReceptionTypeOK
  <2>5. SoundingHeard(by, w) => SessionOK(session')
    BY <2>1, <2>3, <2>4, AfterWordType DEF SoundingHeard
  <2>6. frames' \in Nat
    BY <1>5 DEF Received, ReceptionTypeOK
  <2>7. CASE Called(by, w)
    <3>1. Given("linked", owner["linked"], amd["linked"].acc) \in Seq(Texts)
          /\ Given("ack", owner["ack"], amd["ack"].acc) \in Seq(Texts)
      <4>1. /\ amd["linked"].acc \in Seq(Pieces) /\ owner["linked"] \in Anyone /\ "linked" \in Windows
            /\ amd["ack"].acc \in Seq(Pieces) /\ owner["ack"] \in Anyone /\ "ack" \in Windows
        BY DEF ReceptionTypeOK, Windows
      <4>2. QED BY <4>1, GivenType
    <3>2. texts \in Seq(Texts)
      BY DEF ReceptionTypeOK, Texts
    <3>3. texts' \in Seq(Texts)
      BY <2>7, <3>1, <3>2 DEF Called
    <3>4. amd' \in [Windows -> [on : BOOLEAN, acc : Seq(Pieces)]]
      BY <2>7, <1>0 DEF Called, ReceptionTypeOK
    <3>5. pending' \in [{"call", "resp"} -> Seq(Seq(Pieces))]
      BY <2>7, <1>0 DEF Called, ReceptionTypeOK
    <3>6. sm' \in [st : Phases, to : Anyone, caller : Anyone, with : Anyone]
      BY <2>7, <2>1 DEF Called, ReceptionTypeOK, Phases, Anyone
    <3>7. exchange' \in [held : Anyone, sent : BOOLEAN, target : Anyone]
      BY <2>7 DEF Called, Reset, ReceptionTypeOK, Anyone
    <3>8. quality' \in [call : SUBSET Stations, resp : SUBSET Stations]
      BY <2>7 DEF Called, ReceptionTypeOK
    <3>9. owner' \in [{"linked", "ack"} -> Anyone]
      BY <2>7 DEF Called, ReceptionTypeOK
    <3>10. SessionOK(session)'
      BY <2>7, <2>5 DEF Called
    <3>11. QED BY <2>2, <2>6, <3>3, <3>4, <3>5, <3>6, <3>7, <3>8, <3>9, <3>10
               DEF ReceptionTypeOK, Texts
  <2>8. CASE /\ sm' = SmAfter(by, w)
             /\ SoundingHeard(by, w) /\ TextHeard(by, w) /\ QualityHeard(by, w)
    <3>1. sm' \in [st : Phases, to : Anyone, caller : Anyone, with : Anyone]
      BY <2>8, <2>1 DEF SmAfter, ReceptionTypeOK, Phases, Anyone
    <3>2. sm.st \in Phases
      BY DEF ReceptionTypeOK
    <3>3. /\ (amd \in [Windows -> Accs])'
          /\ (pending \in [{"call", "resp"} -> Seq(Seq(Pieces))])'
          /\ (owner \in [{"linked", "ack"} -> Anyone])'
          /\ (texts \in Seq(Texts))'
      BY <2>8, <2>1, <3>2, TextHeardType
    <3>4. /\ exchange' \in [held : Anyone, sent : BOOLEAN, target : Anyone]
          /\ quality' \in [call : SUBSET Stations, resp : SUBSET Stations]
      BY <2>8, <2>1, QualityHeardType
    <3>5. SessionOK(session)'
      BY <2>8, <2>5
    <3>6. QED BY <2>2, <2>6, <3>1, <3>3, <3>4, <3>5 DEF ReceptionTypeOK, Texts, Accs
  <2>9. QED BY <1>5, <2>7, <2>8 DEF Received, by, w
<1>6. CASE Lost
  <2>1. Tail(air.left) \in Seq([t : WordTypes, x : Int])
    BY <1>6, WordTaken DEF Lost, WordSet
  <2>2. air' \in [by : Anyone, left : Seq([t : WordTypes, x : Int]), hit : BOOLEAN]
    BY <1>6, <2>1 DEF Lost, ReceptionTypeOK
  <2>3. SessionOK(session)'
    <3>1. Word("BAD", 0) \in AnyWord /\ air.by \in Stations
      BY <1>6 DEF Word, AnyWord, Lost
    <3>2. SessionOK(session)
      BY DEF ReceptionTypeOK
    <3>3. SoundingHeard(air.by, Word("BAD", 0)) => SessionOK(session')
      BY <3>1, <3>2, AfterWordType DEF SoundingHeard
    <3>4. QED BY <1>6, <3>2, <3>3 DEF Lost
  <2>4. QED BY <1>6, <2>2, <2>3 DEF Lost, ReceptionTypeOK
<1>7. CASE \E s \in Stations : Call(s)
  <2>1. PICK s \in Stations : Call(s)
    BY <1>7
  <2>2. sm' \in [st : Phases, to : Anyone, caller : Anyone, with : Anyone]
    <3>1. "CALLING" \in Phases /\ Nobody \in Anyone /\ s \in Anyone
      BY DEF Phases, Anyone
    <3>2. [sm EXCEPT !.st = "CALLING", !.to = Nobody, !.with = s]
            \in [st : Phases, to : Anyone, caller : Anyone, with : Anyone]
      BY <3>1 DEF ReceptionTypeOK
    <3>3. sm' = sm \/ sm' = [sm EXCEPT !.st = "CALLING", !.to = Nobody, !.with = s]
      BY <2>1 DEF Call
    <3>4. QED BY <3>2, <3>3 DEF ReceptionTypeOK
  <2>3. amd' \in [Windows -> [on : BOOLEAN, acc : Seq(Pieces)]]
    <3>1. amd' = amd \/ amd' = [amd EXCEPT !["resp"] = Quiet]
      BY <2>1 DEF Call
    <3>2. amd \in [Windows -> [on : BOOLEAN, acc : Seq(Pieces)]]
      BY DEF ReceptionTypeOK
    <3>3. Quiet \in [on : BOOLEAN, acc : Seq(Pieces)]
      BY <1>0
    <3>4. QED BY <3>1, <3>2, <3>3
  <2>4. pending' \in [{"call", "resp"} -> Seq(Seq(Pieces))]
    <3>1. pending' = pending \/ pending' = [pending EXCEPT !["resp"] = <<>>]
      BY <2>1 DEF Call
    <3>2. pending \in [{"call", "resp"} -> Seq(Seq(Pieces))]
      BY DEF ReceptionTypeOK
    <3>3. <<>> \in Seq(Seq(Pieces))
      OBVIOUS
    <3>4. QED BY <3>1, <3>2, <3>3
  <2>5. quality' \in [call : SUBSET Stations, resp : SUBSET Stations]
    BY <2>1 DEF Call, ReceptionTypeOK
  <2>6. exchange' \in [held : Anyone, sent : BOOLEAN, target : Anyone]
    <3>1. TRUE \in BOOLEAN /\ s \in Anyone /\ Reset.held \in Anyone
      BY DEF Reset, Anyone, ReceptionTypeOK
    <3>2. EncodeOutgoing(s, TRUE) \in [held : Anyone, sent : BOOLEAN, target : Anyone]
      BY <3>1 DEF EncodeOutgoing, ReceptionTypeOK
    <3>3. [EncodeOutgoing(s, TRUE) EXCEPT !.held = Reset.held] \in [held : Anyone, sent : BOOLEAN, target : Anyone]
      BY <3>1, <3>2
    <3>4. QED BY <2>1, <3>2, <3>3 DEF Call
  <2>7. QED BY <2>1, <2>2, <2>3, <2>4, <2>5, <2>6 DEF Call, ReceptionTypeOK, SessionOK
<1>8. CASE Alert
  <2>1. sm' \in [st : Phases, to : Anyone, caller : Anyone, with : Anyone]
    BY <1>8 DEF Alert, ReceptionTypeOK, Phases
  <2>2. exchange' \in [held : Anyone, sent : BOOLEAN, target : Anyone]
    <3>1. FALSE \in BOOLEAN /\ Nobody \in Anyone
      BY DEF Anyone
    <3>2. EncodeOutgoing(sm.caller, FALSE) \in [held : Anyone, sent : BOOLEAN, target : Anyone]
      BY <3>1 DEF EncodeOutgoing, ReceptionTypeOK
    <3>3. QED BY <1>8, <3>1, <3>2 DEF Alert
  <2>3. quality' \in [call : SUBSET Stations, resp : SUBSET Stations]
    BY <1>8 DEF Alert, ReceptionTypeOK
  <2>4. QED BY <1>8, <2>1, <2>2, <2>3 DEF Alert, ReceptionTypeOK, SessionOK
<1>9. ASSUME NEW v \in {"call", "resp"}, NEW peer \in Anyone, Closed(v, peer),
             session' \in {session, NoSession},
             exchange' \in {exchange, CallConcluded(exchange), CallConcluded(Reset)},
             quality' \in {quality, [call |-> {}, resp |-> {}], [quality EXCEPT !.call = {}],
                           [quality EXCEPT !.resp = {}]},
             sm' \in [st : Phases, to : Anyone, caller : Anyone, with : Anyone],
             air' \in [by : Anyone, left : Seq([t : WordTypes, x : Int]), hit : BOOLEAN],
             UNCHANGED frames
      PROVE  ReceptionTypeOK'
  <2>1. /\ (amd \in [Windows -> [on : BOOLEAN, acc : Seq(Pieces)]])'
        /\ (pending \in [{"call", "resp"} -> Seq(Seq(Pieces))])'
        /\ (owner \in [{"linked", "ack"} -> Anyone])'
        /\ (texts \in Seq([win : Windows, peer : Anyone, acc : Seq(Pieces)]))'
    BY <1>9, ClosedType
  <2>2. SessionOK(session)'
    BY <1>9 DEF ReceptionTypeOK, SessionOK
  <2>3. exchange' \in [held : Anyone, sent : BOOLEAN, target : Anyone]
    <3>1. FALSE \in BOOLEAN /\ Nobody \in Anyone
      BY DEF Anyone
    <3>2. ASSUME NEW e \in [held : Anyone, sent : BOOLEAN, target : Anyone]
          PROVE  CallConcluded(e) \in [held : Anyone, sent : BOOLEAN, target : Anyone]
      BY <3>1 DEF CallConcluded
    <3>3. exchange \in [held : Anyone, sent : BOOLEAN, target : Anyone]
      BY DEF ReceptionTypeOK
    <3>4. Reset \in [held : Anyone, sent : BOOLEAN, target : Anyone]
      BY <3>1, <3>3 DEF Reset
    <3>5. CallConcluded(exchange) \in [held : Anyone, sent : BOOLEAN, target : Anyone]
          /\ CallConcluded(Reset) \in [held : Anyone, sent : BOOLEAN, target : Anyone]
      BY <3>2, <3>3, <3>4
    <3>6. QED BY <1>9, <3>3, <3>5, Zenon
  <2>4. quality' \in [call : SUBSET Stations, resp : SUBSET Stations]
    <3>1. quality \in [call : SUBSET Stations, resp : SUBSET Stations] /\ {} \in SUBSET Stations
      BY DEF ReceptionTypeOK
    <3>2. /\ [quality EXCEPT !.call = {}] \in [call : SUBSET Stations, resp : SUBSET Stations]
          /\ [quality EXCEPT !.resp = {}] \in [call : SUBSET Stations, resp : SUBSET Stations]
          /\ [call |-> {}, resp |-> {}] \in [call : SUBSET Stations, resp : SUBSET Stations]
      BY <3>1
    <3>3. QED BY <1>9, <3>1, <3>2, Zenon
  <2>5. frames' \in Nat
    BY <1>9 DEF ReceptionTypeOK
  <2>6. QED BY <1>9, <2>1, <2>2, <2>3, <2>4, <2>5 DEF ReceptionTypeOK
<1>10. ActivePeer \in Anyone /\ sm.caller \in Anyone
  BY DEF ReceptionTypeOK, ActivePeer
<1>11. CASE Linked
  <2>1. sm' \in [st : Phases, to : Anyone, caller : Anyone, with : Anyone]
    BY <1>11 DEF Linked, ReceptionTypeOK, Phases
  <2>2. Closed("resp", ActivePeer) \/ Closed("call", sm.caller)
    BY <1>11 DEF Linked
  <2>3. /\ session' \in {session, NoSession}
        /\ exchange' \in {exchange, CallConcluded(exchange), CallConcluded(Reset)}
        /\ quality' \in {quality, [call |-> {}, resp |-> {}], [quality EXCEPT !.call = {}],
                           [quality EXCEPT !.resp = {}]}
        /\ air' \in [by : Anyone, left : Seq([t : WordTypes, x : Int]), hit : BOOLEAN]
        /\ UNCHANGED frames
    BY <1>11 DEF Linked, ReceptionTypeOK
  <2>4. QED BY <2>1, <2>2, <2>3, <1>9, <1>10
<1>12. CASE GiveUp
  <2>1. sm' \in [st : Phases, to : Anyone, caller : Anyone, with : Anyone]
    BY <1>12 DEF GiveUp, ReceptionTypeOK, Phases, Anyone
  <2>2. Closed("resp", ActivePeer) \/ Closed("call", sm.caller)
    BY <1>12 DEF GiveUp
  <2>3. /\ session' \in {session, NoSession}
        /\ exchange' \in {exchange, CallConcluded(exchange), CallConcluded(Reset)}
        /\ quality' \in {quality, [call |-> {}, resp |-> {}], [quality EXCEPT !.call = {}],
                           [quality EXCEPT !.resp = {}]}
        /\ UNCHANGED frames
    BY <1>12 DEF GiveUp
  <2>4. air' \in [by : Anyone, left : Seq([t : WordTypes, x : Int]), hit : BOOLEAN]
    <3>1. <<>> \in Seq([t : WordTypes, x : Int])
      OBVIOUS
    <3>2. QED BY <1>12, <3>1 DEF GiveUp, ReceptionTypeOK
  <2>5. QED BY <2>1, <2>2, <2>3, <2>4, <1>9, <1>10
<1>13. CASE LinkEnds
  <2>1. sm' \in [st : Phases, to : Anyone, caller : Anyone, with : Anyone]
    BY <1>13 DEF LinkEnds, ReceptionTypeOK, Phases, Anyone
  <2>2. QED BY <1>13, <2>1 DEF LinkEnds, ReceptionTypeOK, SessionOK
<1>14. QED
  BY <1>1, <1>2, <1>3, <1>4, <1>5, <1>6, <1>7, <1>8, <1>11, <1>12, <1>13 DEF ReceptionNext

\* The rest of a frame has the shape of a frame.
LEMMA ShapeOfTail ==
  ASSUME ReceptionTypeOK, air.left # <<>>, AirShape
  PROVE  FrameShape(Tail(air.left), frames)
<1> DEFINE l == air.left
           q == Tail(air.left)
<1>1. /\ Len(l) \in Nat /\ Len(l) >= 1 /\ Len(q) = Len(l) - 1
      /\ \A i \in DOMAIN q : i + 1 \in DOMAIN l /\ q[i] = l[i + 1]
      /\ l \in Seq(WordSet) /\ q \in Seq(WordSet)
  BY WordTaken DEF ReceptionTypeOK, WordSet
<1>2. DOMAIN l = 1..Len(l) /\ DOMAIN q = 1..Len(q)
  BY <1>1
<1>3. FrameShape(l, frames)
  BY DEF AirShape
<1> HIDE DEF l, q
<1>4. ASSUME NEW i \in DOMAIN q
      PROVE  (q[i].t \in {"TIS", "TWAS"} => q[i].x = 0) /\ (q[i].t = "CMD" => q[i].x = -frames)
  BY <1>1, <1>3 DEF FrameShape
<1>5. ASSUME NEW i \in DOMAIN q, i > 1, q[i].t \in {"DATA", "REP"}
      PROVE  \/ q[i - 1].t = "CMD"
             \/ q[i - 1].t \in {"TIS", "TWAS", "DATA", "REP"} /\ q[i].x = q[i - 1].x + 1
  <2>1. i \in Nat /\ i - 1 \in DOMAIN q /\ (i - 1) + 1 = i /\ (i + 1) - 1 = i /\ i + 1 > 1
    BY <1>2, <1>1, <1>5
  <2>2. q[i] = l[i + 1] /\ i + 1 \in DOMAIN l /\ q[i - 1] = l[i]
    BY <2>1, <1>1
  <2>3. \/ l[(i + 1) - 1].t = "CMD"
        \/ l[(i + 1) - 1].t \in {"TIS", "TWAS", "DATA", "REP"} /\ l[i + 1].x = l[(i + 1) - 1].x + 1
    BY <1>3, <1>5, <2>1, <2>2 DEF FrameShape
  <2>4. QED BY <2>1, <2>2, <2>3
<1>6. ASSUME NEW i \in DOMAIN q, NEW j \in DOMAIN q, q[i].t = "CMD", q[j].t = "CMD"
      PROVE  i = j
  <2>1. i + 1 = j + 1
    BY <1>1, <1>3, <1>6 DEF FrameShape
  <2>2. QED BY <2>1, <1>1, <1>2
<1>7. QED BY <1>4, <1>5, <1>6 DEF FrameShape, q

\* A frame as it is sent has that shape, and begins with no extension word.
LEMMA FrameSentShape ==
  ASSUME NEW n \in Nat, NEW b \in Bodies(n), NEW t \in {"TIS", "TWAS"}
  PROVE  /\ FrameShape(Sounding(t), n) /\ FrameShape(FrameTo(b, t), n)
         /\ Sounding(t) # <<>> /\ Sounding(t)[1].t \notin {"DATA", "REP"}
         /\ FrameTo(b, t) # <<>> /\ FrameTo(b, t)[1].t \notin {"DATA", "REP"}
<1> DEFINE a == Address(t)
           s == Sounding(t)
           f == FrameTo(b, t)
           h == <<[t |-> "TO", x |-> 0]>> \o b
           m == Ext + 1
<1>0. Ext \in Nat /\ m \in Nat /\ m >= 2
  BY ReceptionAssumption
<1>1. /\ a \in Seq(WordSet) /\ Len(a) = m
      /\ a[1] = [t |-> t, x |-> 0]
      /\ \A i \in 2..m : a[i].t \in {"DATA", "REP"} /\ a[i].x = i - 1
  BY AddressFacts
<1> HIDE DEF a
<1>2. s = a \o a
  BY DEF Sounding, a
<1>3. /\ h \in Seq(WordSet) /\ Len(h) \in {1, 2, 3}
      /\ h[1] = [t |-> "TO", x |-> 0]
      /\ Len(h) = 2 => h[2] = [t |-> "LQA", x |-> 0]
      /\ Len(h) = 3 => h[2] = [t |-> "CMD", x |-> -n] /\ h[3] = [t |-> "DATA", x |-> -n]
  <2> DEFINE to == [t |-> "TO", x |-> 0]
             u == [t |-> "LQA", x |-> 0]
             v == [t |-> "CMD", x |-> -n]
             z == [t |-> "DATA", x |-> -n]
  <2>1. to \in WordSet /\ b \in Seq(WordSet)
    BY BodyFacts DEF WordSet, WordTypes
  <2>2. b = <<>> \/ b = <<u>> \/ b = <<v, z>>
    BY BodyFacts
  <2> HIDE DEF to, u, v, z
  <2>3. <<to>> \o b \in Seq(WordSet)
    BY <2>1
  <2>4. CASE b = <<>>
    <3>1. Len(<<to>> \o b) = 1 /\ (<<to>> \o b)[1] = to
      BY <2>1, <2>4
    <3>2. QED BY <2>3, <3>1 DEF to
  <2>5. CASE b = <<u>>
    <3>1. Len(<<to>> \o b) = 2 /\ (<<to>> \o b)[1] = to /\ (<<to>> \o b)[2] = u
      BY <2>1, <2>5
    <3>2. QED BY <2>3, <3>1 DEF to, u
  <2>6. CASE b = <<v, z>>
    <3>1. /\ Len(<<to>> \o b) = 3 /\ (<<to>> \o b)[1] = to
          /\ (<<to>> \o b)[2] = v /\ (<<to>> \o b)[3] = z
      BY <2>1, <2>6
    <3>2. QED BY <2>3, <3>1 DEF to, v, z
  <2>7. QED BY <2>2, <2>4, <2>5, <2>6
<1>4. f = h \o a
  <2>1. Word("TO", 0) = [t |-> "TO", x |-> 0]
    BY DEF Word
  <2>2. b \in Seq(WordSet) /\ <<[t |-> "TO", x |-> 0]>> \in Seq(WordSet)
    BY BodyFacts DEF WordSet, WordTypes
  <2>3. QED BY <2>1, <2>2, <1>1 DEF FrameTo, a
<1> HIDE DEF h, s, f
<1>5. s \in Seq(WordSet) /\ Len(s) = m + m
      /\ \A i \in 1..m : s[i] = a[i] /\ s[m + i] = a[i]
  <2>1. /\ s \in Seq(WordSet) /\ Len(s) = m + m
        /\ \A i \in 1..(m + m) : s[i] = IF i <= m THEN a[i] ELSE a[i - m]
    <3>1. /\ a \o a \in Seq(WordSet) /\ Len(a \o a) = Len(a) + Len(a)
          /\ \A i \in 1..(Len(a) + Len(a)) : (a \o a)[i] = IF i <= Len(a) THEN a[i] ELSE a[i - Len(a)]
      BY <1>1, ConcatProperties
    <3>2. QED BY <3>1, <1>1, <1>2
  <2>2. ASSUME NEW i \in 1..m PROVE s[i] = a[i] /\ s[m + i] = a[i]
    <3>1. /\ i \in 1..(m + m) /\ m + i \in 1..(m + m) /\ i <= m
          /\ ~(m + i <= m) /\ (m + i) - m = i
      BY <1>0
    <3>2. QED BY <3>1, <2>1
  <2>3. QED BY <2>1, <2>2
<1>6. f \in Seq(WordSet) /\ Len(f) = Len(h) + m
      /\ (\A i \in 1..Len(h) : f[i] = h[i]) /\ (\A i \in 1..m : f[Len(h) + i] = a[i])
  <2>0. Len(h) \in Nat
    BY <1>3
  <2>1. /\ f \in Seq(WordSet) /\ Len(f) = Len(h) + m
        /\ \A i \in 1..(Len(h) + m) : f[i] = IF i <= Len(h) THEN h[i] ELSE a[i - Len(h)]
    BY <1>1, <1>3, <1>4, ConcatProperties, SMTT(60)
  <2>2. ASSUME NEW i \in 1..m PROVE f[Len(h) + i] = a[i]
    <3>1. Len(h) + i \in 1..(Len(h) + m) /\ ~(Len(h) + i <= Len(h)) /\ (Len(h) + i) - Len(h) = i
      BY <1>0, <2>0
    <3>2. QED BY <3>1, <2>1
  <2>3. \A i \in 1..Len(h) : i \in 1..(Len(h) + m) /\ i <= Len(h)
    BY <1>0, <2>0
  <2>4. QED BY <2>1, <2>2, <2>3
<1>7. DOMAIN s = 1..(m + m) /\ DOMAIN f = 1..(Len(h) + m)
  BY <1>5, <1>6
<1>8. ASSUME NEW i \in 1..(m + m)
      PROVE  \/ i \in 1..m /\ s[i] = a[i]
             \/ i - m \in 1..m /\ s[i] = a[i - m]
  <2>1. CASE i <= m BY <2>1, <1>5, <1>0
  <2>2. CASE i > m
    <3>1. i - m \in 1..m /\ m + (i - m) = i BY <2>2, <1>0
    <3>2. QED BY <3>1, <1>5
  <2>3. QED BY <2>1, <2>2, <1>0
<1>9. ASSUME NEW i \in 1..(Len(h) + m)
      PROVE  \/ i \in 1..Len(h) /\ f[i] = h[i]
             \/ i - Len(h) \in 1..m /\ f[i] = a[i - Len(h)]
  <2>1. CASE i <= Len(h) BY <2>1, <1>6, <1>3, <1>0
  <2>2. CASE i > Len(h)
    <3>1. i - Len(h) \in 1..m /\ Len(h) + (i - Len(h)) = i BY <2>2, <1>0, <1>3
    <3>2. QED BY <3>1, <1>6
  <2>3. QED BY <2>1, <2>2, <1>0, <1>3
<1>10. \A i \in 1..m : /\ a[i].t \in {"TIS", "TWAS"} <=> i = 1
                       /\ a[i].t \in {"DATA", "REP"} <=> i # 1
                       /\ a[i].t # "CMD" /\ a[i].x = i - 1
  BY <1>1, <1>0
<1>11. FrameShape(s, n)
  <2>1. \A i \in DOMAIN s : /\ s[i].t \in {"TIS", "TWAS"} => s[i].x = 0
                            /\ s[i].t # "CMD"
    BY <1>7, <1>8, <1>10, <1>0
  <2>2. ASSUME NEW i \in DOMAIN s, i > 1, s[i].t \in {"DATA", "REP"}
        PROVE  s[i - 1].t \in {"TIS", "TWAS", "DATA", "REP"} /\ s[i].x = s[i - 1].x + 1
    <3>1. CASE i \in 1..m /\ s[i] = a[i]
      <4>1. i - 1 \in 1..m /\ s[i - 1] = a[i - 1]
        BY <2>2, <3>1, <1>5, <1>0
      <4>2. QED BY <4>1, <3>1, <1>10
    <3>2. CASE i - m \in 1..m /\ s[i] = a[i - m]
      <4>1. i - m # 1
        BY <3>2, <2>2, <1>10
      <4>2. (i - m) - 1 \in 1..m /\ m + ((i - m) - 1) = i - 1
        BY <4>1, <3>2, <1>0, <1>7
      <4>3. s[i - 1] = a[(i - m) - 1]
        BY <4>2, <1>5
      <4>4. s[i].x = (i - m) - 1 /\ s[i - 1].x = ((i - m) - 1) - 1
            /\ a[(i - m) - 1].t \in {"TIS", "TWAS", "DATA", "REP"}
        BY <3>2, <4>2, <4>3, <1>10
      <4>5. i \in Int
        BY <1>7, <1>0
      <4>6. QED BY <4>3, <4>4, <4>5, <1>0
    <3>3. QED BY <3>1, <3>2, <1>7, <1>8
  <2>3. QED BY <2>1, <2>2 DEF FrameShape
<1>12. FrameShape(f, n)
  <2>0. Len(h) \in Nat
    BY <1>3
  <2>1. ASSUME NEW i \in DOMAIN f
        PROVE  (f[i].t \in {"TIS", "TWAS"} => f[i].x = 0) /\ (f[i].t = "CMD" => f[i].x = -n)
    <3>1. CASE i \in 1..Len(h) /\ f[i] = h[i]
      BY <3>1, <1>3, SMTT(60)
    <3>2. CASE i - Len(h) \in 1..m /\ f[i] = a[i - Len(h)]
      BY <3>2, <1>10
    <3>3. QED BY <3>1, <3>2, <1>7, <1>9
  <2>2. ASSUME NEW i \in DOMAIN f, i > 1, f[i].t \in {"DATA", "REP"}
        PROVE  \/ f[i - 1].t = "CMD"
               \/ f[i - 1].t \in {"TIS", "TWAS", "DATA", "REP"} /\ f[i].x = f[i - 1].x + 1
    <3>1. CASE i \in 1..Len(h) /\ f[i] = h[i]
      <4>1. i = 3 /\ Len(h) = 3 /\ i - 1 = 2
        BY <3>1, <2>2, <1>3
      <4>2. f[2] = h[2]
        BY <4>1, <1>6
      <4>3. QED BY <4>1, <4>2, <1>3
    <3>2. CASE i - Len(h) \in 1..m /\ f[i] = a[i - Len(h)]
      <4>1. i - Len(h) # 1
        BY <3>2, <2>2, <1>10
      <4>2. (i - Len(h)) - 1 \in 1..m /\ Len(h) + ((i - Len(h)) - 1) = i - 1
        BY <4>1, <3>2, <1>0, <2>0, <1>7
      <4>3. f[i - 1] = a[(i - Len(h)) - 1]
        BY <4>2, <1>6
      <4>4. f[i].x = (i - Len(h)) - 1 /\ f[i - 1].x = ((i - Len(h)) - 1) - 1
            /\ a[(i - Len(h)) - 1].t \in {"TIS", "TWAS", "DATA", "REP"}
        BY <3>2, <4>2, <4>3, <1>10
      <4>5. i \in Int
        BY <1>7, <2>0, <1>0
      <4>6. QED BY <4>3, <4>4, <4>5, <2>0
    <3>3. QED BY <3>1, <3>2, <1>7, <1>9
  <2>3. ASSUME NEW i \in DOMAIN f, f[i].t = "CMD" PROVE i = 2
    <3>1. CASE i \in 1..Len(h) /\ f[i] = h[i]
      BY <3>1, <2>3, <1>3
    <3>2. CASE i - Len(h) \in 1..m /\ f[i] = a[i - Len(h)]
      BY <3>2, <2>3, <1>10
    <3>3. QED BY <3>1, <3>2, <1>7, <1>9
  <2>4. QED BY <2>1, <2>2, <2>3 DEF FrameShape
<1>13. s # <<>> /\ s[1].t \notin {"DATA", "REP"}
  BY <1>5, <1>1, <1>0
<1>14. f # <<>> /\ f[1].t \notin {"DATA", "REP"}
  BY <1>6, <1>3, <1>0
<1>15. QED BY <1>11, <1>12, <1>13, <1>14 DEF s, f


\* A word that belongs to the open slot is filed at its own place; any other one
\* closes the cycle or begins a new one.
LEMMA AfterWordFits ==
  ASSUME SessionOK(session), IdentityIsPrefix, NEW by \in Stations, NEW w \in AnyWord,
         session # NoSession /\ session[1].open /\ session[1].slot <= MaxExtSlots
           /\ w.t \in {"DATA", "REP"} => w.x = session[1].slot /\ by = session[1].anchor,
         NEW q, q = AfterWord(by, w)
  PROVE  /\ q # NoSession =>
              \A i \in 1..MaxExtSlots : q[1].votes[i] \subseteq {<<q[1].anchor, i>>}
         /\ q # NoSession /\ q[1].open /\ q[1].slot <= MaxExtSlots =>
              /\ q[1].anchor = by
              /\ \/ w.t \in {"TIS", "TWAS"} /\ q[1].slot = 1
                 \/ w.t \in {"DATA", "REP"} /\ q[1].slot = w.x + 1
<1> DEFINE s == session[1]
           S == [anchor : Stations, votes : [Slots -> SUBSET (Stations \X Int)],
                 slot : 1..(MaxExtSlots + 1), open : BOOLEAN]
<1>0. MaxExtSlots = 4 /\ Slots = 1..4
  BY DEF MaxExtSlots, Slots
<1>1. session # NoSession => session = <<s>> /\ s \in S
  BY DEF SessionOK
<1>2. CASE w.t \in {"TIS", "TWAS"}
  <2>1. q = Concluded(by)
    BY <1>2 DEF AfterWord
  <2>2. CASE session # NoSession /\ session[1].anchor = by
    <3> DEFINE r == [s EXCEPT !.slot = 1, !.open = TRUE]
    <3>1. s \in S
      BY <2>2, <1>1
    <3>2. r.anchor = by /\ r.slot = 1 /\ r.votes = s.votes
      BY <3>1, <2>2
    <3>3. q = <<r>>
      BY <2>1, <2>2 DEF Concluded
    <3>4. \A i \in 1..MaxExtSlots : s.votes[i] \subseteq {<<by, i>>}
      BY <2>2 DEF IdentityIsPrefix
    <3> HIDE DEF r
    <3>5. QED BY <3>2, <3>3, <3>4, <1>2
  <2>3. CASE ~(session # NoSession /\ session[1].anchor = by)
    <3> DEFINE r == [anchor |-> by, votes |-> [i \in 1..MaxExtSlots |-> {}], slot |-> 1, open |-> TRUE]
    <3>1. q = <<r>>
      BY <2>1, <2>3 DEF Concluded, Opened
    <3>2. r.anchor = by /\ r.slot = 1 /\ r.votes = [i \in 1..MaxExtSlots |-> {}]
      OBVIOUS
    <3> HIDE DEF r
    <3>3. QED BY <3>1, <3>2, <1>2, <1>0
  <2>4. QED BY <2>2, <2>3
<1>3. CASE w.t \notin {"TIS", "TWAS"} /\ session = NoSession
  BY <1>3 DEF AfterWord
<1>4. CASE w.t \notin {"TIS", "TWAS"} /\ session # NoSession
  <2>0. s \in S /\ session = <<s>>
    BY <1>4, <1>1
  <2>1. q = Filed(by, w, <<[session[1] EXCEPT !.open = FALSE]>>)
    BY <1>4 DEF AfterWord
  <2>2. \A i \in 1..MaxExtSlots : s.votes[i] \subseteq {<<s.anchor, i>>}
    BY <1>4 DEF IdentityIsPrefix
  <2>3. CASE ~s.open \/ s.slot > MaxExtSlots
    <3>1. q = session
      BY <2>1, <2>3 DEF Filed
    <3>2. ~(s.open /\ s.slot <= MaxExtSlots)
      BY <2>3, <2>0, <1>0
    <3>3. QED BY <3>1, <3>2, <2>2
  <2>4. CASE s.open /\ s.slot <= MaxExtSlots /\ w.t = ExpectedType(s.slot)
    <3> DEFINE r == [s EXCEPT !.votes[s.slot] = @ \union {<<by, w.x>>}, !.slot = @ + 1]
    <3>1. ~(~s.open \/ s.slot > MaxExtSlots)
      BY <2>4, <2>0, <1>0
    <3>2. q = <<r>>
      BY <3>1, <2>4, <2>1, Zenon DEF Filed
    <3>3. w.t \in {"DATA", "REP"}
      BY <2>4 DEF ExpectedType
    <3>4. w.x = s.slot /\ by = s.anchor
      BY <3>3, <2>4, <1>4
    <3>5. s.slot \in 1..MaxExtSlots
      BY <2>0, <2>4, <1>0
    <3>6. r.anchor = by /\ r.slot = w.x + 1
      BY <2>0, <3>4
    <3>7. r.votes = [s.votes EXCEPT ![s.slot] = @ \union {<<by, w.x>>}]
      BY <2>0
    <3>8. s.votes \in [1..MaxExtSlots -> SUBSET (Stations \X Int)]
      BY <2>0, <1>0
    <3> HIDE DEF r, s
    <3>9. ASSUME NEW i \in 1..MaxExtSlots PROVE r.votes[i] \subseteq {<<by, i>>}
      BY <3>4, <3>5, <3>7, <3>8, <2>2
    <3>10. QED BY <3>2, <3>3, <3>6, <3>9
  <2>5. CASE s.open /\ s.slot <= MaxExtSlots /\ w.t # ExpectedType(s.slot)
    <3> DEFINE r == [s EXCEPT !.open = FALSE]
    <3>1. ~(~s.open \/ s.slot > MaxExtSlots)
      BY <2>5, <2>0, <1>0
    <3>2. q = <<r>>
      BY <3>1, <2>5, <2>1, Zenon DEF Filed
    <3>3. r.votes = s.votes /\ r.anchor = s.anchor /\ ~r.open
      BY <2>0
    <3> HIDE DEF r, s
    <3>4. QED BY <3>2, <3>3, <2>2
  <2>6. s.open \in BOOLEAN /\ s.slot \in Int
    BY <2>0, <1>0
  <2>7. s.slot <= MaxExtSlots \/ s.slot > MaxExtSlots
    BY <2>6, <1>0
  <2>8. QED BY <2>3, <2>4, <2>5, <2>6, <2>7
<1>5. QED BY <1>2, <1>3, <1>4

\* Every step keeps the partner apart from the other stations.
LEMMA PartnerStep ==
  ASSUME ReceptionTypeOK, Partnered, ReceptionNext
  PROVE  Partnered'
<1>0. sm \in [st : Phases, to : Anyone, caller : Anyone, with : Anyone] /\ Nobody \notin Stations
      /\ air \in [by : Anyone, left : Seq([t : WordTypes, x : Int]), hit : BOOLEAN]
  BY ReceptionAssumption DEF ReceptionTypeOK
<1>1. CASE SettleSounding \/ SettleLinked \/ Silence
  BY <1>1 DEF SettleSounding, SettleLinked, Silence, Partnered
<1>2. CASE Send
  BY <1>0, <1>2 DEF Send, Partnered
<1>3. CASE Received
  <2> DEFINE by == air.by
             w == Head(air.left)
  <2>1. by \in Stations /\ (sm.with # Nobody => by = sm.with)
    BY <1>3 DEF Received, Partnered
  <2>2. air'.by = by
    BY <1>3, <1>0 DEF Received
  <2> HIDE DEF by, w
  <2>3. CASE Called(by, w)
    <3>1. sm' = [sm EXCEPT !.st = "HANDSHAKE", !.caller = Nobody, !.with = by]
      BY <2>3 DEF Called
    <3>2. sm'.st = "HANDSHAKE" /\ sm'.caller = Nobody /\ sm'.with = by
      BY <3>1, <1>0
    <3>3. QED BY <2>1, <2>2, <3>2, <1>0 DEF Partnered
  <2>4. CASE sm' = SmAfter(by, w)
    <3>1. sm'.st = sm.st /\ sm'.with = sm.with
      BY <2>4, <1>0 DEF SmAfter
    <3>2. sm.st = "HANDSHAKE" => sm'.caller \in {sm.caller, by}
      BY <2>4, <1>0 DEF SmAfter
    <3>3. sm.st = "CALLING" => sm'.to \in {sm.to, by}
      BY <2>4, <1>0 DEF SmAfter
    <3>4. sm.st = "WAIT_ACK" => sm'.caller = sm.caller
      BY <2>4, <1>0 DEF SmAfter
    <3>5. QED BY <2>1, <2>2, <3>1, <3>2, <3>3, <3>4 DEF Partnered
  <2>5. QED BY <1>3, <2>3, <2>4 DEF Received, by, w
<1>4. CASE Lost
  <2>1. air'.by = air.by /\ air.left # <<>> /\ UNCHANGED sm
    BY <1>4, <1>0 DEF Lost
  <2>2. QED BY <2>1 DEF Partnered
<1>5. CASE \E s \in Stations : Call(s)
  <2>1. PICK s \in Stations : Call(s)
    BY <1>5
  <2>2. air' = air /\ air.left = <<>>
    BY <2>1 DEF Call, FrameOver
  <2>3. \/ sm' = sm
        \/ sm'.st = "CALLING" /\ sm'.to = Nobody /\ sm'.with = s
    <3>1. sm' = sm \/ sm' = [sm EXCEPT !.st = "CALLING", !.to = Nobody, !.with = s]
      BY <2>1 DEF Call
    <3>2. QED BY <3>1, <1>0
  <2>4. QED BY <2>2, <2>3, <1>0 DEF Partnered
<1>6. CASE Alert
  <2>1. sm'.st = "WAIT_ACK" /\ sm'.with = sm.with /\ sm'.caller = sm.caller
    BY <1>6, <1>0 DEF Alert
  <2>2. air' = air /\ sm.st = "HANDSHAKE" /\ sm.caller # Nobody
    BY <1>6 DEF Alert
  <2>3. QED BY <2>1, <2>2 DEF Partnered
<1>7. CASE Linked
  <2>1. sm'.st = "LINKED" /\ sm'.with = sm.with
    BY <1>7, <1>0 DEF Linked
  <2>2. air' = air /\ sm.st \in {"WAIT_ACK", "CALLING"}
    BY <1>7 DEF Linked
  <2>3. QED BY <2>1, <2>2 DEF Partnered
<1>8. CASE GiveUp \/ LinkEnds
  <2>1. sm'.st = "SCANNING" /\ sm'.with = Nobody /\ air'.left = <<>>
    BY <1>8, <1>0 DEF GiveUp, LinkEnds, FrameOver
  <2>2. QED BY <2>1 DEF Partnered
<1>9. QED BY <1>1, <1>2, <1>3, <1>4, <1>5, <1>6, <1>7, <1>8 DEF ReceptionNext

\* The invariant of the sounding session.
SessionInv == IdentityIsPrefix /\ NextFits /\ AirShape

\* Every step keeps it when every loss is noticed.
LEMMA SessionStep ==
  ASSUME ~Missed, ReceptionTypeOK, Partnered, SessionInv, ReceptionNext
  PROVE  SessionInv'
<1>0. sm \in [st : Phases, to : Anyone, caller : Anyone, with : Anyone]
      /\ air \in [by : Anyone, left : Seq([t : WordTypes, x : Int]), hit : BOOLEAN]
      /\ SessionOK(session) /\ frames \in Nat
  BY DEF ReceptionTypeOK
<1>1. ASSUME air' = air, frames' = frames, session' \in {session, NoSession},
             sm'.st = "SCANNING" => sm.st = "SCANNING" \/ air.left = <<>>
      PROVE  SessionInv'
  BY <1>1 DEF SessionInv, IdentityIsPrefix, NextFits, AirShape
<1>2. CASE SettleSounding \/ SettleLinked \/ Silence
  BY <1>1, <1>2 DEF SettleSounding, SettleLinked, Silence
<1>3. CASE Send
  <2>1. frames + 1 \in Nat /\ frames' = frames + 1
    BY <1>0, <1>3 DEF Send
  <2>2. /\ air'.left # <<>> /\ air'.left[1].t \notin {"DATA", "REP"}
        /\ FrameShape(air'.left, frames + 1)
    <3>1. PICK s \in Stations, b \in Bodies(frames + 1), t \in {"TIS", "TWAS"} :
             \/ air' = [by |-> s, left |-> Sounding(t), hit |-> FALSE]
             \/ air' = [by |-> s, left |-> FrameTo(b, t), hit |-> FALSE]
      BY <1>3 DEF Send
    <3>2. air'.left = Sounding(t) \/ air'.left = FrameTo(b, t)
      BY <3>1
    <3>3. QED BY <3>2, <2>1, FrameSentShape
  <2>3. session' = session
    BY <1>3 DEF Send
  <2>4. QED BY <2>1, <2>2, <2>3 DEF SessionInv, IdentityIsPrefix, NextFits, AirShape
<1>4. ASSUME NEW w \in AnyWord, air.left # <<>>, air'.by = air.by, air'.left = Tail(air.left),
             w = air.left[1] \/ w.t = "BAD",
             sm.st = "SCANNING", session' = AfterWord(air.by, w), frames' = frames
      PROVE  SessionInv'
  <2>1. /\ Len(air.left) \in Nat /\ Len(Tail(air.left)) = Len(air.left) - 1
        /\ Tail(air.left) \in Seq(WordSet) /\ air.left \in Seq(WordSet)
        /\ \A i \in DOMAIN Tail(air.left) : i + 1 \in DOMAIN air.left /\ Tail(air.left)[i] = air.left[i + 1]
    BY <1>4, WordTaken DEF ReceptionTypeOK, WordSet
  <2>2. FrameShape(Tail(air.left), frames)
    BY <1>4, ShapeOfTail DEF SessionInv
  <2>3. air.by \in Stations
    BY <1>4 DEF Partnered
  <2>4. session # NoSession /\ session[1].open /\ session[1].slot <= MaxExtSlots
           /\ w.t \in {"DATA", "REP"} => w.x = session[1].slot /\ air.by = session[1].anchor
    BY <1>4 DEF SessionInv, NextFits
  <2>5. /\ session' # NoSession =>
              \A i \in 1..MaxExtSlots : session'[1].votes[i] \subseteq {<<session'[1].anchor, i>>}
        /\ session' # NoSession /\ session'[1].open /\ session'[1].slot <= MaxExtSlots =>
              /\ session'[1].anchor = air.by
              /\ \/ w.t \in {"TIS", "TWAS"} /\ session'[1].slot = 1
                 \/ w.t \in {"DATA", "REP"} /\ session'[1].slot = w.x + 1
    BY <1>0, <1>4, <2>3, <2>4, AfterWordFits DEF SessionInv
  <2>6. IdentityIsPrefix'
    BY <2>5 DEF IdentityIsPrefix, MaxExtSlots
  <2>7. AirShape'
    BY <2>2, <1>4 DEF AirShape
  <2>8. ASSUME session' # NoSession, session'[1].open, session'[1].slot <= MaxExtSlots,
               air'.left # <<>>, air'.left[1].t \in {"DATA", "REP"}
        PROVE  air'.left[1].x = session'[1].slot /\ air'.by = session'[1].anchor
    <3>1. w.t \in {"TIS", "TWAS", "DATA", "REP"} /\ w = air.left[1]
      BY <2>5, <2>8, <1>4
    <3>2. 2 \in DOMAIN air.left /\ air'.left[1] = air.left[2] /\ 1 \in DOMAIN air.left
      <4>1. Len(Tail(air.left)) >= 1
        BY <2>1, <2>8, <1>4
      <4>2. 1 \in DOMAIN Tail(air.left)
        BY <2>1, <4>1
      <4>3. QED BY <2>1, <4>2, <1>4
    <3>3. FrameShape(air.left, frames)
      BY DEF SessionInv, AirShape
    <3>4. \/ air.left[2 - 1].t = "CMD"
          \/ air.left[2 - 1].t \in {"TIS", "TWAS", "DATA", "REP"}
             /\ air.left[2].x = air.left[2 - 1].x + 1
      BY <3>2, <3>3, <2>8 DEF FrameShape
    <3>5. air.left[2].x = w.x + 1
      BY <3>1, <3>4
    <3>6. w.t \in {"TIS", "TWAS"} => w.x = 0
      BY <3>1, <3>2, <3>3 DEF FrameShape
    <3>7. QED BY <3>2, <3>5, <3>6, <2>5, <2>8, <1>4
  <2>9. QED BY <2>6, <2>7, <2>8 DEF SessionInv, NextFits
<1>5. ASSUME air.left # <<>>, air'.left = Tail(air.left), sm'.st # "SCANNING",
             session' = session, frames' = frames
      PROVE  SessionInv'
  <2>1. FrameShape(Tail(air.left), frames)
    BY <1>5, ShapeOfTail DEF SessionInv
  <2>2. QED BY <2>1, <1>5 DEF SessionInv, IdentityIsPrefix, NextFits, AirShape
<1>6. CASE Received
  <2> DEFINE by == air.by
             w == Head(air.left)
  <2>1. /\ air.left # <<>> /\ air'.by = air.by /\ air'.left = Tail(air.left) /\ frames' = frames
        /\ SoundingHeard(by, w)
    BY <1>6, <1>0 DEF Received, Called
  <2>2. w \in AnyWord /\ w = air.left[1]
    BY <2>1, WordTaken DEF WordSet, AnyWord
  <2>3. CASE sm.st = "SCANNING"
    <3>1. session' = AfterWord(by, w)
      BY <2>1, <2>3 DEF SoundingHeard
    <3>2. QED BY <1>4, <2>1, <2>2, <2>3, <3>1
  <2>4. CASE sm.st # "SCANNING"
    <3>1. session' = session
      BY <2>1, <2>4 DEF SoundingHeard
    <3>2. sm' = SmAfter(by, w)
      BY <1>6, <2>4 DEF Received, Called
    <3>3. sm'.st = sm.st
      BY <3>2, <1>0 DEF SmAfter
    <3>4. QED BY <1>5, <2>1, <2>4, <3>1, <3>3
  <2>5. QED BY <2>3, <2>4
<1>7. CASE Lost
  <2>1. air.left # <<>> /\ air'.by = air.by /\ air'.left = Tail(air.left) /\ frames' = frames
        /\ UNCHANGED sm
    BY <1>7, <1>0 DEF Lost
  <2>2. CASE sm.st = "SCANNING"
    <3>1. Word("BAD", 0) \in AnyWord /\ Word("BAD", 0).t = "BAD"
      BY DEF Word, AnyWord
    <3>2. SoundingHeard(air.by, Word("BAD", 0))
      BY <1>7, <2>2 DEF Lost
    <3>3. session' = AfterWord(air.by, Word("BAD", 0))
      BY <2>2, <3>2 DEF SoundingHeard
    <3>4. QED BY <1>4, <2>1, <2>2, <3>1, <3>3
  <2>3. CASE sm.st # "SCANNING"
    <3>1. session' = session
      BY <1>7, <2>3 DEF Lost
    <3>2. QED BY <1>5, <2>1, <2>3, <3>1
  <2>4. QED BY <2>2, <2>3
<1>8. CASE \E s \in Stations : Call(s)
  BY <1>1, <1>8 DEF Call, FrameOver
<1>9. CASE Alert
  <2>1. sm'.st = "WAIT_ACK"
    BY <1>9, <1>0 DEF Alert
  <2>2. QED BY <1>1, <1>9, <2>1 DEF Alert
<1>10. CASE Linked
  <2>1. sm'.st = "LINKED" /\ air' = air /\ frames' = frames /\ session' = NoSession
    BY <1>10, <1>0 DEF Linked
  <2>2. QED BY <1>1, <2>1
<1>11. CASE GiveUp
  <2>1. air'.left = <<>> /\ frames' = frames /\ session' \in {session, NoSession}
    BY <1>11, <1>0 DEF GiveUp
  <2>2. QED BY <2>1 DEF SessionInv, IdentityIsPrefix, NextFits, AirShape, FrameShape
<1>12. CASE LinkEnds
  BY <1>1, <1>12 DEF LinkEnds, FrameOver
<1>13. QED BY <1>2, <1>3, <1>6, <1>7, <1>8, <1>9, <1>10, <1>11, <1>12 DEF ReceptionNext

\* The identity a sounding is filed under is the beginning of the address of the station
\* that sounded, for any stations, length of address and number of frames, as long as
\* every word that is not received is noticed (SoundingIdentityAccumulator::on_word).
THEOREM IdentityHolds ==
  ASSUME ~Missed PROVE ReceptionSpec => []IdentityIsPrefix
<1> DEFINE I == ReceptionTypeOK /\ Partnered /\ SessionInv
<1>1. ReceptionInit => I
  <2> SUFFICES ASSUME ReceptionInit PROVE I
    OBVIOUS
  <2>1. ReceptionTypeOK
    BY ReceptionTypeInit
  <2>2. Partnered
    BY DEF ReceptionInit, Partnered
  <2>3. SessionInv
    BY DEF ReceptionInit, SessionInv, IdentityIsPrefix, NextFits, AirShape, FrameShape, NoSession
  <2>4. QED BY <2>1, <2>2, <2>3
<1>2. I /\ [ReceptionNext]_mvars => I'
  <2> SUFFICES ASSUME I, [ReceptionNext]_mvars PROVE I'
    OBVIOUS
  <2>1. CASE ReceptionNext
    <3>1. ReceptionTypeOK'
      BY <2>1, ReceptionTypeStep DEF Partnered
    <3>2. QED BY <2>1, <3>1, PartnerStep, SessionStep
  <2>2. CASE UNCHANGED mvars
    BY <2>2 DEF mvars, ReceptionTypeOK, Partnered, SessionInv, IdentityIsPrefix, NextFits,
                AirShape, SessionOK
  <2>3. QED BY <2>1, <2>2
<1>3. I => IdentityIsPrefix
  BY DEF SessionInv
<1>4. QED BY <1>1, <1>2, <1>3, PTL DEF ReceptionSpec

\* The invariant of the credits.
CreditInv == Measured /\ CreditedToSpeaker

\* Every step keeps it.
LEMMA CreditStep ==
  ASSUME ReceptionTypeOK, Partnered, CreditInv, ReceptionNext
  PROVE  CreditInv'
<1>0. sm \in [st : Phases, to : Anyone, caller : Anyone, with : Anyone] /\ Nobody \notin Stations
      /\ exchange \in [held : Anyone, sent : BOOLEAN, target : Anyone]
      /\ quality \in [call : SUBSET Stations, resp : SUBSET Stations]
  BY ReceptionAssumption DEF ReceptionTypeOK
<1>1. ASSUME UNCHANGED <<sm, exchange, quality, credits>>
      PROVE  CreditInv'
  BY <1>1 DEF CreditInv, Measured, CreditedToSpeaker
<1>2. CASE SettleSounding \/ SettleLinked \/ Silence \/ Send \/ Lost
  BY <1>1, <1>2 DEF SettleSounding, SettleLinked, Silence, Send, Lost
<1>3. CASE Received
  <2> DEFINE by == air.by
             w == Head(air.left)
  <2>1. by \in Stations /\ (sm.with # Nobody => by = sm.with)
    BY <1>3 DEF Received, Partnered
  <2> HIDE DEF by, w
  <2>3. CASE Called(by, w)
    <3>1. sm' = [sm EXCEPT !.st = "HANDSHAKE", !.caller = Nobody, !.with = by]
      BY <2>3 DEF Called
    <3>2. sm'.st = "HANDSHAKE" /\ sm'.with = by /\ sm'.to = sm.to
      BY <3>1, <1>0
    <3>3. exchange'.held = Nobody /\ quality'.call = {} /\ quality'.resp = quality.resp
      BY <2>3, <1>0 DEF Called, Reset
    <3>4. credits' = credits
      BY <2>3 DEF Called
    <3>5. QED BY <3>2, <3>3, <3>4 DEF CreditInv, Measured, CreditedToSpeaker
  <2>4. CASE sm' = SmAfter(by, w) /\ QualityHeard(by, w) /\ UNCHANGED credits
    <3>1. sm'.st = sm.st /\ sm'.with = sm.with
          /\ sm'.to = IF sm.st = "CALLING" /\ w.t \in {"TIS", "TWAS"} THEN by ELSE sm.to
      BY <2>4, <1>0 DEF SmAfter
    <3>2. exchange'.held \in {exchange.held, by}
          /\ (sm.st = "WAIT_ACK" => exchange'.held = exchange.held)
      BY <2>4, <1>0 DEF QualityHeard
    <3>3. /\ sm.st = "HANDSHAKE" => quality'.call = quality.call \union {by} /\ quality'.resp = quality.resp
          /\ sm.st = "CALLING" => quality'.resp \subseteq quality.resp \union {by}
                                  /\ quality'.call = quality.call
          /\ sm.st \notin {"HANDSHAKE", "CALLING"} => quality' = quality
      BY <2>4, <1>0 DEF QualityHeard
    <3>4. sm.st # "SCANNING" => by = sm.with
      BY <2>1 DEF Partnered
    <3>5. sm.st = "CALLING" => sm.to \in {Nobody, sm.with}
      BY DEF Partnered
    <3>6. Measured'
      <4>1. sm'.st \in {"HANDSHAKE", "CALLING"} => exchange'.held \in {Nobody, sm'.with}
        BY <3>1, <3>2, <3>4 DEF CreditInv, Measured
      <4>2. sm'.st = "WAIT_ACK" => exchange'.held = Nobody
        BY <3>1, <3>2 DEF CreditInv, Measured
      <4>3. sm'.st \in {"HANDSHAKE", "WAIT_ACK"} => quality'.call \subseteq {sm'.with}
        BY <3>1, <3>3, <3>4 DEF CreditInv, Measured
      <4>4. sm'.st = "CALLING" => quality'.resp \subseteq {sm'.with}
        BY <3>1, <3>3, <3>4 DEF CreditInv, Measured
      <4>5. sm'.to # Nobody => quality'.resp \subseteq {sm'.to}
        <5>1. CASE sm.st = "CALLING"
          BY <5>1, <4>4, <3>1, <3>4, <3>5
        <5>2. CASE sm.st # "CALLING"
          <6>1. quality'.resp = quality.resp /\ sm'.to = sm.to
            BY <5>2, <3>1, <3>3
          <6>2. QED BY <6>1 DEF CreditInv, Measured
        <5>3. QED BY <5>1, <5>2
      <4>6. QED BY <4>1, <4>2, <4>3, <4>4, <4>5 DEF Measured
    <3>7. QED BY <2>4, <3>6 DEF CreditInv, CreditedToSpeaker
  <2>5. QED BY <1>3, <2>3, <2>4 DEF Received, by, w
<1>4. CASE \E s \in Stations : Call(s)
  <2>1. PICK s \in Stations : Call(s)
    BY <1>4
  <2>2. CASE sm.st = "SCANNING"
    <3>1. sm' = [sm EXCEPT !.st = "CALLING", !.to = Nobody, !.with = s]
          /\ quality' = [quality EXCEPT !.resp = {}]
          /\ exchange' = [EncodeOutgoing(s, TRUE) EXCEPT !.held = Reset.held]
          /\ credits' = credits
      BY <2>1, <2>2 DEF Call
    <3>2. sm'.st = "CALLING" /\ sm'.to = Nobody /\ quality'.resp = {}
      BY <3>1, <1>0
    <3>3. exchange'.held = Nobody
      <4>1. Reset.held = Nobody
        BY <1>0 DEF Reset
      <4>2. EncodeOutgoing(s, TRUE) = [exchange EXCEPT !.sent = TRUE, !.target = s]
        BY DEF EncodeOutgoing
      <4>3. DOMAIN exchange = {"held", "sent", "target"}
        BY <1>0
      <4>4. QED BY <3>1, <4>1, <4>2, <4>3
    <3>4. QED BY <3>1, <3>2, <3>3 DEF CreditInv, Measured, CreditedToSpeaker
  <2>3. CASE sm.st # "SCANNING"
    <3>1. UNCHANGED <<sm, quality, credits>> /\ exchange' = [exchange EXCEPT !.sent = TRUE, !.target = s]
      BY <2>1, <2>3 DEF Call, EncodeOutgoing
    <3>2. exchange'.held = exchange.held
      BY <3>1, <1>0
    <3>3. QED BY <3>1, <3>2 DEF CreditInv, Measured, CreditedToSpeaker
  <2>4. QED BY <2>2, <2>3
<1>5. CASE Alert
  <2>1. sm.st = "HANDSHAKE" /\ sm.caller # Nobody
    BY <1>5 DEF Alert
  <2>2. sm.caller = sm.with
    BY <2>1 DEF Partnered
  <2>3. quality.call \subseteq {sm.with} /\ exchange.held \in {Nobody, sm.with}
    BY <2>1 DEF CreditInv, Measured
  <2>4. \A c \in Credit(sm.caller, quality.call) \union Applied(exchange, sm.caller) : c[1] = c[2]
    BY <2>2, <2>3 DEF Credit, Applied
  <2>5. CreditedToSpeaker'
    <3>1. credits' = credits \union Credit(sm.caller, quality.call) \union Applied(exchange, sm.caller)
      BY <1>5 DEF Alert
    <3>2. QED BY <2>4, <3>1 DEF CreditInv, CreditedToSpeaker
  <2>6. sm'.st = "WAIT_ACK" /\ sm'.to = sm.to
    BY <1>5, <1>0 DEF Alert
  <2>7. quality'.call = {} /\ quality'.resp = quality.resp
    BY <1>5, <1>0 DEF Alert
  <2>8. exchange'.held = Nobody
    <3>1. EncodeOutgoing(sm.caller, FALSE) = [exchange EXCEPT !.sent = FALSE, !.target = Nobody]
      BY DEF EncodeOutgoing
    <3>2. exchange' = [EncodeOutgoing(sm.caller, FALSE) EXCEPT !.held = Nobody]
      BY <1>5 DEF Alert
    <3>3. DOMAIN exchange = {"held", "sent", "target"}
      BY <1>0
    <3>4. QED BY <3>1, <3>2, <3>3
  <2>9. QED BY <2>5, <2>6, <2>7, <2>8 DEF CreditInv, Measured
<1>6. CASE Linked
  <2>1. sm.st \in {"WAIT_ACK", "CALLING"} /\ (sm.st = "CALLING" => sm.to # Nobody)
    BY <1>6 DEF Linked
  <2>2. credits' = credits \union Credit(sm.to, quality.resp) \union Applied(exchange, sm.to)
        /\ quality' = [call |-> {}, resp |-> {}]
    BY <1>6 DEF Linked
  <2>3. sm'.st = "LINKED"
    BY <1>6, <1>0 DEF Linked
  <2>4. \A c \in Credit(sm.to, quality.resp) : c[1] = c[2]
    BY DEF Credit, CreditInv, Measured
  <2>5. \A c \in Applied(exchange, sm.to) : c[1] = c[2]
    <3>1. CASE sm.st = "WAIT_ACK"
      BY <3>1 DEF Applied, CreditInv, Measured
    <3>2. CASE sm.st = "CALLING"
      <4>1. sm.to = sm.with /\ exchange.held \in {Nobody, sm.with}
        BY <3>2, <2>1 DEF CreditInv, Measured, Partnered
      <4>2. QED BY <4>1 DEF Applied
    <3>3. QED BY <3>1, <3>2, <2>1
  <2>6. CreditedToSpeaker'
    BY <2>2, <2>4, <2>5 DEF CreditInv, CreditedToSpeaker
  <2>7. Measured'
    BY <2>2, <2>3 DEF Measured
  <2>8. QED BY <2>6, <2>7 DEF CreditInv
<1>7. CASE GiveUp
  <2>1. sm'.st = "SCANNING" /\ sm'.to = sm.to
    BY <1>7, <1>0 DEF GiveUp
  <2>2. credits' \in {credits, credits \union Credit(sm.to, quality.resp)}
    BY <1>7 DEF GiveUp
  <2>3. quality'.resp \subseteq quality.resp
    <3>1. quality' \in {quality, [quality EXCEPT !.call = {}], [quality EXCEPT !.resp = {}]}
      BY <1>7 DEF GiveUp
    <3>2. QED BY <3>1, <1>0
  <2>4. \A c \in Credit(sm.to, quality.resp) : c[1] = c[2]
    BY DEF Credit, CreditInv, Measured
  <2>5. CreditedToSpeaker'
    BY <2>2, <2>4 DEF CreditInv, CreditedToSpeaker
  <2>6. Measured'
    BY <2>1, <2>3 DEF CreditInv, Measured
  <2>7. QED BY <2>5, <2>6 DEF CreditInv
<1>8. CASE LinkEnds
  <2>1. sm'.st = "SCANNING" /\ sm'.to = sm.to /\ UNCHANGED <<exchange, quality, credits>>
    BY <1>8, <1>0 DEF LinkEnds
  <2>2. QED BY <2>1 DEF CreditInv, Measured, CreditedToSpeaker
<1>9. QED BY <1>2, <1>3, <1>4, <1>5, <1>6, <1>7, <1>8 DEF ReceptionNext

\* All pieces of a text were spoken by one station.
AllBy(acc, s) == \A p \in DOMAIN acc : acc[p].by = s
\* The texts that came with a call or an acknowledgement are under their sender.
Attributed(s) ==
  \A i \in DOMAIN s : s[i].win \in {"call", "ack"} => AllBy(s[i].acc, s[i].peer)

\* Texts given after texts.
LEMMA AttributedConcat ==
  ASSUME NEW s \in Seq(Texts), NEW t \in Seq(Texts), Attributed(s), Attributed(t)
  PROVE  Attributed(s \o t)
<1>1. /\ s \o t \in Seq(Texts) /\ Len(s \o t) = Len(s) + Len(t)
      /\ \A i \in 1..(Len(s) + Len(t)) : (s \o t)[i] = IF i <= Len(s) THEN s[i] ELSE t[i - Len(s)]
  BY ConcatProperties
<1>2. DOMAIN (s \o t) = 1..(Len(s) + Len(t)) /\ DOMAIN s = 1..Len(s) /\ DOMAIN t = 1..Len(t)
      /\ Len(s) \in Nat /\ Len(t) \in Nat
  BY <1>1
<1> SUFFICES ASSUME NEW i \in DOMAIN (s \o t), (s \o t)[i].win \in {"call", "ack"}
             PROVE  AllBy((s \o t)[i].acc, (s \o t)[i].peer)
  BY DEF Attributed
<1>3. CASE i <= Len(s)
  BY <1>1, <1>2, <1>3 DEF Attributed
<1>4. CASE ~(i <= Len(s))
  <2>1. i - Len(s) \in DOMAIN t
    BY <1>2, <1>4
  <2>2. QED BY <1>1, <1>2, <1>4, <2>1 DEF Attributed
<1>5. QED BY <1>3, <1>4

\* A text grows by a piece of the same station.
LEMMA AllByAppend ==
  ASSUME NEW acc \in Seq(Pieces), NEW pc \in Pieces, NEW s, AllBy(acc, s), pc.by = s
  PROVE  AllBy(Append(acc, pc), s) /\ AllBy(<<pc>>, s)
<1>1. AllBy(<<pc>>, s)
  BY DEF AllBy
<1>2. \A p \in DOMAIN Append(acc, pc) : Append(acc, pc)[p] = pc \/ (p \in DOMAIN acc /\ Append(acc, pc)[p] = acc[p])
  OBVIOUS
<1>3. QED BY <1>1, <1>2 DEF AllBy

\* A text of one station, given under that station.
LEMMA GivenAttributed ==
  ASSUME NEW v \in Windows, NEW peer \in Anyone, NEW done \in Seq(Pieces),
         v \in {"call", "ack"} => AllBy(done, peer)
  PROVE  Attributed(Given(v, peer, done))
<1> DEFINE r == [win |-> v, peer |-> peer, acc |-> done]
<1>1. Given(v, peer, done) = <<>> \/ Given(v, peer, done) = <<r>>
  BY DEF Given
<1>2. Attributed(<<>>)
  BY DEF Attributed
<1>3. r.win = v /\ r.peer = peer /\ r.acc = done
  OBVIOUS
<1> HIDE DEF r
<1>4. Attributed(<<r>>)
  BY <1>3 DEF Attributed
<1>5. QED BY <1>1, <1>2, <1>4

\* The texts of a call, given under the caller.
LEMMA DispatchedAttributed ==
  ASSUME ReceptionTypeOK, NEW v \in {"call", "resp"}, NEW peer \in Anyone,
         v = "call" => \/ peer = Nobody
                       \/ /\ AllBy(amd["call"].acc, peer)
                          /\ \A i \in DOMAIN pending["call"] : AllBy(pending["call"][i], peer)
  PROVE  Attributed(Dispatched(v, peer))
<1> DEFINE last == IF amd[v].acc = <<>> THEN <<>> ELSE <<amd[v].acc>>
           all == pending[v] \o last
<1>1. v \in Windows /\ amd[v].acc \in Seq(Pieces) /\ pending[v] \in Seq(Seq(Pieces))
  BY DEF ReceptionTypeOK, Windows
<1>2. last \in Seq(Seq(Pieces)) /\ \A i \in DOMAIN last : last[i] = amd[v].acc
  BY <1>1
<1> HIDE DEF last
<1>3. all \in Seq(Seq(Pieces))
      /\ \A i \in DOMAIN all : \/ i \in DOMAIN pending[v] /\ all[i] = pending[v][i]
                               \/ i - Len(pending[v]) \in DOMAIN last /\ all[i] = last[i - Len(pending[v])]
  BY <1>1, <1>2
<1>4. \A i \in DOMAIN all : all[i] = amd[v].acc \/ \E k \in DOMAIN pending[v] : all[i] = pending[v][k]
  BY <1>2, <1>3
<1>6. Dispatched(v, peer) = IF peer = Nobody THEN <<>>
        ELSE [i \in DOMAIN all |-> [win |-> v, peer |-> peer, acc |-> all[i]]]
  BY DEF Dispatched, last
<1> HIDE DEF all
<1>7. CASE peer = Nobody
  BY <1>6, <1>7 DEF Attributed
<1>8. CASE peer # Nobody
  <2>1. \A i \in DOMAIN all : v = "call" => AllBy(all[i], peer)
    BY <1>4, <1>8
  <2>2. v # "ack"
    OBVIOUS
  <2>3. QED BY <1>6, <1>8, <2>1, <2>2 DEF Attributed
<1>9. QED BY <1>7, <1>8

\* Whose words the texts of a call and of an acknowledgement are made of.
SenderInv ==
  /\ \A v \in Windows : amd[v].on \/ amd[v].acc = <<>>
  /\ sm.st \in {"HANDSHAKE", "WAIT_ACK"} =>
       /\ AllBy(amd["call"].acc, sm.with)
       /\ \A i \in DOMAIN pending["call"] : AllBy(pending["call"][i], sm.with)
  /\ sm.st \notin {"HANDSHAKE", "WAIT_ACK"} => amd["call"].acc = <<>> /\ pending["call"] = <<>>
  /\ sm.st = "HANDSHAKE" => amd["ack"] = Quiet
  /\ AllBy(amd["ack"].acc, owner["ack"])
  /\ sm.st = "WAIT_ACK" /\ amd["ack"].on => owner["ack"] = sm.with
  /\ Attributed(texts)

\* A word heard while window win collects: step is what becomes of the window, own
\* the owners, g1 and g2 what is given to the operator.
TextTaken(win, by, w, step, own, g1, g2) ==
  /\ win = "none" \/ win \in Windows
  /\ win \in Windows => step = Step(amd[win], by, w)
  /\ amd' = [v \in Windows |-> IF v = win THEN step.acc
                               ELSE IF v \in {"linked", "ack"} THEN Quiet ELSE amd[v]]
  /\ owner' = own
  /\ \A o \in {"linked", "ack"} : win # o \/ amd[o].on => own[o] = owner[o]
  /\ win = "ack" /\ ~amd["ack"].on /\ step.acc.on => own["ack"] = sm.caller
  /\ win = "ack" /\ ~amd["ack"].on /\ ~step.acc.on => own["ack"] = owner["ack"]
  /\ pending' = [v \in {"call", "resp"} |->
                   IF v = win /\ step.done # <<>> THEN Append(pending[v], step.done)
                   ELSE pending[v]]
  /\ g1 = Given("linked", own["linked"], IF win = "linked" THEN step.done ELSE amd["linked"].acc)
  /\ g2 = Given("ack", own["ack"], IF win = "ack" THEN step.done ELSE amd["ack"].acc)
  /\ texts' = texts \o g1 \o g2

\* What the text windows become, word by word.
LEMMA TextHeardFacts ==
  ASSUME ReceptionTypeOK, NEW by \in Stations, NEW w \in WordSet, TextHeard(by, w),
         \A v \in Windows : amd[v].on \/ amd[v].acc = <<>>
  PROVE  \E step \in [acc : Accs, done : Seq(Pieces)], own \in [{"linked", "ack"} -> Anyone],
            g1 \in Seq(Texts), g2 \in Seq(Texts) :
           TextTaken(WindowOf(sm.st), by, w, step, own, g1, g2)
<1> DEFINE win == WindowOf(sm.st)
           stp == Step(amd[win], by, w)
           step == IF win \in Windows THEN stp ELSE [acc |-> Quiet, done |-> <<>>]
           own(o) == IF win # o THEN owner[o]
                ELSE IF ~amd[o].on /\ stp.acc.on
                     THEN (IF o = "linked" THEN ActivePeer ELSE sm.caller) ELSE owner[o]
           ow == [o \in {"linked", "ack"} |-> own(o)]
           g1 == Given("linked", ow["linked"], IF win = "linked" THEN step.done ELSE amd["linked"].acc)
           g2 == Given("ack", ow["ack"], IF win = "ack" THEN step.done ELSE amd["ack"].acc)
<1>1. win = "none" \/ win \in Windows
  BY DEF WindowOf, Windows
<1>2. win \in Windows => stp.acc \in Accs /\ stp.done \in Seq(Pieces)
                         /\ stp = [acc |-> stp.acc, done |-> stp.done]
  <2> SUFFICES ASSUME win \in Windows
               PROVE stp.acc \in Accs /\ stp.done \in Seq(Pieces)
                     /\ stp = [acc |-> stp.acc, done |-> stp.done]
    OBVIOUS
  <2>1. amd[win] \in Accs
    BY DEF ReceptionTypeOK, Accs
  <2>2. stp = [acc |-> stp.acc, done |-> stp.done]
    BY DEF Step, StepTo
  <2>3. QED BY <2>1, <2>2, StepType
<1>3. step \in [acc : Accs, done : Seq(Pieces)]
  <2>1. Quiet \in Accs /\ <<>> \in Seq(Pieces)
    BY DEF Quiet, Accs
  <2> HIDE DEF stp, win
  <2>2. QED BY <1>2, <2>1
<1>4. ActivePeer \in Anyone /\ sm.caller \in Anyone
  BY DEF ReceptionTypeOK, ActivePeer
<1> HIDE DEF stp
<1>5. ow \in [{"linked", "ack"} -> Anyone]
  BY <1>4 DEF ReceptionTypeOK
<1>6. "linked" \in Windows /\ "ack" \in Windows /\ "call" \in Windows /\ "resp" \in Windows
      /\ "none" \notin Windows
  BY DEF Windows
<1>7. amd' = [v \in Windows |-> IF v = win THEN step.acc
                                ELSE IF v \in {"linked", "ack"} THEN Quiet ELSE amd[v]]
  <2>1. amd' = [v \in Windows |-> IF v = win THEN stp.acc
                   ELSE IF v \in {o \in {"linked", "ack"} : o # win} THEN Quiet ELSE amd[v]]
    BY DEF TextHeard, stp
  <2>2. \A v \in Windows : (v = win => step.acc = stp.acc)
                           /\ (v # win => (v \in {o \in {"linked", "ack"} : o # win} <=> v \in {"linked", "ack"}))
    OBVIOUS
  <2> HIDE DEF step, win
  <2>3. QED BY <2>1, <2>2
<1>8. owner' = ow
  BY DEF TextHeard, stp
<1>9. pending' = [v \in {"call", "resp"} |->
                          IF v = win /\ step.done # <<>> THEN Append(pending[v], step.done)
                          ELSE pending[v]]
  <2>1. pending' = [v \in {"call", "resp"} |->
                          IF v = win /\ stp.done # <<>> THEN Append(pending[v], stp.done)
                          ELSE pending[v]]
    BY DEF TextHeard, stp
  <2>2. \A v \in {"call", "resp"} : v = win => step = stp
    BY <1>6
  <2> HIDE DEF step, win
  <2>3. QED BY <2>1, <2>2
<1>10. texts' = texts \o g1 \o g2
  <2>1. texts' = texts
           \o Given("linked", own("linked"), IF win = "linked" THEN stp.done ELSE amd["linked"].acc)
           \o Given("ack", own("ack"), IF win = "ack" THEN stp.done ELSE amd["ack"].acc)
    BY DEF TextHeard, stp
  <2>2. win \in {"linked", "ack"} => step = stp
    BY <1>6
  <2>3. ow["linked"] = own("linked") /\ ow["ack"] = own("ack")
    OBVIOUS
  <2> HIDE DEF step, win, ow, own
  <2>4. QED BY <2>1, <2>2, <2>3
<1>11. g1 \in Seq(Texts) /\ g2 \in Seq(Texts)
  <2>1. amd["linked"].acc \in Seq(Pieces) /\ amd["ack"].acc \in Seq(Pieces)
    BY <1>6 DEF ReceptionTypeOK
  <2>2. step.done \in Seq(Pieces)
    BY <1>3
  <2>3. ow["linked"] \in Anyone /\ ow["ack"] \in Anyone
    BY <1>5
  <2> HIDE DEF step, ow, win
  <2>4. QED BY <2>1, <2>2, <2>3, <1>6, GivenType
<1>12. /\ \A o \in {"linked", "ack"} : win # o \/ amd[o].on => ow[o] = owner[o]
       /\ win = "ack" /\ ~amd["ack"].on /\ step.acc.on => ow["ack"] = sm.caller
       /\ win = "ack" /\ ~amd["ack"].on /\ ~step.acc.on => ow["ack"] = owner["ack"]
  BY <1>6
<1>13. win \in Windows => step = stp
  OBVIOUS
<1> HIDE DEF step, ow, g1, g2, own, win
<1>14. TextTaken(win, by, w, step, ow, g1, g2)
  BY <1>1, <1>7, <1>8, <1>9, <1>10, <1>12, <1>13 DEF TextTaken, stp, g1, g2
<1>15. QED BY <1>3, <1>5, <1>11, <1>14 DEF win

\* A window that only loses what it holds keeps the invariant.
LEMMA SenderTextHeard ==
  ASSUME ReceptionTypeOK, Partnered, SenderInv, air.left # <<>>,
         NEW w \in WordSet, TextHeard(air.by, w), sm'.st = sm.st, sm'.with = sm.with
  PROVE  SenderInv'
<1> DEFINE by == air.by
           win == WindowOf(sm.st)
<1>0. by \in Stations /\ (sm.st # "SCANNING" => by = sm.with)
  BY DEF Partnered
<1>1. \A v \in Windows : amd[v].on \/ amd[v].acc = <<>>
  BY DEF SenderInv
<1>2a. PICK step \in [acc : Accs, done : Seq(Pieces)], own \in [{"linked", "ack"} -> Anyone],
           g1 \in Seq(Texts), g2 \in Seq(Texts) : TextTaken(win, by, w, step, own, g1, g2)
  BY <1>0, <1>1, TextHeardFacts
<1>2b. step \in [acc : Accs, done : Seq(Pieces)] /\ own \in [{"linked", "ack"} -> Anyone]
      /\ g1 \in Seq(Texts) /\ g2 \in Seq(Texts)
  OBVIOUS
<1>2. /\ win = "none" \/ win \in Windows
      /\ win \in Windows => step = Step(amd[win], by, w)
      /\ amd' = [v \in Windows |-> IF v = win THEN step.acc
                                   ELSE IF v \in {"linked", "ack"} THEN Quiet ELSE amd[v]]
      /\ owner' = own
      /\ \A o \in {"linked", "ack"} : win # o \/ amd[o].on => own[o] = owner[o]
      /\ win = "ack" /\ ~amd["ack"].on /\ step.acc.on => own["ack"] = sm.caller
      /\ win = "ack" /\ ~amd["ack"].on /\ ~step.acc.on => own["ack"] = owner["ack"]
      /\ pending' = [v \in {"call", "resp"} |->
                       IF v = win /\ step.done # <<>> THEN Append(pending[v], step.done)
                       ELSE pending[v]]
      /\ g1 = Given("linked", own["linked"], IF win = "linked" THEN step.done ELSE amd["linked"].acc)
      /\ g2 = Given("ack", own["ack"], IF win = "ack" THEN step.done ELSE amd["ack"].acc)
      /\ texts' = texts \o g1 \o g2
  BY <1>2a DEF TextTaken
<1> DEFINE piece == [by |-> by, x |-> w.x]
<1>3. piece \in Pieces /\ piece.by = by
  BY <1>0 DEF Pieces, WordSet
<1>4. Quiet.acc = <<>> /\ Quiet = [on |-> FALSE, acc |-> <<>>]
  BY DEF Quiet
<1>5. "linked" \in Windows /\ "ack" \in Windows /\ "call" \in Windows /\ "resp" \in Windows
      /\ "none" \notin Windows
  BY DEF Windows
<1>6. \A v \in Windows : amd[v] \in Accs /\ amd[v].acc \in Seq(Pieces)
  BY DEF ReceptionTypeOK, Accs
<1> HIDE DEF by, piece, win
<1>7. win \in Windows =>
         \/ /\ step.acc = [on |-> TRUE, acc |-> <<piece>>]
            /\ step.done = amd[win].acc
         \/ /\ step.acc = Quiet
            /\ step.done = amd[win].acc
         \/ /\ step.acc = amd[win]
            /\ step.done = <<>>
         \/ /\ amd[win].on
            /\ step.acc = [on |-> TRUE, acc |-> Append(amd[win].acc, piece)]
            /\ step.done = <<>>
  <2> SUFFICES ASSUME win \in Windows
               PROVE  \/ /\ step.acc = [on |-> TRUE, acc |-> <<piece>>]
                         /\ step.done = amd[win].acc
                      \/ /\ step.acc = Quiet
                         /\ step.done = amd[win].acc
                      \/ /\ step.acc = amd[win]
                         /\ step.done = <<>>
                      \/ /\ amd[win].on
                         /\ step.acc = [on |-> TRUE, acc |-> Append(amd[win].acc, piece)]
                         /\ step.done = <<>>
    OBVIOUS
  <2> DEFINE a == amd[win]
  <2>1. a \in Accs /\ (a.on \/ a.acc = <<>>) /\ step = Step(a, by, w) /\ by \in Stations
    BY <1>0, <1>1, <1>2, <1>6
  <2> HIDE DEF a
  <2>2. \/ /\ Step(a, by, w).acc = [on |-> TRUE, acc |-> <<piece>>]
           /\ Step(a, by, w).done = a.acc
        \/ /\ Step(a, by, w).acc = Quiet
           /\ Step(a, by, w).done = a.acc
        \/ /\ Step(a, by, w).acc = a
           /\ Step(a, by, w).done = <<>>
        \/ /\ a.on
           /\ Step(a, by, w).acc = [on |-> TRUE, acc |-> Append(a.acc, piece)]
           /\ Step(a, by, w).done = <<>>
    BY <2>1, StepCases, ZenonT(60) DEF piece
  <2>3. QED BY <2>1, <2>2, Zenon DEF a
<1>8. ASSUME NEW s, win \in Windows, AllBy(amd[win].acc, s), by = s
      PROVE  AllBy(step.acc.acc, s) /\ AllBy(step.done, s)
  <2>1. AllBy(<<piece>>, s) /\ AllBy(Append(amd[win].acc, piece), s)
    BY <1>3, <1>6, <1>8, AllByAppend
  <2>2. AllBy(<<>>, s)
    BY DEF AllBy
  <2>3. step.acc.acc \in {<<piece>>, <<>>, amd[win].acc, Append(amd[win].acc, piece)}
        /\ step.done \in {amd[win].acc, <<>>}
    BY <1>4, <1>7, <1>8
  <2>4. QED BY <2>1, <2>2, <2>3, <1>8
<1>9. win \in Windows => step.acc.on \/ step.acc.acc = <<>>
  BY <1>1, <1>4, <1>7
<1>10. \A v \in Windows : amd'[v].on \/ amd'[v].acc = <<>>
  BY <1>1, <1>2, <1>4, <1>9
<1>11. win = IF sm.st = "HANDSHAKE" THEN "call" ELSE IF sm.st = "WAIT_ACK" THEN "ack"
             ELSE IF sm.st = "CALLING" THEN "resp" ELSE IF sm.st = "LINKED" THEN "linked" ELSE "none"
  BY DEF win, WindowOf
<1>12. AllBy(amd["ack"].acc, owner["ack"]) /\ AllBy(<<>>, own["ack"])
  BY DEF SenderInv, AllBy
<1>13. CASE win = "call"
  <2>1. sm.st = "HANDSHAKE" /\ by = sm.with
    BY <1>0, <1>11, <1>13
  <2>2. AllBy(amd["call"].acc, sm.with)
        /\ \A i \in DOMAIN pending["call"] : AllBy(pending["call"][i], sm.with)
    BY <2>1 DEF SenderInv
  <2>3. AllBy(step.acc.acc, sm.with) /\ AllBy(step.done, sm.with)
    BY <2>1, <2>2, <1>5, <1>8, <1>13
  <2>4. \A i \in DOMAIN pending'["call"] : AllBy(pending'["call"][i], sm.with)
    <3>1. pending["call"] \in Seq(Seq(Pieces)) /\ step.done \in Seq(Pieces)
      BY <1>2 DEF ReceptionTypeOK
    <3>2. pending'["call"] \in {pending["call"], Append(pending["call"], step.done)}
      BY <1>2, <1>13
    <3>3. \A i \in DOMAIN Append(pending["call"], step.done) :
            \/ i \in DOMAIN pending["call"] /\ Append(pending["call"], step.done)[i] = pending["call"][i]
            \/ Append(pending["call"], step.done)[i] = step.done
      BY <3>1
    <3> DEFINE q == Append(pending["call"], step.done)
    <3>4. \A i \in DOMAIN q : AllBy(q[i], sm.with)
      <4> SUFFICES ASSUME NEW i \in DOMAIN q PROVE AllBy(q[i], sm.with)
        OBVIOUS
      <4>1. (i \in DOMAIN pending["call"] /\ q[i] = pending["call"][i]) \/ q[i] = step.done
        BY <3>3
      <4> HIDE DEF q
      <4>2. QED BY <4>1, <2>2, <2>3
    <3> HIDE DEF q
    <3>5. CASE pending'["call"] = pending["call"]
      BY <3>5, <2>2
    <3>6. CASE pending'["call"] = q
      BY <3>6, <3>4
    <3>7. QED BY <3>2, <3>5, <3>6 DEF q
  <2>5. amd'["call"].acc = step.acc.acc /\ amd'["ack"] = Quiet
    BY <1>2, <1>5, <1>13
  <2>6. AllBy(amd'["ack"].acc, owner'["ack"])
    BY <1>2, <1>4, <1>12, <2>5
  <2>7. Attributed(texts)'
    <3>1. g2 = Given("ack", owner["ack"], amd["ack"].acc)
          /\ g1 = Given("linked", own["linked"], amd["linked"].acc)
      BY <1>2, <1>13
    <3>2. owner["ack"] \in Anyone /\ own["linked"] \in Anyone
      BY <1>2 DEF ReceptionTypeOK
    <3>3. Attributed(g1) /\ Attributed(g2)
      BY <3>1, <3>2, <1>5, <1>6, <1>12, GivenAttributed
    <3>4. texts \in Seq(Texts) /\ Attributed(texts)
      BY DEF ReceptionTypeOK, Texts, SenderInv
    <3>5. texts \o g1 \in Seq(Texts) /\ Attributed(texts \o g1)
      BY <1>2, <3>3, <3>4, AttributedConcat
    <3>6. QED BY <1>2, <3>3, <3>5, AttributedConcat
  <2>8. QED BY <1>10, <2>1, <2>3, <2>4, <2>5, <2>6, <2>7 DEF SenderInv
<1>14. CASE win = "ack"
  <2>1. sm.st = "WAIT_ACK" /\ by = sm.with /\ sm.caller = sm.with
    BY <1>0, <1>11, <1>14 DEF Partnered
  <2>2. amd'["call"] = amd["call"] /\ pending'["call"] = pending["call"] /\ amd'["ack"] = step.acc
    BY <1>2, <1>5, <1>14
  <2>3. amd["ack"].on \/ step.acc.on => own["ack"] = sm.with
    <3>1. CASE amd["ack"].on
      BY <3>1, <1>2, <2>1 DEF SenderInv
    <3>2. CASE ~amd["ack"].on
      BY <3>2, <1>2, <1>14, <2>1
    <3>3. QED BY <3>1, <3>2
  <2>4. amd["ack"].on => AllBy(amd["ack"].acc, sm.with)
    BY <2>1 DEF SenderInv
  <2>5. ~amd["ack"].on => AllBy(amd["ack"].acc, sm.with)
    BY <1>1, <1>5 DEF AllBy
  <2>6. AllBy(step.acc.acc, sm.with) /\ AllBy(step.done, sm.with)
    BY <2>1, <2>4, <2>5, <1>5, <1>8, <1>14
  <2>7. AllBy(amd'["ack"].acc, owner'["ack"])
    <3>1. CASE step.acc.on
      BY <3>1, <2>2, <2>3, <2>6, <1>2
    <3>2. CASE ~step.acc.on
      <4>1. step.acc.acc = <<>>
        BY <3>2, <1>5, <1>9, <1>14
      <4>2. QED BY <4>1, <2>2, <1>2, <1>12
    <3>3. QED BY <3>1, <3>2
  <2>8. AllBy(step.done, own["ack"])
    <3>1. CASE amd["ack"].on
      BY <3>1, <2>3, <2>6
    <3>2. CASE ~amd["ack"].on
      <4>1. step.done = <<>>
        BY <3>2, <1>1, <1>5, <1>7, <1>14
      <4>2. QED BY <4>1, <1>12
    <3>3. QED BY <3>1, <3>2
  <2>9. Attributed(texts)'
    <3>1. g2 = Given("ack", own["ack"], step.done)
          /\ g1 = Given("linked", own["linked"], amd["linked"].acc)
      BY <1>2, <1>14
    <3>2. own["ack"] \in Anyone /\ own["linked"] \in Anyone /\ step.done \in Seq(Pieces)
      BY <1>2
    <3>3. Attributed(g1) /\ Attributed(g2)
      BY <3>1, <3>2, <1>5, <1>6, <2>8, GivenAttributed
    <3>4. texts \in Seq(Texts) /\ Attributed(texts)
      BY DEF ReceptionTypeOK, Texts, SenderInv
    <3>5. texts \o g1 \in Seq(Texts) /\ Attributed(texts \o g1)
      BY <1>2, <3>3, <3>4, AttributedConcat
    <3>6. QED BY <1>2, <3>3, <3>5, AttributedConcat
  <2>10. AllBy(amd["call"].acc, sm.with) /\ \A i \in DOMAIN pending["call"] : AllBy(pending["call"][i], sm.with)
    BY <2>1 DEF SenderInv
  <2>11. amd'["ack"].on => owner'["ack"] = sm.with
    BY <1>2, <2>2, <2>3
  <2>12. QED BY <1>10, <2>1, <2>2, <2>7, <2>9, <2>10, <2>11 DEF SenderInv
<1>15. CASE win \notin {"call", "ack"}
  <2>1. sm.st \notin {"HANDSHAKE", "WAIT_ACK"}
    BY <1>11, <1>15
  <2>2. amd'["call"] = amd["call"] /\ pending'["call"] = pending["call"] /\ amd'["ack"] = Quiet
        /\ own["ack"] = owner["ack"]
    BY <1>2, <1>5, <1>15
  <2>3. AllBy(amd'["ack"].acc, owner'["ack"])
    BY <1>2, <1>4, <1>12, <2>2
  <2>4. Attributed(texts)'
    <3>1. g2 = Given("ack", owner["ack"], amd["ack"].acc)
          /\ g1 \in {Given("linked", own["linked"], amd["linked"].acc), Given("linked", own["linked"], step.done)}
      BY <1>2, <1>15, <2>2
    <3>2. owner["ack"] \in Anyone /\ own["linked"] \in Anyone /\ step.done \in Seq(Pieces)
      BY <1>2 DEF ReceptionTypeOK
    <3>3. Attributed(g2)
      BY <3>1, <3>2, <1>5, <1>6, <1>12, GivenAttributed
    <3>4. Attributed(g1)
      BY <3>1, <3>2, <1>5, <1>6, GivenAttributed
    <3>5. texts \in Seq(Texts) /\ Attributed(texts)
      BY DEF ReceptionTypeOK, Texts, SenderInv
    <3>6. texts \o g1 \in Seq(Texts) /\ Attributed(texts \o g1)
      BY <1>2, <3>4, <3>5, AttributedConcat
    <3>7. QED BY <1>2, <3>3, <3>6, AttributedConcat
  <2>5. amd["call"].acc = <<>> /\ pending["call"] = <<>>
    BY <2>1 DEF SenderInv
  <2>6. QED BY <1>10, <2>1, <2>2, <2>3, <2>4, <2>5 DEF SenderInv
<1>16. QED BY <1>13, <1>14, <1>15

\* So does the end of a handshake or of a call.
LEMMA SenderClosed ==
  ASSUME ReceptionTypeOK, Partnered, SenderInv,
         \/ Closed("call", sm.caller) /\ sm.st \in {"HANDSHAKE", "WAIT_ACK"}
         \/ Closed("resp", ActivePeer) /\ sm.st = "CALLING",
         sm'.st \in {"SCANNING", "LINKED"}
  PROVE  SenderInv'
<1>1. PICK v \in {"call", "resp"}, peer \in Anyone :
         /\ Closed(v, peer)
         /\ v = "call" => sm.st \in {"HANDSHAKE", "WAIT_ACK"} /\ peer = sm.caller
         /\ v = "resp" => sm.st = "CALLING"
  BY DEF ReceptionTypeOK, ActivePeer
<1>2. Attributed(Dispatched(v, peer))
  <2>1. v = "call" => peer \in {Nobody, sm.with}
    BY <1>1 DEF Partnered
  <2>2. v = "call" => \/ peer = Nobody
                      \/ /\ AllBy(amd["call"].acc, peer)
                         /\ \A i \in DOMAIN pending["call"] : AllBy(pending["call"][i], peer)
    BY <1>1, <2>1 DEF SenderInv
  <2>3. QED BY <2>2, DispatchedAttributed
<1>3. Attributed(texts)'
  <2>1. texts \in Seq(Texts) /\ Dispatched(v, peer) \in Seq(Texts)
    BY DispatchedType DEF ReceptionTypeOK, Texts
  <2>2. texts' = texts \o Dispatched(v, peer)
    BY <1>1 DEF Closed
  <2>3. QED BY <1>2, <2>1, <2>2, AttributedConcat DEF SenderInv
<1>4. /\ amd' = [amd EXCEPT ![v] = Quiet] /\ pending' = [pending EXCEPT ![v] = <<>>]
      /\ owner' = owner
  BY <1>1 DEF Closed
<1>5. amd \in [Windows -> Accs] /\ DOMAIN pending = {"call", "resp"} /\ v \in Windows
      /\ "call" \in Windows /\ "ack" \in Windows
  BY DEF ReceptionTypeOK, Accs, Windows
<1>6. \A u \in Windows : amd'[u].on \/ amd'[u].acc = <<>>
  BY <1>4, <1>5 DEF SenderInv, Quiet
<1>7. amd'["ack"] = amd["ack"]
  BY <1>4, <1>5
<1>8. amd'["call"].acc = <<>> /\ pending'["call"] = <<>>
  BY <1>1, <1>4, <1>5 DEF SenderInv, Quiet
<1>9. QED BY <1>3, <1>4, <1>6, <1>7, <1>8 DEF SenderInv

\* And so does every step.
LEMMA SenderStep ==
  ASSUME ReceptionTypeOK, Partnered, SenderInv, ReceptionNext
  PROVE  SenderInv'
<1>0. sm \in [st : Phases, to : Anyone, caller : Anyone, with : Anyone] /\ Nobody \notin Stations
      /\ amd \in [Windows -> Accs] /\ DOMAIN pending = {"call", "resp"} /\ texts \in Seq(Texts)
      /\ owner \in [{"linked", "ack"} -> Anyone]
  BY ReceptionAssumption DEF ReceptionTypeOK, Accs, Texts
<1>1. "linked" \in Windows /\ "ack" \in Windows /\ "call" \in Windows /\ "resp" \in Windows
      /\ Quiet.acc = <<>> /\ AllBy(<<>>, owner["ack"])
  BY DEF Windows, Quiet, AllBy
<1>2. CASE SettleSounding \/ Silence \/ Send \/ Lost
  <2>1. UNCHANGED <<sm, amd, pending, owner, texts>>
    BY <1>2 DEF SettleSounding, Silence, Send, Lost
  <2>2. QED BY <2>1 DEF SenderInv, Attributed, AllBy
<1>3. Attributed(Given("linked", owner["linked"], amd["linked"].acc))
      /\ Given("linked", owner["linked"], amd["linked"].acc) \in Seq(Texts)
      /\ Attributed(Given("ack", owner["ack"], amd["ack"].acc))
      /\ Given("ack", owner["ack"], amd["ack"].acc) \in Seq(Texts)
  <2>1. amd["linked"].acc \in Seq(Pieces) /\ amd["ack"].acc \in Seq(Pieces)
    BY <1>0, <1>1 DEF Accs
  <2>2. AllBy(amd["ack"].acc, owner["ack"])
    BY DEF SenderInv
  <2>3. QED BY <2>1, <2>2, <1>0, <1>1, GivenType, GivenAttributed
<1>4. CASE SettleLinked
  <2>1. /\ texts' = texts \o Given("linked", owner["linked"], amd["linked"].acc)
        /\ amd' = [amd EXCEPT !["linked"] = Quiet]
        /\ owner' = [owner EXCEPT !["linked"] = Nobody]
        /\ UNCHANGED <<sm, pending>>
    BY <1>4 DEF SettleLinked
  <2>2. Attributed(texts)'
    BY <2>1, <1>0, <1>3, AttributedConcat DEF SenderInv
  <2>3. amd'["call"] = amd["call"] /\ amd'["ack"] = amd["ack"] /\ owner'["ack"] = owner["ack"]
    BY <2>1, <1>0
  <2>4. \A v \in Windows : amd'[v].on \/ amd'[v].acc = <<>>
    BY <2>1, <1>0, <1>1 DEF SenderInv
  <2>5. QED BY <2>1, <2>2, <2>3, <2>4 DEF SenderInv
<1>5. CASE Received
  <2> DEFINE by == air.by
             w == Head(air.left)
  <2>1. w \in WordSet /\ air.left # <<>>
    BY <1>5, WordTaken DEF Received
  <2>2. CASE Called(by, w)
    <3>1. /\ texts' = texts \o Given("linked", owner["linked"], amd["linked"].acc)
                            \o Given("ack", owner["ack"], amd["ack"].acc)
          /\ amd' = [v \in Windows |-> IF v = "resp" THEN amd[v] ELSE Quiet]
          /\ pending' = [pending EXCEPT !["call"] = <<>>]
          /\ owner' = owner
          /\ sm' = [sm EXCEPT !.st = "HANDSHAKE", !.caller = Nobody, !.with = by]
      BY <2>2 DEF Called
    <3>2. Attributed(texts)'
      <4>1. texts \o Given("linked", owner["linked"], amd["linked"].acc) \in Seq(Texts)
            /\ Attributed(texts \o Given("linked", owner["linked"], amd["linked"].acc))
        BY <1>0, <1>3, AttributedConcat DEF SenderInv
      <4>2. QED BY <3>1, <4>1, <1>3, AttributedConcat
    <3>3. sm'.st = "HANDSHAKE"
      BY <3>1, <1>0
    <3>4. pending'["call"] = <<>> /\ amd'["call"] = Quiet /\ amd'["ack"] = Quiet
      BY <3>1, <1>0, <1>1
    <3>5. AllBy(<<>>, sm'.with) /\ AllBy(<<>>, owner'["ack"])
      BY DEF AllBy
    <3>6. \A v \in Windows : amd'[v].on \/ amd'[v].acc = <<>>
      BY <3>1, <1>1 DEF SenderInv
    <3>7. QED BY <3>2, <3>3, <3>4, <3>5, <3>6, <1>1 DEF SenderInv
  <2>3. CASE sm' = SmAfter(by, w) /\ TextHeard(by, w)
    <3>1. sm'.st = sm.st /\ sm'.with = sm.with
      BY <2>3, <1>0 DEF SmAfter
    <3>2. QED BY <3>1, <2>1, <2>3, SenderTextHeard
  <2>4. QED BY <1>5, <2>2, <2>3 DEF Received
<1>6. CASE \E s \in Stations : Call(s)
  <2>1. PICK s \in Stations : Call(s)
    BY <1>6
  <2>2. UNCHANGED <<owner, texts>>
    BY <2>1 DEF Call
  <2>3. CASE sm.st = "SCANNING"
    <3>1. /\ sm' = [sm EXCEPT !.st = "CALLING", !.to = Nobody, !.with = s]
          /\ amd' = [amd EXCEPT !["resp"] = Quiet]
          /\ pending' = [pending EXCEPT !["resp"] = <<>>]
      BY <2>1, <2>3 DEF Call
    <3>2. sm'.st = "CALLING" /\ amd'["call"] = amd["call"] /\ amd'["ack"] = amd["ack"]
          /\ pending'["call"] = pending["call"]
      BY <3>1, <1>0, <1>1
    <3>3. \A v \in Windows : amd'[v].on \/ amd'[v].acc = <<>>
      BY <3>1, <1>0, <1>1 DEF SenderInv
    <3>4. QED BY <2>2, <2>3, <3>2, <3>3 DEF SenderInv
  <2>4. CASE sm.st # "SCANNING"
    <3>1. UNCHANGED <<sm, amd, pending>>
      BY <2>1, <2>4 DEF Call
    <3>2. QED BY <2>2, <3>1 DEF SenderInv
  <2>5. QED BY <2>3, <2>4
<1>7. CASE Alert
  <2>1. sm'.st = "WAIT_ACK" /\ sm'.with = sm.with /\ sm.st = "HANDSHAKE"
        /\ UNCHANGED <<amd, pending, owner, texts>>
    BY <1>7, <1>0 DEF Alert
  <2>2. ~amd["ack"].on
    BY <2>1 DEF SenderInv, Quiet
  <2>3. QED BY <2>1, <2>2 DEF SenderInv
<1>8. CASE Linked
  <2>1. sm'.st = "LINKED"
    BY <1>8, <1>0 DEF Linked
  <2>2. \/ Closed("call", sm.caller) /\ sm.st \in {"HANDSHAKE", "WAIT_ACK"}
        \/ Closed("resp", ActivePeer) /\ sm.st = "CALLING"
    BY <1>8 DEF Linked
  <2>3. QED BY <2>1, <2>2, SenderClosed
<1>9. CASE GiveUp
  <2>1. sm'.st = "SCANNING"
    BY <1>9, <1>0 DEF GiveUp
  <2>2. \/ Closed("call", sm.caller) /\ sm.st \in {"HANDSHAKE", "WAIT_ACK"}
        \/ Closed("resp", ActivePeer) /\ sm.st = "CALLING"
    BY <1>9 DEF GiveUp
  <2>3. QED BY <2>1, <2>2, SenderClosed
<1>10. CASE LinkEnds
  <2>1. sm'.st = "SCANNING" /\ sm.st = "LINKED" /\ UNCHANGED <<amd, pending, owner, texts>>
    BY <1>10, <1>0 DEF LinkEnds
  <2>2. QED BY <2>1 DEF SenderInv
<1>11. QED BY <1>2, <1>4, <1>5, <1>6, <1>7, <1>8, <1>9, <1>10 DEF ReceptionNext

\* The places where a text can be, and the frames its places' texts began in.
Places == Windows \union {"given", "calls", "answers"}
FrameOf(acc) == acc[1].x
FramesOf(s) == {FrameOf(s[i]) : i \in DOMAIN s}
GivenFrames(s) == {FrameOf(s[i].acc) : i \in DOMAIN s}
At ==
  [p \in Places |->
    IF p = "given" THEN GivenFrames(texts)
    ELSE IF p = "calls" THEN FramesOf(pending["call"])
    ELSE IF p = "answers" THEN FramesOf(pending["resp"])
    ELSE IF amd[p].on THEN {FrameOf(amd[p].acc)} ELSE {}]

\* Texts of different frames.
FrameOnce(s) == \A i, j \in DOMAIN s : i # j => FrameOf(s[i]) # FrameOf(s[j])
GivenOnce(s) == \A i, j \in DOMAIN s : i # j => FrameOf(s[i].acc) # FrameOf(s[j].acc)
NoEmpty(s) == \A i \in DOMAIN s : s[i] # <<>>
NoEmptyGiven(s) == \A i \in DOMAIN s : s[i].acc # <<>>

\* No text is at two places, and the frame that is still to begin its text (the words of
\* the n-th frame carry -n) has none anywhere.
PlacesInv ==
  /\ \A v \in Windows : amd[v].on <=> amd[v].acc # <<>>
  /\ \A v \in {"call", "resp"} : NoEmpty(pending[v]) /\ FrameOnce(pending[v])
  /\ NoEmptyGiven(texts) /\ GivenOnce(texts)
  /\ \A p \in Places : \A x \in At[p] : x \in Int /\ x >= -frames
  /\ \A p, q \in Places : p # q => At[p] \intersect At[q] = {}
  /\ (\E i \in DOMAIN air.left : air.left[i].t = "CMD") => \A p \in Places : -frames \notin At[p]

\* Texts of different frames given after one another.
LEMMA FramesConcat ==
  ASSUME NEW s \in Seq(Texts), NEW t \in Seq(Texts), GivenOnce(s), GivenOnce(t),
         NoEmptyGiven(s), NoEmptyGiven(t), GivenFrames(s) \intersect GivenFrames(t) = {}
  PROVE  /\ GivenOnce(s \o t) /\ NoEmptyGiven(s \o t)
         /\ GivenFrames(s \o t) = GivenFrames(s) \union GivenFrames(t)
<1> DEFINE c == s \o t
<1>1. /\ c \in Seq(Texts) /\ Len(c) = Len(s) + Len(t)
      /\ \A i \in 1..(Len(s) + Len(t)) : c[i] = IF i <= Len(s) THEN s[i] ELSE t[i - Len(s)]
  BY ConcatProperties
<1>2. DOMAIN c = 1..(Len(s) + Len(t)) /\ DOMAIN s = 1..Len(s) /\ DOMAIN t = 1..Len(t)
      /\ Len(s) \in Nat /\ Len(t) \in Nat
  BY <1>1
<1> HIDE DEF c
<1>3. ASSUME NEW i \in DOMAIN c
      PROVE  \/ i \in DOMAIN s /\ c[i] = s[i]
             \/ i - Len(s) \in DOMAIN t /\ c[i] = t[i - Len(s)]
  <2>1. CASE i <= Len(s) BY <2>1, <1>1, <1>2
  <2>2. CASE ~(i <= Len(s))
    <3>1. i - Len(s) \in DOMAIN t
      BY <1>2, <2>2
    <3>2. QED BY <1>1, <1>2, <2>2, <3>1
  <2>3. QED BY <2>1, <2>2
<1>4. \A i \in DOMAIN s : i \in DOMAIN c /\ c[i] = s[i]
  <2> TAKE i \in DOMAIN s
  <2>1. i \in 1..(Len(s) + Len(t)) /\ i <= Len(s)
    BY <1>2
  <2>2. QED BY <2>1, <1>1, <1>2
<1>5. \A i \in DOMAIN t : i + Len(s) \in DOMAIN c /\ c[i + Len(s)] = t[i]
  <2> TAKE i \in DOMAIN t
  <2>1. i + Len(s) \in 1..(Len(s) + Len(t)) /\ ~(i + Len(s) <= Len(s)) /\ (i + Len(s)) - Len(s) = i
    BY <1>2
  <2>2. QED BY <2>1, <1>1, <1>2
<1>6. GivenFrames(c) = GivenFrames(s) \union GivenFrames(t)
  <2>1. GivenFrames(c) \subseteq GivenFrames(s) \union GivenFrames(t)
    BY <1>3 DEF GivenFrames
  <2>2. GivenFrames(s) \subseteq GivenFrames(c)
    BY <1>4 DEF GivenFrames
  <2>3. GivenFrames(t) \subseteq GivenFrames(c)
    BY <1>5 DEF GivenFrames
  <2>4. QED BY <2>1, <2>2, <2>3
<1>7. NoEmptyGiven(c)
  BY <1>3 DEF NoEmptyGiven
<1>8. GivenOnce(c)
  <2> SUFFICES ASSUME NEW i \in DOMAIN c, NEW j \in DOMAIN c, i # j
               PROVE  FrameOf(c[i].acc) # FrameOf(c[j].acc)
    BY DEF GivenOnce
  <2>1. CASE i \in DOMAIN s /\ c[i] = s[i] /\ j \in DOMAIN s /\ c[j] = s[j]
    BY <2>1 DEF GivenOnce
  <2>2. CASE i - Len(s) \in DOMAIN t /\ c[i] = t[i - Len(s)] /\ j - Len(s) \in DOMAIN t /\ c[j] = t[j - Len(s)]
    <3>1. i - Len(s) # j - Len(s)
      BY <1>2
    <3>2. QED BY <2>2, <3>1 DEF GivenOnce
  <2>3. CASE i \in DOMAIN s /\ c[i] = s[i] /\ j - Len(s) \in DOMAIN t /\ c[j] = t[j - Len(s)]
    <3>1. FrameOf(c[i].acc) \in GivenFrames(s) /\ FrameOf(c[j].acc) \in GivenFrames(t)
      BY <2>3 DEF GivenFrames
    <3>2. QED BY <3>1
  <2>4. CASE j \in DOMAIN s /\ c[j] = s[j] /\ i - Len(s) \in DOMAIN t /\ c[i] = t[i - Len(s)]
    <3>1. FrameOf(c[j].acc) \in GivenFrames(s) /\ FrameOf(c[i].acc) \in GivenFrames(t)
      BY <2>4 DEF GivenFrames
    <3>2. QED BY <3>1
  <2>5. QED BY <2>1, <2>2, <2>3, <2>4, <1>3
<1>9. QED BY <1>6, <1>7, <1>8 DEF c

\* A text given is of the frame it began in.
LEMMA FramesOfGiven ==
  ASSUME NEW v \in Windows, NEW peer \in Anyone, NEW done \in Seq(Pieces)
  PROVE  /\ GivenOnce(Given(v, peer, done)) /\ NoEmptyGiven(Given(v, peer, done))
         /\ GivenFrames(Given(v, peer, done)) \subseteq IF done = <<>> THEN {} ELSE {FrameOf(done)}
<1> DEFINE r == [win |-> v, peer |-> peer, acc |-> done]
<1>1. r.acc = done
  OBVIOUS
<1>2. Given(v, peer, done) = IF done = <<>> \/ peer = Nobody THEN <<>> ELSE <<r>>
  BY DEF Given
<1> HIDE DEF r
<1>3. CASE done = <<>> \/ peer = Nobody
  BY <1>2, <1>3 DEF GivenOnce, NoEmptyGiven, GivenFrames
<1>4. CASE ~(done = <<>> \/ peer = Nobody)
  BY <1>1, <1>2, <1>4 DEF GivenOnce, NoEmptyGiven, GivenFrames
<1>5. QED BY <1>3, <1>4

\* One more text behind those pending.
LEMMA FramesAppend ==
  ASSUME NEW s \in Seq(Seq(Pieces)), NEW acc \in Seq(Pieces), FrameOnce(s), NoEmpty(s),
         acc # <<>>, FrameOf(acc) \notin FramesOf(s)
  PROVE  /\ FrameOnce(Append(s, acc)) /\ NoEmpty(Append(s, acc))
         /\ FramesOf(Append(s, acc)) = FramesOf(s) \union {FrameOf(acc)}
<1> DEFINE c == Append(s, acc)
<1>1. /\ DOMAIN c = 1..(Len(s) + 1) /\ DOMAIN s = 1..Len(s) /\ Len(s) \in Nat
      /\ c[Len(s) + 1] = acc /\ \A i \in DOMAIN s : i \in DOMAIN c /\ c[i] = s[i]
  OBVIOUS
<1> HIDE DEF c
<1>2. \A i \in DOMAIN c : i = Len(s) + 1 \/ i \in DOMAIN s
  <2> SUFFICES ASSUME NEW i \in 1..(Len(s) + 1) PROVE i = Len(s) + 1 \/ i \in 1..Len(s)
    BY <1>1
  <2>1. Len(s) \in Nat
    BY <1>1
  <2> HIDE <1>1
  <2>2. QED BY <2>1
<1>3. NoEmpty(c)
  BY <1>1, <1>2 DEF NoEmpty
<1>4. FrameOnce(c)
  <2> SUFFICES ASSUME NEW i \in DOMAIN c, NEW j \in DOMAIN c, i # j
               PROVE  FrameOf(c[i]) # FrameOf(c[j])
    BY DEF FrameOnce
  <2>1. CASE i \in DOMAIN s /\ j \in DOMAIN s
    BY <2>1, <1>1 DEF FrameOnce
  <2>2. CASE i \in DOMAIN s /\ j = Len(s) + 1
    BY <2>2, <1>1 DEF FramesOf
  <2>3. CASE j \in DOMAIN s /\ i = Len(s) + 1
    BY <2>3, <1>1 DEF FramesOf
  <2>4. QED BY <2>1, <2>2, <2>3, <1>2
<1>5. FramesOf(c) = FramesOf(s) \union {FrameOf(acc)}
  <2>1. \A x \in FramesOf(c) : x \in FramesOf(s) \/ x = FrameOf(acc)
    BY <1>1, <1>2 DEF FramesOf
  <2>2. FrameOf(acc) \in FramesOf(c)
    <3>1. Len(s) + 1 \in DOMAIN c
      BY <1>1
    <3>2. QED BY <1>1, <3>1 DEF FramesOf
  <2>3. \A x \in FramesOf(s) : x \in FramesOf(c)
    BY <1>1 DEF FramesOf
  <2>4. QED BY <2>1, <2>2, <2>3
<1>6. QED BY <1>3, <1>4, <1>5 DEF c

\* The texts given when a window closes are those pending and the one collected.
LEMMA FramesOfDispatched ==
  ASSUME ReceptionTypeOK, PlacesInv, NEW v \in {"call", "resp"}, NEW peer \in Anyone
  PROVE  /\ GivenOnce(Dispatched(v, peer)) /\ NoEmptyGiven(Dispatched(v, peer))
         /\ GivenFrames(Dispatched(v, peer)) \subseteq
              FramesOf(pending[v]) \union (IF amd[v].on THEN {FrameOf(amd[v].acc)} ELSE {})
<1> DEFINE last == IF amd[v].acc = <<>> THEN <<>> ELSE <<amd[v].acc>>
           all == pending[v] \o last
           d == Dispatched(v, peer)
<1>1. v \in Windows /\ amd[v].acc \in Seq(Pieces) /\ pending[v] \in Seq(Seq(Pieces))
  BY DEF ReceptionTypeOK, Windows
<1>2. FrameOnce(pending[v]) /\ NoEmpty(pending[v]) /\ (amd[v].on <=> amd[v].acc # <<>>)
  BY <1>1 DEF PlacesInv
<1>3. amd[v].acc # <<>> => FrameOf(amd[v].acc) \notin FramesOf(pending[v])
  <2> SUFFICES ASSUME amd[v].acc # <<>> PROVE FrameOf(amd[v].acc) \notin FramesOf(pending[v])
    OBVIOUS
  <2> DEFINE p == IF v = "call" THEN "calls" ELSE "answers"
  <2>1. p \in Places /\ v \in Places /\ p # v
    BY <1>1 DEF Places, Windows
  <2>2. At[p] = FramesOf(pending[v]) /\ At[v] = {FrameOf(amd[v].acc)}
    BY <1>1, <1>2, <2>1 DEF At, Windows
  <2>3. At[p] \intersect At[v] = {}
    BY <2>1 DEF PlacesInv
  <2>4. QED BY <2>2, <2>3
<1>4. /\ FrameOnce(all) /\ NoEmpty(all)
      /\ FramesOf(all) = FramesOf(pending[v]) \union (IF amd[v].on THEN {FrameOf(amd[v].acc)} ELSE {})
  <2>1. CASE amd[v].acc = <<>>
    <3>1. all = pending[v]
      BY <2>1, <1>1
    <3>2. QED BY <3>1, <2>1, <1>2
  <2>2. CASE amd[v].acc # <<>>
    <3>1. all = Append(pending[v], amd[v].acc)
      BY <2>2, <1>1
    <3>2. QED BY <3>1, <2>2, <1>1, <1>2, <1>3, FramesAppend
  <2>3. QED BY <2>1, <2>2
<1>6. d = IF peer = Nobody THEN <<>>
        ELSE [i \in DOMAIN all |-> [win |-> v, peer |-> peer, acc |-> all[i]]]
  BY DEF Dispatched
<1> HIDE DEF all, d
<1>7. CASE peer = Nobody
  BY <1>6, <1>7 DEF GivenOnce, NoEmptyGiven, GivenFrames, d
<1>8. CASE peer # Nobody
  <2>1. DOMAIN d = DOMAIN all /\ \A i \in DOMAIN d : d[i].acc = all[i]
    BY <1>6, <1>8
  <2>2. GivenFrames(d) = FramesOf(all)
    BY <2>1 DEF GivenFrames, FramesOf
  <2>3. GivenOnce(d) /\ NoEmptyGiven(d)
    BY <2>1, <1>4 DEF GivenOnce, NoEmptyGiven, FrameOnce, NoEmpty
  <2>4. QED BY <2>2, <2>3, <1>4 DEF d
<1>9. QED BY <1>7, <1>8

\* Each place hands what it held to one place at most; what is new comes to one.
LEMMA PlacesMove ==
  ASSUME NEW A, NEW N, NEW new, NEW To,
         \A p, q \in Places : p # q => A[p] \intersect A[q] = {},
         \A p \in Places : A[p] \intersect new = {},
         \A p \in Places : \A x \in N[p] :
           \/ \E q \in Places : To[q] = p /\ x \in A[q]
           \/ To["new"] = p /\ x \in new
  PROVE  \A p, q \in Places : p # q => N[p] \intersect N[q] = {}
<1> SUFFICES ASSUME NEW p \in Places, NEW q \in Places, p # q, NEW x, x \in N[p], x \in N[q]
             PROVE  FALSE
  OBVIOUS
<1>1. CASE (\E r \in Places : To[r] = p /\ x \in A[r]) /\ (\E r \in Places : To[r] = q /\ x \in A[r])
  <2>1. PICK r \in Places : To[r] = p /\ x \in A[r]
    BY <1>1
  <2>2. PICK s \in Places : To[s] = q /\ x \in A[s]
    BY <1>1
  <2>3. r # s /\ A[r] \intersect A[s] = {}
    BY <2>1, <2>2
  <2>4. QED BY <2>1, <2>2, <2>3
<1>2. CASE (\E r \in Places : To[r] = p /\ x \in A[r]) /\ To["new"] = q /\ x \in new
  BY <1>2
<1>3. CASE (\E r \in Places : To[r] = q /\ x \in A[r]) /\ To["new"] = p /\ x \in new
  BY <1>3
<1>4. CASE To["new"] = p /\ To["new"] = q
  BY <1>4
<1>5. QED BY <1>1, <1>2, <1>3, <1>4

\* A word moves the text it completes, and begins one of the frame on the air.
LEMMA PlacesTextHeard ==
  ASSUME ReceptionTypeOK, Partnered, PlacesInv, AirShape, air.left # <<>>,
         NEW w, w = air.left[1], TextHeard(air.by, w), air'.left = Tail(air.left), frames' = frames
  PROVE  PlacesInv'
<1> DEFINE by == air.by
           win == WindowOf(sm.st)
           piece == [by |-> by, x |-> w.x]
<1>0. by \in Stations /\ w \in WordSet /\ frames \in Nat
  BY WordTaken DEF Partnered, ReceptionTypeOK
<1>1. \A v \in Windows : (amd[v].on <=> amd[v].acc # <<>>) /\ (amd[v].on \/ amd[v].acc = <<>>)
  BY DEF PlacesInv
<1>2a. PICK step \in [acc : Accs, done : Seq(Pieces)], own \in [{"linked", "ack"} -> Anyone],
           g1 \in Seq(Texts), g2 \in Seq(Texts) : TextTaken(win, by, w, step, own, g1, g2)
  BY <1>0, <1>1, TextHeardFacts
<1>2b. step \in [acc : Accs, done : Seq(Pieces)] /\ own \in [{"linked", "ack"} -> Anyone]
      /\ g1 \in Seq(Texts) /\ g2 \in Seq(Texts)
  OBVIOUS
<1>2. /\ win = "none" \/ win \in Windows
      /\ win \in Windows => step = Step(amd[win], by, w)
      /\ amd' = [v \in Windows |-> IF v = win THEN step.acc
                                   ELSE IF v \in {"linked", "ack"} THEN Quiet ELSE amd[v]]
      /\ pending' = [v \in {"call", "resp"} |->
                       IF v = win /\ step.done # <<>> THEN Append(pending[v], step.done)
                       ELSE pending[v]]
      /\ g1 = Given("linked", own["linked"], IF win = "linked" THEN step.done ELSE amd["linked"].acc)
      /\ g2 = Given("ack", own["ack"], IF win = "ack" THEN step.done ELSE amd["ack"].acc)
      /\ texts' = texts \o g1 \o g2
  BY <1>2a DEF TextTaken
<1>3. piece \in Pieces /\ piece.x = w.x
  BY <1>0 DEF Pieces, WordSet
<1>4. Quiet.acc = <<>> /\ ~Quiet.on
  BY DEF Quiet
<1>5. /\ "linked" \in Windows /\ "ack" \in Windows /\ "call" \in Windows /\ "resp" \in Windows
      /\ "none" \notin Windows /\ Windows \subseteq Places
      /\ "given" \in Places /\ "calls" \in Places /\ "answers" \in Places
      /\ "given" \notin Windows /\ "calls" \notin Windows /\ "answers" \notin Windows
      /\ Windows = {"call", "resp", "linked", "ack"}
  BY DEF Windows, Places
<1>6. \A v \in Windows : amd[v] \in Accs /\ amd[v].acc \in Seq(Pieces)
  BY DEF ReceptionTypeOK, Accs
<1> HIDE DEF by, piece, win
<1>7. win \in Windows =>
         \/ /\ w.t = "CMD" /\ step.acc = [on |-> TRUE, acc |-> <<piece>>]
            /\ step.done = amd[win].acc
         \/ /\ w.t # "CMD" /\ step.acc = Quiet
            /\ step.done = amd[win].acc
         \/ /\ w.t # "CMD" /\ step.acc = amd[win]
            /\ step.done = <<>>
         \/ /\ w.t # "CMD" /\ amd[win].on
            /\ step.acc = [on |-> TRUE, acc |-> Append(amd[win].acc, piece)]
            /\ step.done = <<>>
  <2> SUFFICES ASSUME win \in Windows
               PROVE  \/ /\ w.t = "CMD" /\ step.acc = [on |-> TRUE, acc |-> <<piece>>]
                         /\ step.done = amd[win].acc
                      \/ /\ w.t # "CMD" /\ step.acc = Quiet
                         /\ step.done = amd[win].acc
                      \/ /\ w.t # "CMD" /\ step.acc = amd[win]
                         /\ step.done = <<>>
                      \/ /\ w.t # "CMD" /\ amd[win].on
                         /\ step.acc = [on |-> TRUE, acc |-> Append(amd[win].acc, piece)]
                         /\ step.done = <<>>
    OBVIOUS
  <2> DEFINE a == amd[win]
  <2>1. a \in Accs /\ (a.on \/ a.acc = <<>>) /\ step = Step(a, by, w)
        /\ by \in Stations /\ w \in WordSet
    BY <1>0, <1>1, <1>2, <1>6
  <2> HIDE DEF a
  <2>2. \/ /\ w.t = "CMD" /\ Step(a, by, w).acc = [on |-> TRUE, acc |-> <<piece>>]
           /\ Step(a, by, w).done = a.acc
        \/ /\ w.t # "CMD" /\ Step(a, by, w).acc = Quiet
           /\ Step(a, by, w).done = a.acc
        \/ /\ w.t # "CMD" /\ Step(a, by, w).acc = a
           /\ Step(a, by, w).done = <<>>
        \/ /\ w.t # "CMD" /\ a.on
           /\ Step(a, by, w).acc = [on |-> TRUE, acc |-> Append(a.acc, piece)]
           /\ Step(a, by, w).done = <<>>
    BY <2>1, StepCases DEF piece
  <2>3. QED BY <2>1, <2>2, Zenon DEF a
\* What the windows hold now.
<1> DEFINE new == IF w.t = "CMD" THEN {-frames} ELSE {}
           \* does the window pass on what it held?
           passed == win \in Windows /\ step.done # <<>>
           To == [p \in Places \union {"new"} |->
                    IF p = "new" THEN win
                    ELSE IF p = win THEN (IF ~passed THEN win
                                          ELSE IF win = "call" THEN "calls"
                                          ELSE IF win = "resp" THEN "answers" ELSE "given")
                    ELSE IF p \in {"linked", "ack"} THEN "given" ELSE p]
<1>8. FrameOf(<<piece>>) = w.x /\ (w.t = "CMD" => w.x = -frames)
  <2>1. FrameOf(<<piece>>) = piece.x
    BY DEF FrameOf
  <2>2. FrameShape(air.left, frames) /\ 1 \in DOMAIN air.left
    <3>1. air.left \in Seq(WordSet)
      BY DEF ReceptionTypeOK, WordSet
    <3>2. QED BY <3>1 DEF AirShape
  <2>3. QED BY <2>1, <2>2, <1>3 DEF FrameShape
<1>9. \A acc \in Seq(Pieces) : acc # <<>> => FrameOf(Append(acc, piece)) = FrameOf(acc)
                                             /\ Append(acc, piece) # <<>>
  <2> SUFFICES ASSUME NEW acc \in Seq(Pieces), acc # <<>>
               PROVE  Append(acc, piece)[1] = acc[1] /\ Append(acc, piece) # <<>>
    BY DEF FrameOf
  <2>1. Len(acc) \in Nat /\ Len(acc) >= 1
    OBVIOUS
  <2>2. Len(Append(acc, piece)) = Len(acc) + 1 /\ Append(acc, piece)[1] = acc[1]
    BY <2>1
  <2>3. QED BY <2>1, <2>2, SMTT(60)
<1>10. \A p \in Places : -frames \notin At[p] \/ w.t # "CMD"
  <2> SUFFICES ASSUME w.t = "CMD" PROVE \A p \in Places : -frames \notin At[p]
    OBVIOUS
  <2>1. 1 \in DOMAIN air.left
    BY DEF ReceptionTypeOK
  <2>2. QED BY <2>1 DEF PlacesInv
<1>11. \A v \in Windows : At[v] = IF amd[v].on THEN {FrameOf(amd[v].acc)} ELSE {}
  BY <1>5 DEF At
<1>12. At["given"] = GivenFrames(texts) /\ At["calls"] = FramesOf(pending["call"])
       /\ At["answers"] = FramesOf(pending["resp"])
  BY <1>5 DEF At
<1>13. \A v \in Windows : At'[v] = IF amd'[v].on THEN {FrameOf(amd'[v].acc)} ELSE {}
  BY <1>5 DEF At
<1>14. At'["given"] = GivenFrames(texts') /\ At'["calls"] = FramesOf(pending'["call"])
       /\ At'["answers"] = FramesOf(pending'["resp"])
  BY <1>5 DEF At
\* the window of the state
<1>15. win \in Windows => (amd'[win].on <=> amd'[win].acc # <<>>)
  <2> SUFFICES ASSUME win \in Windows PROVE amd'[win].on <=> amd'[win].acc # <<>>
    OBVIOUS
  <2>1. amd'[win] = step.acc
    BY <1>2
  <2>2. step.acc.on <=> step.acc.acc # <<>>
    <3>1. CASE step.acc = [on |-> TRUE, acc |-> <<piece>>]
      BY <3>1
    <3>2. CASE step.acc = Quiet
      BY <3>2, <1>4
    <3>3. CASE step.acc = amd[win]
      BY <3>3, <1>1
    <3>4. CASE amd[win].on /\ step.acc = [on |-> TRUE, acc |-> Append(amd[win].acc, piece)]
      <4>1. Append(amd[win].acc, piece) # <<>>
        BY <3>4, <1>1, <1>6, <1>9
      <4>2. QED BY <3>4, <4>1
    <3>5. QED BY <1>7, <3>1, <3>2, <3>3, <3>4
  <2>3. QED BY <2>1, <2>2
<1>16. win \in Windows => \A x \in At'[win] : x \in new \/ (~passed /\ x \in At[win])
  <2> SUFFICES ASSUME win \in Windows, NEW x \in At'[win]
               PROVE  x \in new \/ (~passed /\ x \in At[win])
    OBVIOUS
  <2>1. amd'[win] = step.acc
    BY <1>2
  <2>2. step.acc.on /\ x = FrameOf(step.acc.acc)
    BY <1>13, <2>1
  <2>3. CASE w.t = "CMD" /\ step.acc = [on |-> TRUE, acc |-> <<piece>>]
    BY <2>2, <2>3, <1>8
  <2>4. CASE step.acc = Quiet
    BY <2>2, <2>4, <1>4
  <2>5. CASE step.acc = amd[win] /\ step.done = <<>>
    BY <2>2, <2>5, <1>11
  <2>6. CASE amd[win].on /\ step.acc = [on |-> TRUE, acc |-> Append(amd[win].acc, piece)] /\ step.done = <<>>
    <3>1. x = FrameOf(amd[win].acc)
      BY <2>2, <2>6, <1>1, <1>6, <1>9
    <3>2. QED BY <3>1, <2>6, <1>11
  <2>7. QED BY <1>7, <2>3, <2>4, <2>5, <2>6
<1>17. passed => step.done = amd[win].acc /\ amd[win].on /\ At[win] = {FrameOf(step.done)}
  BY <1>1, <1>7, <1>11
<1>18. \A v \in Windows \ {win} : amd'[v] = IF v \in {"linked", "ack"} THEN Quiet ELSE amd[v]
  BY <1>2
\* the texts pending
<1>19. ASSUME NEW v \in {"call", "resp"}
       PROVE  /\ NoEmpty(pending'[v]) /\ FrameOnce(pending'[v])
              /\ FramesOf(pending'[v]) = FramesOf(pending[v]) \union
                   IF passed /\ win = v THEN At[win] ELSE {}
  <2>1. NoEmpty(pending[v]) /\ FrameOnce(pending[v]) /\ pending[v] \in Seq(Seq(Pieces))
    BY DEF PlacesInv, ReceptionTypeOK
  <2>2. CASE passed /\ win = v
    <3> DEFINE p == IF v = "call" THEN "calls" ELSE "answers"
    <3>1. At[p] = FramesOf(pending[v]) /\ p \in Places /\ v \in Places /\ p # v
      BY <1>5, <1>12
    <3>2. At[p] \intersect At[v] = {}
      BY <3>1 DEF PlacesInv
    <3>3. FrameOf(step.done) \notin FramesOf(pending[v]) /\ step.done # <<>> /\ step.done \in Seq(Pieces)
      BY <2>2, <3>1, <3>2, <1>17, <1>2
    <3>4. pending'[v] = Append(pending[v], step.done)
      BY <1>2, <2>2
    <3>5. QED BY <2>1, <2>2, <3>3, <3>4, <1>17, FramesAppend
  <2>3. CASE ~(passed /\ win = v)
    <3>1. pending'[v] = pending[v]
      BY <1>2, <1>5, <2>3
    <3>2. QED BY <3>1, <2>1, <2>3
  <2>4. QED BY <2>2, <2>3
\* the texts given
<1>20. /\ GivenOnce(g1) /\ NoEmptyGiven(g1)
       /\ GivenFrames(g1) \subseteq IF win = "linked" /\ ~passed THEN {} ELSE At["linked"]
       /\ GivenOnce(g2) /\ NoEmptyGiven(g2)
       /\ GivenFrames(g2) \subseteq IF win = "ack" /\ ~passed THEN {} ELSE At["ack"]
  <2>1. step.done \in Seq(Pieces) /\ own["linked"] \in Anyone /\ own["ack"] \in Anyone
    BY <1>2
  <2>2. ASSUME NEW v \in {"linked", "ack"}, NEW g, g = Given(v, own[v], IF win = v THEN step.done ELSE amd[v].acc)
        PROVE  GivenOnce(g) /\ NoEmptyGiven(g) /\ GivenFrames(g) \subseteq IF win = v /\ ~passed THEN {} ELSE At[v]
    <3> DEFINE d == IF win = v THEN step.done ELSE amd[v].acc
    <3>1. d \in Seq(Pieces) /\ own[v] \in Anyone /\ v \in Windows
      BY <2>1, <1>5, <1>6
    <3>2. (IF d = <<>> THEN {} ELSE {FrameOf(d)}) \subseteq IF win = v /\ ~passed THEN {} ELSE At[v]
      <4>1. CASE win = v
        BY <4>1, <3>1, <1>17
      <4>2. CASE win # v
        BY <4>2, <3>1, <1>1, <1>11
      <4>3. QED BY <4>1, <4>2
    <3> HIDE DEF d
    <3>3. g = Given(v, own[v], d)
      BY <2>2 DEF d
    <3>4. QED BY <3>1, <3>2, <3>3, FramesOfGiven
  <2>3. QED BY <1>2, <2>2
<1> HIDE DEF passed
<1>21. /\ GivenOnce(texts') /\ NoEmptyGiven(texts')
       /\ GivenFrames(texts') = GivenFrames(texts) \union GivenFrames(g1) \union GivenFrames(g2)
  <2>1. texts \in Seq(Texts) /\ GivenOnce(texts) /\ NoEmptyGiven(texts)
    BY DEF ReceptionTypeOK, Texts, PlacesInv
  <2>2. At["given"] \intersect At["linked"] = {} /\ At["given"] \intersect At["ack"] = {}
        /\ At["linked"] \intersect At["ack"] = {}
    <3>1. "given" # "linked" /\ "given" # "ack" /\ "linked" # "ack"
      OBVIOUS
    <3>2. "linked" \in Places /\ "ack" \in Places /\ "given" \in Places
      BY <1>5
    <3>3. QED BY <3>1, <3>2 DEF PlacesInv
  <2>3. GivenFrames(g1) \subseteq At["linked"] /\ GivenFrames(g2) \subseteq At["ack"]
    BY <1>20
  <2>4. GivenFrames(texts) \intersect GivenFrames(g1) = {}
    BY <2>2, <2>3, <1>12
  <2>5. /\ texts \o g1 \in Seq(Texts) /\ GivenOnce(texts \o g1) /\ NoEmptyGiven(texts \o g1)
        /\ GivenFrames(texts \o g1) = GivenFrames(texts) \union GivenFrames(g1)
    BY <2>1, <2>4, <1>2, <1>20, FramesConcat
  <2>6. GivenFrames(texts \o g1) \intersect GivenFrames(g2) = {}
    BY <2>2, <2>3, <2>5, <1>12
  <2>7. QED BY <2>5, <2>6, <1>2, <1>20, FramesConcat
\* where everything went
<1>22. ASSUME NEW p \in Places, NEW x \in At'[p]
       PROVE  \/ \E q \in Places : To[q] = p /\ x \in At[q]
              \/ To["new"] = p /\ x \in new
  <2>1. CASE p = "given"
    <3>1. x \in At["given"] \/ x \in GivenFrames(g1) \/ x \in GivenFrames(g2)
      BY <2>1, <1>12, <1>14, <1>21
    <3>2. CASE x \in At["given"]
      <4>1. "given" # win /\ "given" \notin {"linked", "ack", "new"}
        BY <1>2, <1>5
      <4>2. To["given"] = "given"
        BY <4>1, <1>5
      <4>3. QED BY <2>1, <3>2, <4>2, <1>5
    <3>3. CASE x \in GivenFrames(g1)
      <4>1. x \in At["linked"] /\ (win = "linked" => passed)
        BY <3>3, <1>20
      <4>2. To["linked"] = "given"
        BY <4>1, <1>5
      <4>3. QED BY <2>1, <4>1, <4>2, <1>5
    <3>4. CASE x \in GivenFrames(g2)
      <4>1. x \in At["ack"] /\ (win = "ack" => passed)
        BY <3>4, <1>20
      <4>2. To["ack"] = "given"
        BY <4>1, <1>5
      <4>3. QED BY <2>1, <4>1, <4>2, <1>5
    <3>5. QED BY <3>1, <3>2, <3>3, <3>4
  <2>2. ASSUME NEW v \in {"call", "resp"}, p = IF v = "call" THEN "calls" ELSE "answers"
        PROVE  \E q \in Places : To[q] = p /\ x \in At[q]
    <3>1. p \notin {"linked", "ack", "new"} /\ p # win /\ v \in Places
      BY <2>2, <1>2, <1>5
    <3>2. To[p] = p
      BY <3>1
    <3>3. At[p] = FramesOf(pending[v]) /\ At'[p] = FramesOf(pending'[v])
      BY <2>2, <1>12, <1>14
    <3>4. x \in At[p] \/ (passed /\ win = v /\ x \in At[win])
      BY <3>3, <1>19
    <3>5. passed /\ win = v => To[v] = p
      BY <2>2, <3>1
    <3>6. QED BY <3>1, <3>2, <3>4, <3>5
  <2>3. CASE p = win /\ p \in Windows
    <3>1. x \in new \/ (~passed /\ x \in At[win])
      BY <2>3, <1>16
    <3>2. To["new"] = win
      OBVIOUS
    <3>3. win # "new"
      BY <2>3, <1>5
    <3>4. ~passed => To[win] = win
      BY <2>3, <3>3
    <3>5. QED BY <2>3, <3>1, <3>2, <3>4
  <2>4. CASE p \in Windows /\ p # win
    <3>1. amd'[p] = IF p \in {"linked", "ack"} THEN Quiet ELSE amd[p]
      BY <2>4, <1>18
    <3>2. p \notin {"linked", "ack"}
      BY <2>4, <3>1, <1>4, <1>13
    <3>3. x \in At[p]
      BY <2>4, <3>1, <3>2, <1>11, <1>13
    <3>4. To[p] = p
      BY <2>4, <3>2, <1>5
    <3>5. QED BY <3>3, <3>4
  <2>5. p = "given" \/ p = "calls" \/ p = "answers" \/ p \in Windows
    BY DEF Places
  <2>6. QED BY <2>1, <2>2, <2>3, <2>4, <2>5
<1> HIDE DEF To, new
<1>23. \A p \in Places : At[p] \intersect new = {}
  BY <1>10 DEF new
<1>24. \A p, q \in Places : p # q => At'[p] \intersect At'[q] = {}
  <2>1. \A p, q \in Places : p # q => At[p] \intersect At[q] = {}
    BY DEF PlacesInv
  <2>2. QED BY <2>1, <1>22, <1>23, PlacesMove, SMTT(60)
<1>25. \A p \in Places : \A x \in At'[p] : x \in Int /\ x >= -frames
  <2> SUFFICES ASSUME NEW p \in Places, NEW x \in At'[p] PROVE x \in Int /\ x >= -frames
    OBVIOUS
  <2>1. (\E q \in Places : x \in At[q]) \/ x \in new
    BY <1>22
  <2>2. CASE \E q \in Places : x \in At[q]
    BY <2>2 DEF PlacesInv
  <2>3. CASE x \in new
    BY <2>3, <1>0 DEF new
  <2>4. QED BY <2>1, <2>2, <2>3
<1>26. (\E i \in DOMAIN air'.left : air'.left[i].t = "CMD") => \A p \in Places : -frames \notin At'[p]
  <2> SUFFICES ASSUME NEW i \in DOMAIN air'.left, air'.left[i].t = "CMD"
               PROVE  \A p \in Places : -frames \notin At'[p]
    OBVIOUS
  <2>1. /\ Len(air.left) \in Nat /\ Len(Tail(air.left)) = Len(air.left) - 1
        /\ Tail(air.left) \in Seq(WordSet) /\ air.left \in Seq(WordSet)
        /\ i + 1 \in DOMAIN air.left /\ air'.left[i] = air.left[i + 1]
    BY WordTaken DEF ReceptionTypeOK, WordSet
  <2>2. i + 1 # 1 /\ 1 \in DOMAIN air.left
    BY <2>1
  <2>3. w.t # "CMD"
    BY <2>1, <2>2 DEF AirShape, FrameShape
  <2>4. \A p \in Places : -frames \notin At[p]
    BY <2>1 DEF PlacesInv
  <2>5. QED BY <2>3, <2>4, <1>22 DEF new
<1>27. \A v \in Windows : amd'[v].on <=> amd'[v].acc # <<>>
  BY <1>1, <1>4, <1>15, <1>18
<1>28. QED BY <1>19, <1>21, <1>24, <1>25, <1>26, <1>27 DEF PlacesInv

\* What is not new is where it was or somewhere else, or gone.
LEMMA PlacesShift ==
  ASSUME PlacesInv, frames' = frames, NEW To,
         \A v \in Windows : amd'[v].on <=> amd'[v].acc # <<>>,
         \A v \in {"call", "resp"} : NoEmpty(pending'[v]) /\ FrameOnce(pending'[v]),
         NoEmptyGiven(texts'), GivenOnce(texts'),
         \A p \in Places : \A x \in At'[p] : \E q \in Places : To[q] = p /\ x \in At[q],
         (\E i \in DOMAIN air'.left : air'.left[i].t = "CMD") => \E i \in DOMAIN air.left : air.left[i].t = "CMD"
  PROVE  PlacesInv'
<1>1. \A p, q \in Places : p # q => At'[p] \intersect At'[q] = {}
  <2>1. \A p \in Places : At[p] \intersect {} = {}
    OBVIOUS
  <2>2. \A p, q \in Places : p # q => At[p] \intersect At[q] = {}
    BY DEF PlacesInv
  <2> DEFINE N == At'
             A == At
  <2>3. \A p \in Places : \A x \in N[p] :
           \/ \E q \in Places : To[q] = p /\ x \in A[q]
           \/ To["new"] = p /\ x \in {}
    OBVIOUS
  <2> HIDE DEF N, A
  <2>4. \A p, q \in Places : p # q => N[p] \intersect N[q] = {}
    BY <2>1, <2>2, <2>3, PlacesMove DEF A
  <2>5. QED BY <2>4 DEF N
<1>2. \A p \in Places : \A x \in At'[p] : x \in Int /\ x >= -frames
  BY DEF PlacesInv
<1>3. (\E i \in DOMAIN air'.left : air'.left[i].t = "CMD") => \A p \in Places : -frames \notin At'[p]
  BY DEF PlacesInv
<1>4. QED BY <1>1, <1>2, <1>3 DEF PlacesInv

\* What is held where.
LEMMA AtFacts ==
  /\ \A v \in Windows : At[v] = IF amd[v].on THEN {FrameOf(amd[v].acc)} ELSE {}
  /\ At["given"] = GivenFrames(texts) /\ At["calls"] = FramesOf(pending["call"])
  /\ At["answers"] = FramesOf(pending["resp"])
  /\ \A v \in Windows : At'[v] = IF amd'[v].on THEN {FrameOf(amd'[v].acc)} ELSE {}
  /\ At'["given"] = GivenFrames(texts') /\ At'["calls"] = FramesOf(pending'["call"])
  /\ At'["answers"] = FramesOf(pending'["resp"])
  /\ Places = {"call", "resp", "linked", "ack", "given", "calls", "answers"}
  /\ Windows = {"call", "resp", "linked", "ack"}
  BY DEF At, Places, Windows

\* Closing a window moves its texts to the operator.
LEMMA PlacesClosed ==
  ASSUME ReceptionTypeOK, PlacesInv, NEW v \in {"call", "resp"}, NEW peer \in Anyone,
         Closed(v, peer), frames' = frames, air'.left \in {air.left, <<>>}
  PROVE  PlacesInv'
<1> DEFINE d == Dispatched(v, peer)
           pl == IF v = "call" THEN "calls" ELSE "answers"
           To == [p \in Places |-> IF p \in {v, pl} THEN "given" ELSE p]
<1>1. /\ GivenOnce(d) /\ NoEmptyGiven(d)
      /\ GivenFrames(d) \subseteq FramesOf(pending[v]) \union (IF amd[v].on THEN {FrameOf(amd[v].acc)} ELSE {})
  BY FramesOfDispatched
<1>2. GivenFrames(d) \subseteq At[v] \union At[pl] /\ v \in Windows /\ v \in Places /\ pl \in Places
      /\ v # "given" /\ pl # "given" /\ "given" \in Places
  BY <1>1, AtFacts
<1>3. texts' = texts \o d /\ d \in Seq(Texts) /\ texts \in Seq(Texts)
  BY DispatchedType DEF Closed, ReceptionTypeOK, Texts
<1> HIDE DEF d
<1>4. GivenFrames(texts) \intersect GivenFrames(d) = {}
  <2>1. At["given"] \intersect At[v] = {} /\ At["given"] \intersect At[pl] = {}
    BY <1>2 DEF PlacesInv
  <2>2. QED BY <2>1, <1>2, AtFacts
<1>5. /\ GivenOnce(texts') /\ NoEmptyGiven(texts')
      /\ GivenFrames(texts') = GivenFrames(texts) \union GivenFrames(d)
  <2>1. GivenOnce(texts) /\ NoEmptyGiven(texts)
    BY DEF PlacesInv
  <2>2. QED BY <2>1, <1>1, <1>3, <1>4, FramesConcat
<1>6. \A u \in Windows : amd'[u] = IF u = v THEN Quiet ELSE amd[u]
  BY DEF Closed, ReceptionTypeOK
<1>7. \A u \in {"call", "resp"} : pending'[u] = IF u = v THEN <<>> ELSE pending[u]
  BY DEF Closed, ReceptionTypeOK
<1>8. ~Quiet.on /\ Quiet.acc = <<>> /\ NoEmpty(<<>>) /\ FrameOnce(<<>>) /\ FramesOf(<<>>) = {}
  BY DEF Quiet, NoEmpty, FrameOnce, FramesOf
<1>9. ASSUME NEW p \in Places, NEW x \in At'[p]
      PROVE  \E q \in Places : To[q] = p /\ x \in At[q]
  <2>1. CASE p = "given"
    <3>1. x \in At["given"] \/ x \in At[v] \/ x \in At[pl]
      BY <2>1, <1>2, <1>5, AtFacts
    <3>2. To["given"] = "given" /\ To[v] = "given" /\ To[pl] = "given"
      BY <1>2
    <3>3. QED BY <2>1, <3>1, <3>2, <1>2
  <2>2. CASE p = pl
    <3>1. At'[p] = {}
      BY <2>2, <1>7, <1>8, AtFacts
    <3>2. QED BY <3>1
  <2>3. CASE p \in {"calls", "answers"} /\ p # pl
    <3>1. At'[p] = At[p]
      BY <2>3, <1>7, AtFacts
    <3>2. To[p] = p
      BY <2>3, <1>2
    <3>3. QED BY <3>1, <3>2
  <2>4. CASE p = v
    <3>1. At'[p] = {}
      BY <2>4, <1>2, <1>6, <1>8, AtFacts
    <3>2. QED BY <3>1
  <2>5. CASE p \in Windows /\ p # v
    <3>1. At'[p] = At[p]
      BY <2>5, <1>6, AtFacts
    <3>2. To[p] = p
      BY <2>5, AtFacts
    <3>3. QED BY <3>1, <3>2
  <2>6. QED BY <2>1, <2>2, <2>3, <2>4, <2>5, AtFacts
<1>10. \A u \in Windows : amd'[u].on <=> amd'[u].acc # <<>>
  BY <1>6, <1>8 DEF PlacesInv
<1>11. \A u \in {"call", "resp"} : NoEmpty(pending'[u]) /\ FrameOnce(pending'[u])
  BY <1>7, <1>8 DEF PlacesInv
<1> HIDE DEF To
<1>12. QED BY <1>5, <1>9, <1>10, <1>11, PlacesShift

\* A call heard drops the texts of the last one and gives the strays.
LEMMA PlacesCalled ==
  ASSUME ReceptionTypeOK, Partnered, PlacesInv, NEW w, Called(air.by, w), frames' = frames,
         air.left # <<>>, air'.left = Tail(air.left)
  PROVE  PlacesInv'
<1> DEFINE g1 == Given("linked", owner["linked"], amd["linked"].acc)
           g2 == Given("ack", owner["ack"], amd["ack"].acc)
           To == [p \in Places |-> IF p \in {"linked", "ack"} THEN "given"
                                   ELSE IF p \in {"call", "calls"} THEN "gone" ELSE p]
<1>1. /\ texts' = texts \o g1 \o g2
      /\ amd' = [v \in Windows |-> IF v = "resp" THEN amd[v] ELSE Quiet]
      /\ pending' = [pending EXCEPT !["call"] = <<>>]
  BY DEF Called
<1>2. /\ g1 \in Seq(Texts) /\ GivenOnce(g1) /\ NoEmptyGiven(g1) /\ GivenFrames(g1) \subseteq At["linked"]
      /\ g2 \in Seq(Texts) /\ GivenOnce(g2) /\ NoEmptyGiven(g2) /\ GivenFrames(g2) \subseteq At["ack"]
  <2>1. ASSUME NEW v \in {"linked", "ack"}, NEW g, g = Given(v, owner[v], amd[v].acc)
        PROVE  g \in Seq(Texts) /\ GivenOnce(g) /\ NoEmptyGiven(g) /\ GivenFrames(g) \subseteq At[v]
    <3>1. v \in Windows /\ owner[v] \in Anyone /\ amd[v].acc \in Seq(Pieces)
          /\ (amd[v].on <=> amd[v].acc # <<>>)
      BY DEF ReceptionTypeOK, PlacesInv, Windows
    <3>2. (IF amd[v].acc = <<>> THEN {} ELSE {FrameOf(amd[v].acc)}) \subseteq At[v]
      BY <3>1, AtFacts
    <3>3. QED BY <2>1, <3>1, <3>2, GivenType, FramesOfGiven
  <2>2. QED BY <2>1
<1> HIDE DEF g1, g2
<1>3. /\ GivenOnce(texts') /\ NoEmptyGiven(texts')
      /\ GivenFrames(texts') = GivenFrames(texts) \union GivenFrames(g1) \union GivenFrames(g2)
  <2>1. texts \in Seq(Texts) /\ GivenOnce(texts) /\ NoEmptyGiven(texts)
    BY DEF ReceptionTypeOK, Texts, PlacesInv
  <2>2. At["given"] \intersect At["linked"] = {} /\ At["given"] \intersect At["ack"] = {}
        /\ At["linked"] \intersect At["ack"] = {}
    BY AtFacts DEF PlacesInv
  <2>3. GivenFrames(texts) \intersect GivenFrames(g1) = {}
    BY <2>2, <1>2, AtFacts
  <2>4. /\ texts \o g1 \in Seq(Texts) /\ GivenOnce(texts \o g1) /\ NoEmptyGiven(texts \o g1)
        /\ GivenFrames(texts \o g1) = GivenFrames(texts) \union GivenFrames(g1)
    BY <2>1, <2>3, <1>2, FramesConcat
  <2>5. GivenFrames(texts \o g1) \intersect GivenFrames(g2) = {}
    BY <2>2, <2>4, <1>2, AtFacts
  <2>6. QED BY <2>4, <2>5, <1>1, <1>2, FramesConcat
<1>4. ~Quiet.on /\ Quiet.acc = <<>> /\ NoEmpty(<<>>) /\ FrameOnce(<<>>) /\ FramesOf(<<>>) = {}
  BY DEF Quiet, NoEmpty, FrameOnce, FramesOf
<1>5. pending'["call"] = <<>> /\ pending'["resp"] = pending["resp"]
  BY <1>1 DEF ReceptionTypeOK
<1>6. ASSUME NEW p \in Places, NEW x \in At'[p]
      PROVE  \E q \in Places : To[q] = p /\ x \in At[q]
  <2>1. CASE p = "given"
    <3>1. x \in At["given"] \/ x \in At["linked"] \/ x \in At["ack"]
      BY <2>1, <1>2, <1>3, AtFacts
    <3>2. To["given"] = "given" /\ To["linked"] = "given" /\ To["ack"] = "given"
      BY AtFacts
    <3>3. QED BY <2>1, <3>1, <3>2, AtFacts
  <2>2. CASE p \in {"resp", "answers"}
    <3>1. At'[p] = At[p] /\ To[p] = p
      BY <2>2, <1>1, <1>5, AtFacts
    <3>2. QED BY <3>1
  <2>3. CASE p \in {"call", "linked", "ack", "calls"}
    <3>1. At'[p] = {}
      BY <2>3, <1>1, <1>4, <1>5, AtFacts
    <3>2. QED BY <3>1
  <2>4. QED BY <2>1, <2>2, <2>3, AtFacts
<1>7. \A u \in Windows : amd'[u].on <=> amd'[u].acc # <<>>
  BY <1>1, <1>4 DEF PlacesInv
<1>8. \A u \in {"call", "resp"} : NoEmpty(pending'[u]) /\ FrameOnce(pending'[u])
  BY <1>4, <1>5 DEF PlacesInv
<1>9. (\E i \in DOMAIN air'.left : air'.left[i].t = "CMD") => \E i \in DOMAIN air.left : air.left[i].t = "CMD"
  BY WordTaken
<1> HIDE DEF To
<1>10. QED BY <1>3, <1>6, <1>7, <1>8, <1>9, PlacesShift

\* Every step leaves each text at one place.
LEMMA PlacesStep ==
  ASSUME ReceptionTypeOK, Partnered, PlacesInv, AirShape, ReceptionNext
  PROVE  PlacesInv'
<1>1. ASSUME UNCHANGED <<amd, pending, texts, frames>>,
             (\E i \in DOMAIN air'.left : air'.left[i].t = "CMD") => \E i \in DOMAIN air.left : air.left[i].t = "CMD"
      PROVE  PlacesInv'
  <2>1. At' = At
    BY <1>1 DEF At
  <2>2. QED BY <1>1, <2>1 DEF PlacesInv
<1>2. CASE SettleSounding \/ Silence \/ Alert \/ LinkEnds
  BY <1>1, <1>2 DEF SettleSounding, Silence, Alert, LinkEnds
<1>3. CASE Lost
  <2>1. air.left # <<>> /\ air'.left = Tail(air.left)
    BY <1>3 DEF Lost, ReceptionTypeOK
  <2>2. (\E i \in DOMAIN air'.left : air'.left[i].t = "CMD") => \E i \in DOMAIN air.left : air.left[i].t = "CMD"
    BY <2>1, WordTaken
  <2>3. QED BY <1>1, <1>3, <2>2 DEF Lost
<1>4. CASE Send
  <2>1. frames' = frames + 1 /\ UNCHANGED <<amd, pending, texts>> /\ frames \in Nat
    BY <1>4 DEF Send, ReceptionTypeOK
  <2>2. At' = At
    BY <2>1 DEF At
  <2>3. \A p \in Places : \A x \in At[p] : x \in Int /\ x >= -(frames + 1) /\ x # -(frames + 1)
    BY <2>1 DEF PlacesInv
  <2>4. QED BY <2>1, <2>2, <2>3 DEF PlacesInv
<1>5. CASE SettleLinked
  <2> DEFINE g == Given("linked", owner["linked"], amd["linked"].acc)
             To == [p \in Places |-> IF p = "linked" THEN "given" ELSE p]
  <2>1. /\ texts' = texts \o g /\ amd' = [amd EXCEPT !["linked"] = Quiet]
        /\ UNCHANGED <<pending, frames, air>>
    BY <1>5 DEF SettleLinked
  <2>2. g \in Seq(Texts) /\ GivenOnce(g) /\ NoEmptyGiven(g) /\ GivenFrames(g) \subseteq At["linked"]
    <3>1. "linked" \in Windows /\ owner["linked"] \in Anyone /\ amd["linked"].acc \in Seq(Pieces)
          /\ (amd["linked"].on <=> amd["linked"].acc # <<>>)
      BY DEF ReceptionTypeOK, PlacesInv, Windows
    <3>2. (IF amd["linked"].acc = <<>> THEN {} ELSE {FrameOf(amd["linked"].acc)}) \subseteq At["linked"]
      BY <3>1, AtFacts
    <3>3. QED BY <3>1, <3>2, GivenType, FramesOfGiven
  <2> HIDE DEF g
  <2>3. /\ GivenOnce(texts') /\ NoEmptyGiven(texts')
        /\ GivenFrames(texts') = GivenFrames(texts) \union GivenFrames(g)
    <3>1. texts \in Seq(Texts) /\ GivenOnce(texts) /\ NoEmptyGiven(texts)
      BY DEF ReceptionTypeOK, Texts, PlacesInv
    <3>2. At["given"] \intersect At["linked"] = {}
      BY AtFacts DEF PlacesInv
    <3>3. GivenFrames(texts) \intersect GivenFrames(g) = {}
      BY <2>2, <3>2, AtFacts
    <3>4. QED BY <2>1, <2>2, <3>1, <3>3, FramesConcat
  <2>4. \A u \in Windows : amd'[u] = IF u = "linked" THEN Quiet ELSE amd[u]
    BY <2>1 DEF ReceptionTypeOK
  <2>5. ~Quiet.on /\ Quiet.acc = <<>>
    BY DEF Quiet
  <2>6. ASSUME NEW p \in Places, NEW x \in At'[p]
        PROVE  \E q \in Places : To[q] = p /\ x \in At[q]
    <3>1. CASE p = "given"
      <4>1. x \in At["given"] \/ x \in At["linked"]
        BY <3>1, <2>2, <2>3, AtFacts
      <4>2. To["given"] = "given" /\ To["linked"] = "given"
        BY AtFacts
      <4>3. QED BY <3>1, <4>1, <4>2, AtFacts
    <3>2. CASE p = "linked"
      <4>1. At'[p] = {}
        BY <3>2, <2>4, <2>5, AtFacts
      <4>2. QED BY <4>1
    <3>3. CASE p \notin {"given", "linked"}
      <4>1. At'[p] = At[p]
        <5>1. CASE p \in Windows
          BY <5>1, <3>3, <2>4, AtFacts
        <5>2. CASE p \in {"calls", "answers"}
          BY <5>2, <2>1, AtFacts
        <5>3. QED BY <5>1, <5>2, <3>3, AtFacts
      <4>2. To[p] = p
        BY <3>3
      <4>3. QED BY <4>1, <4>2
    <3>4. QED BY <3>1, <3>2, <3>3
  <2>7. \A u \in Windows : amd'[u].on <=> amd'[u].acc # <<>>
    BY <2>4, <2>5 DEF PlacesInv
  <2>8. \A u \in {"call", "resp"} : NoEmpty(pending'[u]) /\ FrameOnce(pending'[u])
    BY <2>1 DEF PlacesInv
  <2>9. (\E i \in DOMAIN air'.left : air'.left[i].t = "CMD") => \E i \in DOMAIN air.left : air.left[i].t = "CMD"
    BY <2>1
  <2> HIDE DEF To
  <2>10. frames' = frames
    BY <2>1
  <2>11. QED BY <2>3, <2>6, <2>7, <2>8, <2>9, <2>10, PlacesShift
<1>6. CASE Received
  <2> DEFINE w == Head(air.left)
  <2>1. w = air.left[1] /\ air.left # <<>> /\ frames' = frames /\ air'.left = Tail(air.left)
    BY <1>6, WordTaken DEF Received, ReceptionTypeOK
  <2>2. CASE Called(air.by, w)
    BY <2>1, <2>2, PlacesCalled
  <2>3. CASE TextHeard(air.by, w)
    BY <2>1, <2>3, PlacesTextHeard
  <2>4. QED BY <1>6, <2>2, <2>3 DEF Received
<1>7. CASE \E s \in Stations : Call(s)
  <2>1. PICK s \in Stations : Call(s)
    BY <1>7
  <2>2. UNCHANGED <<air, frames, texts>>
    BY <2>1 DEF Call
  <2>3. CASE UNCHANGED <<amd, pending>>
    BY <2>2, <2>3, <1>1
  <2>4. CASE amd' = [amd EXCEPT !["resp"] = Quiet] /\ pending' = [pending EXCEPT !["resp"] = <<>>]
    <3> DEFINE To == [p \in Places |-> p]
    <3>1. ~Quiet.on /\ Quiet.acc = <<>> /\ NoEmpty(<<>>) /\ FrameOnce(<<>>) /\ FramesOf(<<>>) = {}
      BY DEF Quiet, NoEmpty, FrameOnce, FramesOf
    <3>2. /\ \A u \in Windows : amd'[u] = IF u = "resp" THEN Quiet ELSE amd[u]
          /\ pending'["resp"] = <<>> /\ pending'["call"] = pending["call"]
      BY <2>4 DEF ReceptionTypeOK
    <3>3. ASSUME NEW p \in Places, NEW x \in At'[p]
          PROVE  \E q \in Places : To[q] = p /\ x \in At[q]
      <4>1. At'[p] \subseteq At[p]
        <5>1. CASE p \in Windows
          BY <5>1, <3>1, <3>2, AtFacts
        <5>2. CASE p = "given"
          BY <5>2, <2>2, AtFacts
        <5>3. CASE p = "calls"
          BY <5>3, <3>2, AtFacts
        <5>4. CASE p = "answers"
          BY <5>4, <3>1, <3>2, AtFacts
        <5>5. QED BY <5>1, <5>2, <5>3, <5>4, AtFacts
      <4>2. QED BY <4>1
    <3>4. \A u \in Windows : amd'[u].on <=> amd'[u].acc # <<>>
      BY <3>1, <3>2 DEF PlacesInv
    <3>5. \A u \in {"call", "resp"} : NoEmpty(pending'[u]) /\ FrameOnce(pending'[u])
      BY <3>1, <3>2 DEF PlacesInv
    <3>6. NoEmptyGiven(texts') /\ GivenOnce(texts')
      BY <2>2 DEF PlacesInv
    <3> HIDE DEF To
    <3>7. QED BY <2>2, <3>3, <3>4, <3>5, <3>6, PlacesShift
  <2>5. QED BY <2>1, <2>3, <2>4 DEF Call
<1>8. CASE Linked \/ GiveUp
  <2>1. frames' = frames /\ air'.left \in {air.left, <<>>}
    BY <1>8 DEF Linked, GiveUp, ReceptionTypeOK
  <2>2. ActivePeer \in Anyone /\ sm.caller \in Anyone
    BY DEF ReceptionTypeOK, ActivePeer
  <2>3. Closed("call", sm.caller) \/ Closed("resp", ActivePeer)
    BY <1>8 DEF Linked, GiveUp
  <2>4. QED BY <2>1, <2>2, <2>3, PlacesClosed
<1>9. QED BY <1>2, <1>3, <1>4, <1>5, <1>6, <1>7, <1>8 DEF ReceptionNext

\* The inductive invariant of what does not depend on unnoticed losses.
ReceptionInv ==
  ReceptionTypeOK /\ Partnered /\ CreditInv /\ SenderInv /\ PlacesInv /\ AirShape

\* Every step keeps the shape of the frame on the air.
LEMMA AirShapeStep ==
  ASSUME ReceptionTypeOK, AirShape, ReceptionNext
  PROVE  AirShape'
<1>1. CASE Send
  <2>1. frames + 1 \in Nat /\ frames' = frames + 1
    BY <1>1 DEF Send, ReceptionTypeOK
  <2>2. PICK s \in Stations, b \in Bodies(frames + 1), t \in {"TIS", "TWAS"} :
             \/ air' = [by |-> s, left |-> Sounding(t), hit |-> FALSE]
             \/ air' = [by |-> s, left |-> FrameTo(b, t), hit |-> FALSE]
      BY <1>1 DEF Send
  <2>3. air'.left = Sounding(t) \/ air'.left = FrameTo(b, t)
    BY <2>2
  <2>4. QED BY <2>1, <2>3, FrameSentShape DEF AirShape
<1>2. CASE Received \/ Lost
  <2>1. air.left # <<>> /\ air'.left = Tail(air.left) /\ frames' = frames
    BY <1>2 DEF Received, Lost, ReceptionTypeOK
  <2>2. QED BY <2>1, ShapeOfTail DEF AirShape
<1>3. CASE SettleSounding \/ SettleLinked \/ Silence \/ (\E s \in Stations : Call(s)) \/ Alert
           \/ Linked \/ LinkEnds
  <2>1. UNCHANGED <<air, frames>>
    BY <1>3 DEF SettleSounding, SettleLinked, Silence, Call, Alert, Linked, LinkEnds
  <2>2. QED BY <2>1 DEF AirShape
<1>4. CASE GiveUp
  <2>1. air'.left = <<>> /\ frames' = frames
    BY <1>4 DEF GiveUp, ReceptionTypeOK
  <2>2. QED BY <2>1 DEF AirShape, FrameShape
<1>5. QED BY <1>1, <1>2, <1>3, <1>4 DEF ReceptionNext

\* It holds initially.
LEMMA ReceptionInvInit == ReceptionInit => ReceptionInv
<1> SUFFICES ASSUME ReceptionInit PROVE ReceptionInv
  OBVIOUS
<1>1. ReceptionTypeOK
  BY ReceptionTypeInit
<1>2. Partnered
  BY DEF ReceptionInit, Partnered
<1>3. CreditInv
  BY DEF ReceptionInit, CreditInv, Measured, CreditedToSpeaker
<1>4. "linked" \in Windows /\ "ack" \in Windows /\ "call" \in Windows /\ "resp" \in Windows
  BY DEF Windows
<1>5. \A v \in Windows : amd[v] = Quiet
  BY DEF ReceptionInit
<1>6. pending["call"] = <<>> /\ pending["resp"] = <<>> /\ texts = <<>> /\ sm.st = "SCANNING"
      /\ air.left = <<>>
  BY DEF ReceptionInit
<1>7. Quiet.acc = <<>> /\ ~Quiet.on
  BY DEF Quiet
<1>8. SenderInv
  BY <1>4, <1>5, <1>6, <1>7 DEF SenderInv, AllBy, Attributed
<1>9. \A p \in Places : At[p] = {}
  BY <1>5, <1>6, <1>7, AtFacts DEF GivenFrames, FramesOf
<1>10. PlacesInv
  BY <1>5, <1>6, <1>7, <1>9 DEF PlacesInv, NoEmpty, FrameOnce, NoEmptyGiven, GivenOnce
<1>11. AirShape
  BY <1>6 DEF AirShape, FrameShape
<1>12. QED BY <1>1, <1>2, <1>3, <1>8, <1>10, <1>11 DEF ReceptionInv

\* It is an invariant.
LEMMA ReceptionInvariant == ReceptionSpec => []ReceptionInv
<1>1. ReceptionInit => ReceptionInv
  BY ReceptionInvInit
<1>2. ReceptionInv /\ [ReceptionNext]_mvars => ReceptionInv'
  <2> SUFFICES ASSUME ReceptionInv, [ReceptionNext]_mvars PROVE ReceptionInv'
    OBVIOUS
  <2>1. CASE ReceptionNext
    <3>1. ReceptionTypeOK'
      BY <2>1, ReceptionTypeStep DEF ReceptionInv, Partnered
    <3>2. Partnered' /\ CreditInv' /\ SenderInv'
      BY <2>1, PartnerStep, CreditStep, SenderStep DEF ReceptionInv
    <3>3. PlacesInv' /\ AirShape'
      BY <2>1, PlacesStep, AirShapeStep DEF ReceptionInv
    <3>4. QED BY <3>1, <3>2, <3>3 DEF ReceptionInv
  <2>2. CASE UNCHANGED mvars
    <3>1. UNCHANGED <<sm, air, since, session, amd, pending, owner, exchange, quality, frames,
           texts, credits>>
      BY <2>2 DEF mvars
    <3>2. ReceptionTypeOK' /\ Partnered' /\ CreditInv'
      BY <3>1 DEF ReceptionInv, ReceptionTypeOK, SessionOK, Partnered, CreditInv, Measured, CreditedToSpeaker
    <3>3. SenderInv' /\ AirShape'
      BY <3>1 DEF ReceptionInv, SenderInv, AirShape
    <3>4. At' = At
      BY <3>1 DEF At
    <3>5. PlacesInv'
      BY <3>1, <3>4 DEF ReceptionInv, PlacesInv
    <3>6. QED BY <3>2, <3>3, <3>5 DEF ReceptionInv
  <2>3. QED BY <2>1, <2>2
<1>3. QED BY <1>1, <1>2, PTL DEF ReceptionSpec

\* What the database takes down for a station was measured on that station's words, with
\* losses of any kind (LqaExchangeManager, on_sm_state_change).
THEOREM CreditsHold == ReceptionSpec => []CreditedToSpeaker
<1>1. ReceptionInv => CreditedToSpeaker
  BY DEF ReceptionInv, CreditInv
<1>2. QED BY <1>1, ReceptionInvariant, PTL

\* A text reaches the operator once, and a text of a call or of an acknowledgement under
\* the address of its sender (amd_step, amd_dispatch).
THEOREM TextsHold == ReceptionSpec => []TextsFromSender
<1>1. ReceptionInv => TextsFromSender
  <2> SUFFICES ASSUME ReceptionInv PROVE TextsFromSender
    OBVIOUS
  <2>1. \A i \in DOMAIN texts : texts[i].win \in {"call", "ack"} =>
          \A p \in DOMAIN texts[i].acc : texts[i].acc[p].by = texts[i].peer
    BY DEF ReceptionInv, SenderInv, Attributed, AllBy
  <2>2. \A i, j \in DOMAIN texts : i # j => texts[i].acc[1] # texts[j].acc[1]
    BY DEF ReceptionInv, PlacesInv, GivenOnce, FrameOf
  <2>3. QED BY <2>1, <2>2 DEF TextsFromSender
<1>2. QED BY <1>1, ReceptionInvariant, PTL

(***************************************************************************)
(* The majority of the copies of a bit (WordCodec).                        *)
(***************************************************************************)

\* The stretch of symbols that the fade has reached.
FadeTypeOK == fade = [first |-> fade.first, len |-> fade.len] /\ fade.first \in Nat /\ fade.len \in Nat

\* The stream of the decoders is the one of the encoders.
ShortFadeUnseen == hits = {} /\ fade.len <= 16 => Majority = Wire \cap (0..47)

\* Two copies of a bit are at least 16 symbols apart.
LEMMA CopiesApart ==
  ASSUME NEW bit \in Nat, NEW p \in Copies(bit), NEW q \in Copies(bit), p < q
  PROVE  /\ p \in Nat /\ q \in Nat /\ SymbolOf(p) \in Nat /\ SymbolOf(q) \in Nat
         /\ SymbolOf(p) + 16 <= SymbolOf(q)
BY DEF Copies, SymbolOf

\* So a fade that is not longer meets one of them at most.
LEMMA OneCopyFaded ==
  ASSUME FadeTypeOK, fade.len <= 16, NEW bit \in Nat, NEW p \in Copies(bit), NEW q \in Copies(bit),
         p < q
  PROVE  ~Faded(p) \/ ~Faded(q)
BY CopiesApart DEF FadeTypeOK, Faded

\* Three copies of which two carry a bit, and three of which two do not.
LEMMA TwoOfThree ==
  ASSUME NEW a, NEW b, NEW c, a # b, b # c, a # c, NEW S \in SUBSET {a, b, c}
  PROVE  /\ (a \in S /\ b \in S) \/ (b \in S /\ c \in S) \/ (a \in S /\ c \in S) => Cardinality(S) >= 2
         /\ (a \notin S /\ b \notin S) \/ (b \notin S /\ c \notin S) \/ (a \notin S /\ c \notin S)
              => ~(Cardinality(S) >= 2)
<1>1. IsFiniteSet({a, b, c}) /\ IsFiniteSet(S)
  <2>1. IsFiniteSet({}) 
    BY FS_EmptySet
  <2>2. IsFiniteSet({} \union {a}) /\ IsFiniteSet({} \union {a} \union {b})
        /\ IsFiniteSet({} \union {a} \union {b} \union {c})
    BY <2>1, FS_AddElement
  <2>3. {} \union {a} \union {b} \union {c} = {a, b, c}
    OBVIOUS
  <2>4. QED BY <2>2, <2>3, FS_Subset
<1>2. \A x, y : x # y => Cardinality({x, y}) = 2 /\ IsFiniteSet({x, y})
  <2>1. ASSUME NEW x, NEW y, x # y PROVE Cardinality({x, y}) = 2 /\ IsFiniteSet({x, y})
    <3>1. Cardinality({x}) = 1 /\ IsFiniteSet({x})
      BY FS_Singleton
    <3>2. {x} \union {y} = {x, y} /\ y \notin {x}
      BY <2>1
    <3>3. Cardinality({x} \union {y}) = 2 /\ IsFiniteSet({x} \union {y})
      BY <3>1, <3>2, FS_AddElement
    <3>4. QED BY <3>2, <3>3
  <2>2. QED BY <2>1
<1>3. ASSUME NEW x, NEW y, x # y, x \in S, y \in S PROVE Cardinality(S) >= 2
  <2>1. {x, y} \subseteq S
    BY <1>3
  <2>2. Cardinality({x, y}) <= Cardinality(S)
    BY <1>1, <2>1, FS_Subset
  <2>3. Cardinality({x, y}) = 2 /\ Cardinality(S) \in Nat
    BY <1>1, <1>2, <1>3, FS_CardinalityType
  <2>4. QED BY <2>2, <2>3
<1>4. ASSUME NEW x, S \subseteq {x} PROVE ~(Cardinality(S) >= 2)
  <2>1. Cardinality({x}) = 1 /\ IsFiniteSet({x})
    BY FS_Singleton
  <2>2. Cardinality(S) <= Cardinality({x})
    BY <1>4, <2>1, FS_Subset
  <2>3. Cardinality(S) \in Nat
    BY <1>1, FS_CardinalityType
  <2>4. QED BY <2>1, <2>2, <2>3
<1>5. (a \in S /\ b \in S) \/ (b \in S /\ c \in S) \/ (a \in S /\ c \in S) => Cardinality(S) >= 2
  BY <1>3
<1>6. ASSUME (a \notin S /\ b \notin S) \/ (b \notin S /\ c \notin S) \/ (a \notin S /\ c \notin S)
      PROVE  ~(Cardinality(S) >= 2)
  <2>1. S \subseteq {a} \/ S \subseteq {b} \/ S \subseteq {c}
    BY <1>6
  <2>2. QED BY <1>4, <2>1
<1>7. QED BY <1>5, <1>6

\* Two of the three copies arrive as they were sent, and decide.
LEMMA MajorityRight ==
  ASSUME FadeTypeOK
  PROVE  ShortFadeUnseen
<1>1. SUFFICES ASSUME hits = {}, fade.len <= 16 PROVE Majority = Wire \cap (0..47)
  BY DEF ShortFadeUnseen
<1>2. Noisy = {}
  BY <1>1 DEF Noisy
<1> DEFINE Right(bit) == {p \in Copies(bit) : (bit \in Wire) # (Faded(p) # (p \in Noisy))}
<1>3. Majority = {bit \in 0..47 : Cardinality(Right(bit)) >= 2}
  BY DEF Majority
<1>4. ASSUME NEW bit \in 0..47 PROVE Cardinality(Right(bit)) >= 2 <=> bit \in Wire
  <2> DEFINE a == bit
  <2> DEFINE b == bit + 49
  <2> DEFINE c == bit + 98
  <2>1. Copies(bit) = {a, b, c} /\ a < b /\ b < c /\ a < c /\ bit \in Nat /\ b \in Nat /\ c \in Nat
    BY DEF Copies
  <2>2. /\ ~Faded(a) \/ ~Faded(b)
        /\ ~Faded(b) \/ ~Faded(c)
        /\ ~Faded(a) \/ ~Faded(c)
    BY <1>1, <2>1, OneCopyFaded
  <2>3. \A p \in {a, b, c} : ~Faded(p) => (p \in Right(bit) <=> bit \in Wire)
    <3>1. ASSUME NEW p \in {a, b, c}, ~Faded(p) PROVE p \in Right(bit) <=> bit \in Wire
      <4>1. p \in Right(bit) <=> ((bit \in Wire) # (Faded(p) # (p \in Noisy)))
        BY <2>1
      <4>2. p \notin Noisy
        BY <1>2
      <4>3. ~(Faded(p) # (p \in Noisy))
        BY <3>1, <4>2 DEF Faded
      <4>4. CASE bit \in Wire
        BY <4>1, <4>3, <4>4
      <4>5. CASE bit \notin Wire
        BY <4>1, <4>3, <4>5
      <4>6. QED BY <4>4, <4>5
    <3>2. QED BY <3>1
  <2>4. Right(bit) \in SUBSET {a, b, c} /\ a # b /\ b # c /\ a # c
    BY <2>1
  <2> HIDE DEF Right, a, b, c
  <2>5. CASE bit \in Wire
    <3>1. \A p \in {a, b, c} : ~Faded(p) => p \in Right(bit)
      BY <2>3, <2>5
    <3>2. (a \in Right(bit) /\ b \in Right(bit)) \/ (b \in Right(bit) /\ c \in Right(bit))
          \/ (a \in Right(bit) /\ c \in Right(bit))
      BY <2>2, <3>1
    <3>3. QED BY <2>4, <2>5, <3>2, TwoOfThree
  <2>6. CASE bit \notin Wire
    <3>1. \A p \in {a, b, c} : ~Faded(p) => p \notin Right(bit)
      BY <2>3, <2>6
    <3>2. (a \notin Right(bit) /\ b \notin Right(bit)) \/ (b \notin Right(bit) /\ c \notin Right(bit))
          \/ (a \notin Right(bit) /\ c \notin Right(bit))
      BY <2>2, <3>1
    <3>3. QED BY <2>4, <2>6, <3>2, TwoOfThree
  <2>7. QED BY <2>5, <2>6
<1>5. QED BY <1>3, <1>4

\* The fade only grows, and noise does not touch it.
LEMMA FadeTyped == FadeTypeOK /\ [CodecNext]_codecvars => FadeTypeOK'
<1>1. SUFFICES ASSUME FadeTypeOK, [CodecNext]_codecvars PROVE FadeTypeOK'
  OBVIOUS
<1>2. CASE FadeBegins
  <2>1. PICK k \in 0..48 : fade' = [first |-> k, len |-> 1]
    BY <1>2 DEF FadeBegins
  <2>2. fade'.first = k /\ fade'.len = 1
    BY <2>1
  <2>3. QED BY <2>1, <2>2 DEF FadeTypeOK
<1>3. CASE FadeGoesOn
  <2>1. fade' = [first |-> fade.first, len |-> fade.len + 1]
    BY <1>1, <1>3 DEF FadeGoesOn, FadeTypeOK
  <2>2. fade'.first = fade.first /\ fade'.len = fade.len + 1
    BY <2>1
  <2>3. QED BY <1>1, <2>1, <2>2 DEF FadeTypeOK
<1>4. CASE Noise \/ UNCHANGED codecvars
  BY <1>1, <1>4 DEF Noise, codecvars, FadeTypeOK
<1>5. QED BY <1>1, <1>2, <1>3, <1>4 DEF CodecNext

\* A fade of up to 16 symbols, wherever it falls in whatever word, does not
\* change a bit of what the Golay decoders are given (ALEDecoder::decode,
\* encode_tx49): they need not correct anything.
THEOREM ShortFadesHarmless == CodecSpec => []ShortFadeUnseen
<1>1. CodecInit => FadeTypeOK
  <2>1. SUFFICES ASSUME CodecInit PROVE FadeTypeOK
    OBVIOUS
  <2>2. fade = [first |-> 0, len |-> 0] /\ fade.first = 0 /\ fade.len = 0
    BY <2>1 DEF CodecInit
  <2>3. QED BY <2>2 DEF FadeTypeOK
<1>2. FadeTypeOK /\ [CodecNext]_codecvars => FadeTypeOK'
  BY FadeTyped
<1>3. FadeTypeOK => ShortFadeUnseen
  BY MajorityRight
<1>4. QED BY <1>1, <1>2, <1>3, PTL DEF CodecSpec
=============================================================================
