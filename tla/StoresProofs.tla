---------------------------- MODULE StoresProofs ----------------------------
(***************************************************************************)
(* What holds of the station's history of measurements, of the ages in its *)
(* database, of its transfer of data blocks and of its state file, for     *)
(* every retention time, age limit, message, window, preset and first      *)
(* file.  Each has its section, with its invariant before the theorems.    *)
(***************************************************************************)
EXTENDS LqaStore, Fs1052Arq, StationStores, FiniteSetTheorems, WellFoundedInduction, TLAPS

(***************************************************************************)
(* The history in memory is what the file holds without the oldest of it:  *)
(* what was dropped is too old, and stays so as the time goes on.  That is *)
(* more than the samples that are recent being the same ones, which alone  *)
(* would not survive a restart, where only the file is left.               *)
(***************************************************************************)

\* The samples are times, and so is the clock.
HistoryTypeOK ==
  /\ clock = [t |-> clock.t, boot |-> clock.boot, off |-> clock.off]
  /\ clock.t \in Nat /\ clock.off \in Int /\ clock.off >= -1
  /\ hist = [mem |-> hist.mem, file |-> hist.file, open |-> hist.open]
  /\ noted \in Seq(Nat)

\* Each sample is also in the file, which is open as long as the program runs.
FileHoldsAll == hist.file = noted /\ (Running => hist.open)

\* What is not in memory is the oldest samples, and they are too old.
WithoutOldest(mem, times) ==
  \E n \in 0..Len(times) :
    /\ \A j \in 1..n : TooOld(times[j])
    /\ mem = SubSeq(times, n + 1, Len(times))
MemoryWithoutOldest == Running => WithoutOldest(hist.mem, noted)

HistoryInv == HistoryTypeOK /\ FileHoldsAll /\ MemoryWithoutOldest

-----------------------------------------------------------------------------
\* A set of positions has a first one.
LEMMA FirstPosition ==
  ASSUME NEW T \in SUBSET Nat, T # {}
  PROVE  \E m \in T : \A k \in T : m <= k
<1> DEFINE R == {ss \in Nat \X Nat : ss[1] < ss[2]}
<1>1. IsWellFoundedOn(R, Nat)
  BY NatLessThanWellFounded DEF OpToRel
<1> HIDE DEF R
<1>2. PICK m \in T : \A k \in T : <<k, m>> \notin R
  BY <1>1, WFMin
<1>3. \A k \in T : ~(k < m)
  BY <1>2 DEF R
<1>4. QED BY <1>2, <1>3

\* Sequences with the same length and elements are the same.
LEMMA SameSequence ==
  ASSUME NEW s \in Seq(Nat), NEW t \in Seq(Nat), Len(s) = Len(t),
         \A i \in 1..Len(s) : s[i] = t[i]
  PROVE  s = t
OBVIOUS

\* What prune_locked drops: the samples before the first that is recent, all of
\* them too old.
LEMMA DropIsPrefix ==
  ASSUME NEW times \in Seq(Nat)
  PROVE  /\ Drop(times) \in 0..Len(times)
         /\ \A j \in 1..Drop(times) : TooOld(times[j])
         /\ Drop(times) < Len(times) => ~TooOld(times[Drop(times) + 1])
<1> DEFINE Right(n) ==
      /\ \A j \in 1..n : TooOld(times[j])
      /\ n < Len(times) => ~TooOld(times[n + 1])
<1>1. PICK l \in Nat : l = Len(times)
  OBVIOUS
<1>2. \E n \in 0..l : Right(n)
  <2> DEFINE Young == {n \in 0..(l - 1) : ~TooOld(times[n + 1])}
  <2>1. CASE Young = {}
    <3>1. \A j \in 1..l : TooOld(times[j])
      <4>1. TAKE j \in 1..l
      <4>2. j - 1 \in 0..(l - 1) /\ (j - 1) + 1 = j
        BY <1>1
      <4>3. j - 1 \notin Young
        BY <2>1
      <4>4. QED BY <4>2, <4>3
    <3>2. l \in 0..l /\ ~(l < Len(times))
      BY <1>1
    <3>3. QED BY <3>1, <3>2
  <2>2. CASE Young # {}
    <3>1. Young \in SUBSET Nat
      BY <1>1
    <3> HIDE DEF Young
    <3>2. PICK m \in Young : \A k \in Young : m <= k
      BY <2>2, <3>1, FirstPosition
    <3>3. m \in 0..(l - 1) /\ ~TooOld(times[m + 1])
      BY <3>2 DEF Young
    <3>4. \A j \in 1..m : TooOld(times[j])
      <4>1. TAKE j \in 1..m
      <4>2. j - 1 \in 0..(l - 1) /\ (j - 1) + 1 = j /\ ~(m <= j - 1)
        BY <1>1, <3>3
      <4>3. j - 1 \notin Young
        BY <3>2, <4>2
      <4>4. QED BY <4>2, <4>3 DEF Young
    <3>5. m \in 0..l
      BY <1>1, <3>3
    <3>6. QED BY <3>3, <3>4, <3>5
  <2>3. QED BY <2>1, <2>2
<1>3. Drop(times) = CHOOSE n \in 0..l : Right(n)
  BY <1>1 DEF Drop
<1> HIDE DEF Right
<1>4. Drop(times) \in 0..l /\ Right(Drop(times))
  BY <1>2, <1>3
<1>5. QED BY <1>1, <1>4 DEF Right

\* There is only one such prefix.
LEMMA OnePrefix ==
  ASSUME NEW times \in Seq(Nat), NEW n \in 0..Len(times),
         \A j \in 1..n : TooOld(times[j]),
         n < Len(times) => ~TooOld(times[n + 1])
  PROVE  Drop(times) = n
<1>1. PICK l \in Nat : l = Len(times)
  OBVIOUS
<1>2. PICK d \in 0..l : d = Drop(times)
  BY <1>1, DropIsPrefix
<1>3. (\A j \in 1..d : TooOld(times[j])) /\ (d < l => ~TooOld(times[d + 1]))
  BY <1>1, <1>2, DropIsPrefix
<1>4. ~(d < n)
  <2>1. SUFFICES ASSUME d < n PROVE FALSE
    OBVIOUS
  <2>2. d < l /\ d + 1 \in 1..n
    BY <1>1, <2>1
  <2>3. QED BY <1>3, <2>2
<1>5. ~(n < d)
  <2>1. SUFFICES ASSUME n < d PROVE FALSE
    OBVIOUS
  <2>2. n < l /\ n + 1 \in 1..d
    BY <1>1, <2>1
  <2>3. QED BY <1>1, <1>3, <2>2
<1>6. QED BY <1>1, <1>2, <1>4, <1>5

\* A sequence without the first n of its entries.
LEMMA RestOf ==
  ASSUME NEW s \in Seq(Nat), NEW l \in Nat, l = Len(s), NEW n \in 0..l
  PROVE  /\ SubSeq(s, n + 1, l) \in Seq(Nat) /\ Len(SubSeq(s, n + 1, l)) = l - n
         /\ \A j \in 1..(l - n) : SubSeq(s, n + 1, l)[j] = s[n + j]
<1> DEFINE r == SubSeq(s, n + 1, l)
<1>1. n + 1 \in 1..(l + 1) /\ l - (n + 1) + 1 = l - n /\ l - n \in Nat
  OBVIOUS
<1>2. r \in Seq(Nat)
  BY <1>1
<1>3. Len(r) = l - n
  BY <1>1
<1>4. ASSUME NEW j \in 1..(l - n) PROVE r[j] = s[n + j]
  <2>1. n + j = n + 1 + j - 1 /\ j \in 1..Len(r)
    BY <1>3
  <2>2. QED BY <1>1, <2>1
<1>5. QED BY <1>2, <1>3, <1>4

\* Pruning a history that is without its oldest samples leaves one that is, and
\* the same one as pruning all of it.
LEMMA PrunedTail ==
  ASSUME NEW times \in Seq(Nat), NEW mem, WithoutOldest(mem, times)
  PROVE  Recent(mem) = Recent(times) /\ WithoutOldest(Recent(mem), times)
<1>1. PICK l \in Nat : l = Len(times)
  OBVIOUS
<1>2. PICK n \in 0..l : (\A j \in 1..n : TooOld(times[j])) /\ mem = SubSeq(times, n + 1, l)
  BY <1>1 DEF WithoutOldest
<1>3. mem \in Seq(Nat) /\ Len(mem) = l - n /\ \A j \in 1..(l - n) : mem[j] = times[n + j]
  BY <1>1, <1>2, RestOf
<1>4. PICK d \in 0..(l - n) :
        /\ d = Drop(mem)
        /\ \A j \in 1..d : TooOld(mem[j])
        /\ d < l - n => ~TooOld(mem[d + 1])
  BY <1>3, DropIsPrefix
<1>5. n + d \in 0..l
  OBVIOUS
<1>6. \A j \in 1..(n + d) : TooOld(times[j])
  <2>1. TAKE j \in 1..(n + d)
  <2>2. CASE j <= n
    BY <1>2, <2>2
  <2>3. CASE n < j
    <3>1. j - n \in 1..d /\ j - n \in 1..(l - n) /\ n + (j - n) = j
      BY <2>3
    <3>2. QED BY <1>3, <1>4, <3>1
  <2>4. QED BY <2>2, <2>3
<1>7. n + d < l => ~TooOld(times[n + d + 1])
  <2>1. SUFFICES ASSUME n + d < l PROVE ~TooOld(times[n + d + 1])
    OBVIOUS
  <2>2. d < l - n /\ d + 1 \in 1..(l - n) /\ n + (d + 1) = n + d + 1
    BY <2>1
  <2>3. QED BY <1>3, <1>4, <2>2
<1>8. Drop(times) = n + d
  BY <1>1, <1>5, <1>6, <1>7, OnePrefix
<1>9. SubSeq(mem, d + 1, l - n) = SubSeq(times, n + d + 1, l)
  BY <1>1, <1>2, <1>3
<1>10. QED BY <1>1, <1>3, <1>4, <1>5, <1>6, <1>8, <1>9 DEF Recent, WithoutOldest

\* A sample that is noted and recorded leaves a history without its oldest ones.
LEMMA OneMore ==
  ASSUME NEW times \in Seq(Nat), NEW mem, NEW x \in Nat, WithoutOldest(mem, times)
  PROVE  WithoutOldest(Append(mem, x), Append(times, x))
<1>1. PICK l \in Nat : l = Len(times)
  OBVIOUS
<1>2. PICK n \in 0..l : (\A j \in 1..n : TooOld(times[j])) /\ mem = SubSeq(times, n + 1, l)
  BY <1>1 DEF WithoutOldest
<1>3. Len(Append(times, x)) = l + 1 /\ n \in 0..(l + 1)
  BY <1>1
<1>4. \A j \in 1..n : Append(times, x)[j] = times[j]
  BY <1>1
<1>5. Append(mem, x) = SubSeq(Append(times, x), n + 1, l + 1)
  <2> DEFINE long == Append(times, x)
  <2> DEFINE rest == SubSeq(long, n + 1, l + 1)
  <2>1. long \in Seq(Nat) /\ long[l + 1] = x /\ \A j \in 1..l : long[j] = times[j]
    BY <1>1
  <2>2. rest \in Seq(Nat) /\ Len(rest) = l + 1 - n
        /\ \A j \in 1..(l + 1 - n) : rest[j] = long[n + j]
    BY <1>1, <1>3, <2>1
  <2>3. mem \in Seq(Nat) /\ Len(mem) = l - n /\ \A j \in 1..(l - n) : mem[j] = times[n + j]
    BY <1>1, <1>2, RestOf
  <2>4. Append(mem, x) \in Seq(Nat) /\ Len(Append(mem, x)) = l + 1 - n
    BY <2>3
  <2>5. ASSUME NEW j \in 1..(l + 1 - n) PROVE Append(mem, x)[j] = rest[j]
    <3>1. CASE j = l + 1 - n
      <4>1. n + j = l + 1 /\ j = Len(mem) + 1
        BY <2>3, <3>1
      <4>2. Append(mem, x)[j] = x
        BY <2>3, <4>1
      <4>3. QED BY <2>1, <2>2, <4>1, <4>2
    <3>2. CASE j # l + 1 - n
      <4>1. j \in 1..(l - n) /\ n + j \in 1..l
        BY <3>2
      <4>2. Append(mem, x)[j] = mem[j]
        BY <2>3, <4>1
      <4>3. QED BY <2>1, <2>2, <2>3, <4>1, <4>2
    <3>3. QED BY <3>1, <3>2
  <2> HIDE DEF rest
  <2>6. QED BY <2>2, <2>4, <2>5, SameSequence DEF rest
<1>6. QED BY <1>2, <1>3, <1>4, <1>5 DEF WithoutOldest

\* What is too old stays so as the time goes on.
LEMMA OlderStill ==
  ASSUME NEW times \in Seq(Nat), NEW mem, WithoutOldest(mem, times),
         clock.t \in Nat, clock'.t \in Nat, clock.t <= clock'.t
  PROVE  WithoutOldest(mem, times)'
<1>1. ASSUME NEW n \in 0..Len(times), NEW j \in 1..n, TooOld(times[j]) PROVE TooOld(times[j])'
  <2>1. times[j] \in Nat
    OBVIOUS
  <2>2. PICK x \in Nat : x = times[j]
    BY <2>1
  <2>3. QED BY <1>1, <2>2, LqaAssumption DEF TooOld
<1>2. QED BY <1>1 DEF WithoutOldest

-----------------------------------------------------------------------------
\* The history and the file are empty at the start.
LEMMA HistoryInvInit == LqaInit => HistoryInv
BY LqaAssumption
   DEF LqaInit, HistoryInv, HistoryTypeOK, FileHoldsAll, MemoryWithoutOldest, WithoutOldest, Running

\* A step that changes neither the history nor the clock preserves what is said.
LEMMA HistoryAlone ==
  ASSUME HistoryInv, UNCHANGED <<hist, clock, noted>>
  PROVE  HistoryInv'
BY DEF HistoryInv, HistoryTypeOK, FileHoldsAll, MemoryWithoutOldest, WithoutOldest, Running, TooOld

\* A measurement is appended to the file and to the memory, which is pruned.
LEMMA FrameSettledInv ==
  ASSUME HistoryInv, NEW f, NEW s, NEW q, FrameSettled(f, s, q)
  PROVE  HistoryInv'
<1>1. /\ clock' = clock /\ noted' = Append(noted, clock.t) /\ clock.t \in Nat
      /\ hist' = Recorded(hist) /\ hist.open /\ Running /\ noted \in Seq(Nat)
      /\ WithoutOldest(hist.mem, noted)
  BY DEF FrameSettled, Event, HistoryInv, HistoryTypeOK, FileHoldsAll, MemoryWithoutOldest
<1>2. /\ hist' = [mem |-> hist'.mem, file |-> hist'.file, open |-> hist'.open]
      /\ hist'.mem = Recent(Append(hist.mem, clock.t))
      /\ hist'.file = Append(noted, clock.t) /\ hist'.open
  BY <1>1 DEF Recorded, HistoryInv, HistoryTypeOK, FileHoldsAll
<1>3. noted' \in Seq(Nat)
  BY <1>1
<1>4. WithoutOldest(Append(hist.mem, clock.t), noted')
  BY <1>1, OneMore
<1>5. WithoutOldest(hist'.mem, noted')
  BY <1>2, <1>3, <1>4, PrunedTail
<1>6. MemoryWithoutOldest'
  BY <1>1, <1>5 DEF MemoryWithoutOldest, WithoutOldest, TooOld
<1>7. HistoryTypeOK' /\ FileHoldsAll'
  BY <1>1, <1>2, <1>3 DEF HistoryInv, HistoryTypeOK, FileHoldsAll
<1>8. QED BY <1>6, <1>7 DEF HistoryInv

\* Memory and file are emptied, and the file is open again.
LEMMA ClearHistoryInv ==
  ASSUME HistoryInv, ClearHistory
  PROVE  HistoryInv'
<1>1. /\ hist' = [mem |-> <<>>, file |-> <<>>, open |-> hist.open] /\ noted' = <<>>
      /\ clock' = clock
  BY DEF ClearHistory, Reopened
<1>2. HistoryTypeOK' /\ FileHoldsAll'
  BY <1>1 DEF HistoryInv, HistoryTypeOK, FileHoldsAll, Running
<1>3. MemoryWithoutOldest'
  BY <1>1 DEF MemoryWithoutOldest, WithoutOldest
<1>4. QED BY <1>2, <1>3 DEF HistoryInv

\* The time goes on.
LEMMA LaterInv ==
  ASSUME HistoryInv, Later
  PROVE  HistoryInv'
<1>1. /\ clock.t \in Nat /\ clock'.t = clock.t + 1 /\ (Running' => Running)
      /\ clock' = [t |-> clock'.t, boot |-> clock'.boot, off |-> clock'.off]
      /\ hist' = hist /\ noted' = noted /\ noted \in Seq(Nat)
  <2>1. clock = [t |-> clock.t, boot |-> clock.boot, off |-> clock.off] /\ clock.t \in Nat
    BY DEF HistoryInv, HistoryTypeOK
  <2>2. CASE Running
    BY <2>1, <2>2 DEF Later, HistoryInv, HistoryTypeOK
  <2>3. CASE ~Running
    <3>1. clock' = [t |-> clock.t + 1, boot |-> clock.boot, off |-> clock.off + 1]
      BY <2>1, <2>3 DEF Later
    <3>2. hist' = hist /\ noted' = noted /\ ~Running /\ noted \in Seq(Nat)
      BY <2>3 DEF Later, HistoryInv, HistoryTypeOK
    <3>3. clock.off + 1 # -1
      BY <2>3 DEF HistoryInv, HistoryTypeOK, Running
    <3>4. QED BY <2>1, <3>1, <3>2, <3>3 DEF Running
  <2>4. QED BY <2>2, <2>3
<1>2. HistoryTypeOK' /\ FileHoldsAll'
  <2>1. clock'.off = clock.off \/ clock'.off = clock.off + 1
    BY DEF Later, HistoryInv, HistoryTypeOK
  <2>2. QED BY <1>1, <2>1 DEF HistoryInv, HistoryTypeOK, FileHoldsAll
<1>3. ASSUME Running' PROVE WithoutOldest(hist.mem, noted)'
  <2>1. WithoutOldest(hist.mem, noted)
    BY <1>1, <1>3 DEF HistoryInv, MemoryWithoutOldest
  <2>2. PICK n \in 0..Len(noted) :
          /\ \A j \in 1..n : TooOld(noted[j])
          /\ hist.mem = SubSeq(noted, n + 1, Len(noted))
    BY <2>1 DEF WithoutOldest
  <2>3. ASSUME NEW j \in 1..n PROVE TooOld(noted[j])'
    <3>1. PICK x \in Nat : x = noted[j]
      BY <1>1, <2>3
    <3>2. TooOld(x) /\ noted'[j] = x
      BY <1>1, <2>2, <2>3, <3>1
    <3>3. clock.t - x > Retention /\ Retention \in Nat
      BY <3>2, LqaAssumption DEF TooOld
    <3>4. clock.t + 1 - x > Retention
      BY <1>1, <3>1, <3>3
    <3>5. clock'.t = clock.t + 1 /\ noted'[j] = x
      BY <1>1, <3>2
    <3>6. clock.t \in Nat /\ x \in Nat /\ Retention \in Nat
      BY <1>1, <3>1, <3>3
    <3>7. clock'.t - noted'[j] > Retention
      BY <3>4, <3>5, <3>6
    <3>8. QED BY <3>5, <3>6, <3>7 DEF TooOld
  <2>4. QED BY <1>1, <2>2, <2>3 DEF WithoutOldest
<1>4. QED BY <1>2, <1>3 DEF HistoryInv, MemoryWithoutOldest

\* Nothing is in memory when the program has stopped.
LEMMA StopInv ==
  ASSUME HistoryInv, Stop
  PROVE  HistoryInv'
<1>1. /\ clock' = [clock EXCEPT !.off = 0] /\ noted' = noted
      /\ hist' = [hist EXCEPT !.mem = << >>, !.open = FALSE]
  BY DEF Stop
<1>2. /\ clock' = [t |-> clock.t, boot |-> clock.boot, off |-> 0] /\ clock.t \in Nat
      /\ hist' = [mem |-> << >>, file |-> noted, open |-> FALSE] 
      /\ noted \in Seq(Nat) /\ noted' \in Seq(Nat)
  BY <1>1 DEF HistoryInv, HistoryTypeOK, FileHoldsAll
<1>3. clock'.t = clock.t /\ clock'.off = 0 /\ hist'.file = noted
  BY <1>2
<1>4. ~Running'
  BY <1>3 DEF Running
<1>5. HistoryTypeOK'
  BY <1>2, <1>3 DEF HistoryTypeOK
<1>6. QED
  BY <1>1, <1>3, <1>4, <1>5 DEF HistoryInv, FileHoldsAll, MemoryWithoutOldest

\* The file is read, pruned in memory, and opened.
LEMMA StartInv ==
  ASSUME HistoryInv, Start
  PROVE  HistoryInv'
<1>1. /\ clock' = [clock EXCEPT !.off = -1, !.boot = clock.t] /\ noted' = noted
      /\ hist' = [hist EXCEPT !.mem = Recent(hist.file), !.open = TRUE]
  BY DEF Start
<1>2. /\ clock' = [t |-> clock.t, boot |-> clock.t, off |-> -1] /\ clock.t \in Nat
      /\ hist' = [mem |-> Recent(noted), file |-> noted, open |-> TRUE] 
      /\ noted \in Seq(Nat) /\ noted' \in Seq(Nat)
  BY <1>1 DEF HistoryInv, HistoryTypeOK, FileHoldsAll
<1>3. /\ clock'.t = clock.t /\ clock'.off = -1
      /\ hist'.mem = Recent(noted) /\ hist'.file = noted /\ hist'.open
  BY <1>2
<1>4. WithoutOldest(Recent(noted), noted)
  <2>1. WithoutOldest(noted, noted)
    BY <1>2 DEF WithoutOldest
  <2>2. QED BY <1>2, <2>1, PrunedTail
<1>5. WithoutOldest(hist'.mem, noted')
  BY <1>1, <1>3, <1>4
<1>6. MemoryWithoutOldest'
  BY <1>1, <1>3, <1>5 DEF MemoryWithoutOldest, WithoutOldest, TooOld
<1>7. HistoryTypeOK'
  BY <1>2, <1>3 DEF HistoryTypeOK
<1>8. FileHoldsAll'
  BY <1>1, <1>3 DEF FileHoldsAll
<1>9. QED BY <1>6, <1>7, <1>8 DEF HistoryInv

\* Every step preserves it.
LEMMA HistoryInvStep == HistoryInv /\ [LqaNext]_lvars => HistoryInv'
<1>1. SUFFICES ASSUME HistoryInv, [LqaNext]_lvars PROVE HistoryInv'
  OBVIOUS
<1>2. ASSUME NEW f, NEW s, NEW q, NEW twas, SoundingHeard(f, s, q, twas) PROVE HistoryInv'
  BY <1>1, <1>2, HistoryAlone DEF SoundingHeard
<1>3. ASSUME NEW f, NEW s, NEW q, WordHeard(f, s, q) \/ PeerReports(f, s, q) PROVE HistoryInv'
  BY <1>1, <1>3, HistoryAlone DEF WordHeard, PeerReports
<1>4. ASSUME NEW s, CallFails(s) \/ CallConcludes(s) PROVE HistoryInv'
  BY <1>1, <1>4, HistoryAlone DEF CallFails, CallConcludes
<1>5. CASE ClearLqa \/ Prune
  BY <1>1, <1>5, HistoryAlone DEF ClearLqa, Prune
<1>6. CASE UNCHANGED lvars
  BY <1>1, <1>6, HistoryAlone DEF lvars
<1>7. QED
  BY <1>1, <1>2, <1>3, <1>4, <1>5, <1>6, FrameSettledInv, ClearHistoryInv, LaterInv, StopInv,
     StartInv DEF LqaNext

\* What is recent of the memory is what is recent of all that was noted.
LEMMA InvKeepsHistory == HistoryInv => HistoryKept
BY PrunedTail DEF HistoryInv, HistoryTypeOK, MemoryWithoutOldest, HistoryKept

\* No crash, restart, pruning or clearing of the history (LQAHistoryStore) costs
\* it a sample that was recorded since it was cleared and is not too old.
THEOREM HistoryHolds == LqaSpec => []HistoryKept
<1>1. LqaInit => HistoryInv
  BY HistoryInvInit
<1>2. HistoryInv /\ [LqaNext]_lvars => HistoryInv'
  BY HistoryInvStep
<1>3. HistoryInv => HistoryKept
  BY InvKeepsHistory
<1>4. QED BY <1>1, <1>2, <1>3, PTL DEF LqaSpec

(***************************************************************************)
(* The ages in the database.  An entry shows at least the age of the       *)
(* measurement: what it is dated by is never later, and the age grows with *)
(* the time until the entry is pruned, before the difference can wrap.  In *)
(* the file nothing is pruned; what can be said there is how old the entry *)
(* looked when it was measured.                                            *)
(***************************************************************************)

\* What the difference of the stamps is at the time x.
AgeAt(x, stamp) == ((x % Wrap) - stamp) % Wrap

Fields == {"contact", "sounding", "from", "to", "twas", "failed", "score", "heard"}
EntryOK(e) ==
  /\ DOMAIN e = Fields
  /\ e.contact \in Nat /\ e.sounding \in Nat /\ e.heard \in Nat \union {Unknown}

ClockOK ==
  /\ clock = [t |-> clock.t, boot |-> clock.boot, off |-> clock.off]
  /\ clock.t \in Nat /\ clock.boot \in Nat /\ clock.off \in Int /\ clock.off >= -1

\* An entry in memory shows at least the age of its measurement.
Current(e) == EntryOK(e) /\ (e.heard # Unknown => e.heard <= clock.t /\ clock.t - e.heard <= Age(Activity(e)))
AllCurrent(d) == \A k \in DOMAIN d : Current(d[k])

\* An entry in the file did not look stale when it was measured.
WasFresh(e) ==
  EntryOK(e) /\ (e.heard # Unknown => e.heard <= clock.t /\ AgeAt(e.heard, Activity(e)) <= MaxAge)
FileFresh ==
  /\ lqafile = << >> \/ lqafile = <<[whole |-> lqafile[1].whole, db |-> lqafile[1].db]>>
  /\ lqafile # << >> => \A k \in DOMAIN lqafile[1].db : WasFresh(lqafile[1].db[k])

\* The file with which a program starts was not left for so long that the
\* difference of the stamps has wrapped.
FileYoung ==
  ~Running /\ lqafile # << >> =>
    \A k \in DOMAIN lqafile[1].db :
      lqafile[1].db[k].heard # Unknown => clock.t - lqafile[1].db[k].heard + MaxAge < Wrap

AgeInv == ClockOK /\ AllCurrent(db) /\ FileFresh /\ (Running \/ db = << >>)

-----------------------------------------------------------------------------
\* The remainder is the number in 0..Wrap-1 that differs by a multiple.
LEMMA RemainderOf ==
  ASSUME NEW a \in Int
  PROVE  a % Wrap \in 0..Wrap - 1 /\ \E q \in Int : a = q * Wrap + (a % Wrap)
<1>1. Wrap \in Nat /\ Wrap > 0
  BY LqaAssumption
<1>2. a % Wrap \in 0..Wrap - 1
  BY <1>1
<1>3. a = (a \div Wrap) * Wrap + (a % Wrap) /\ a \div Wrap \in Int
  BY <1>1
<1>4. QED BY <1>2, <1>3

\* Only one number below the wrap differs by a multiple.
LEMMA RemainderUnique ==
  ASSUME NEW p \in Int, NEW q \in Int, NEW r \in 0..Wrap - 1, NEW s \in 0..Wrap - 1,
         p * Wrap + r = q * Wrap + s
  PROVE  r = s
<1>1. Wrap \in Nat /\ Wrap > 0
  BY LqaAssumption
<1>2. CASE p = q
  BY <1>1, <1>2
<1>3. CASE p > q
  <2>1. (p - q) * Wrap = s - r
    BY <1>1
  <2>2. (p - q) * Wrap >= Wrap
    BY <1>1, <1>3
  <2>3. QED BY <1>1, <2>1, <2>2
<1>4. CASE p < q
  <2>1. (q - p) * Wrap = r - s
    BY <1>1
  <2>2. (q - p) * Wrap >= Wrap
    BY <1>1, <1>4
  <2>3. QED BY <1>1, <2>1, <2>2
<1>5. QED BY <1>2, <1>3, <1>4

\* An age is the remainder of the difference.
LEMMA AgeIsRemainder ==
  ASSUME NEW x \in Nat, NEW stamp \in Nat
  PROVE  /\ AgeAt(x, stamp) \in 0..Wrap - 1
         /\ \E q \in Int : x - stamp = q * Wrap + AgeAt(x, stamp)
<1>1. Wrap \in Nat /\ Wrap > 0
  BY LqaAssumption
<1>2. PICK p \in Int : x = p * Wrap + (x % Wrap)
  BY RemainderOf
<1>3. x % Wrap \in 0..Wrap - 1
  BY RemainderOf
<1>4. PICK q \in Int : (x % Wrap) - stamp = q * Wrap + AgeAt(x, stamp)
  BY <1>3, RemainderOf DEF AgeAt
<1>5. AgeAt(x, stamp) \in 0..Wrap - 1
  BY <1>3, RemainderOf DEF AgeAt
<1>6. p + q \in Int /\ x - stamp = (p + q) * Wrap + AgeAt(x, stamp)
  <2>1. (p + q) * Wrap = p * Wrap + q * Wrap
    BY <1>1
  <2>2. p * Wrap \in Int /\ q * Wrap \in Int
    BY <1>1
  <2>3. QED BY <1>1, <1>2, <1>3, <1>4, <1>5, <2>1, <2>2
<1>7. QED BY <1>5, <1>6

\* An age grows with the time, as long as it stays below the wrap.
LEMMA AgeGrows ==
  ASSUME NEW x \in Nat, NEW n \in Nat, NEW stamp \in Nat, AgeAt(x, stamp) + n < Wrap
  PROVE  AgeAt(x + n, stamp) = AgeAt(x, stamp) + n
<1>1. Wrap \in Nat /\ Wrap > 0
  BY LqaAssumption
<1>0. x + n \in Nat
  OBVIOUS
<1>2. AgeAt(x, stamp) \in 0..Wrap - 1 /\ AgeAt(x + n, stamp) \in 0..Wrap - 1
  BY <1>0, AgeIsRemainder
<1>3. PICK p \in Int : x - stamp = p * Wrap + AgeAt(x, stamp)
  BY AgeIsRemainder
<1>4. PICK q \in Int : x + n - stamp = q * Wrap + AgeAt(x + n, stamp)
  BY <1>0, AgeIsRemainder
<1>5. AgeAt(x, stamp) + n \in 0..Wrap - 1
  BY <1>1, <1>2
<1>6. p * Wrap + (AgeAt(x, stamp) + n) = q * Wrap + AgeAt(x + n, stamp)
  <2>1. p * Wrap \in Int /\ q * Wrap \in Int
    BY <1>1
  <2>2. QED BY <1>1, <1>2, <1>3, <1>4, <2>1
<1>7. QED BY <1>2, <1>5, <1>6, RemainderUnique

\* A younger age was smaller: an age that stays within the limit from a time
\* to a later one, shown at the later, was smaller by the time between.
LEMMA AgeBefore ==
  ASSUME NEW x \in Nat, NEW n \in Nat, NEW stamp \in Nat, n <= AgeAt(x + n, stamp)
  PROVE  AgeAt(x, stamp) = AgeAt(x + n, stamp) - n
<1>1. Wrap \in Nat /\ Wrap > 0
  BY LqaAssumption
<1>0. x + n \in Nat
  OBVIOUS
<1>2. AgeAt(x, stamp) \in 0..Wrap - 1 /\ AgeAt(x + n, stamp) \in 0..Wrap - 1
  BY <1>0, AgeIsRemainder
<1>3. PICK p \in Int : x - stamp = p * Wrap + AgeAt(x, stamp)
  BY AgeIsRemainder
<1>4. PICK q \in Int : x + n - stamp = q * Wrap + AgeAt(x + n, stamp)
  BY <1>0, AgeIsRemainder
<1>5. AgeAt(x + n, stamp) - n \in 0..Wrap - 1
  BY <1>1, <1>2
<1>6. p * Wrap + AgeAt(x, stamp) = q * Wrap + (AgeAt(x + n, stamp) - n)
  <2>1. p * Wrap \in Int /\ q * Wrap \in Int
    BY <1>1
  <2>2. QED BY <1>1, <1>2, <1>3, <1>4, <2>1
<1>7. QED BY <1>2, <1>5, <1>6, RemainderUnique

-----------------------------------------------------------------------------
\* The age of a stamp of the database is a number below the wrap.
LEMMA AgeType ==
  ASSUME ClockOK, NEW stamp \in Nat
  PROVE  Age(stamp) = AgeAt(clock.t, stamp) /\ Age(stamp) \in 0..Wrap - 1
BY AgeIsRemainder DEF ClockOK, Age, Wall, AgeAt

\* The stamps are numbers, whichever clock they are of.
LEMMA StampType ==
  ASSUME ClockOK, NEW ts \in {0, Since}
  PROVE  Stamp(ts) \in Nat /\ Wall \in Nat
<1>1. Wall \in Nat
  BY RemainderOf, LqaAssumption DEF ClockOK, Wall
<1>2. Since \in Nat
  <2>1. clock.t - clock.boot \in Int
    BY DEF ClockOK
  <2>2. QED BY <2>1, RemainderOf, LqaAssumption DEF Since
<1>3. QED BY <1>1, <1>2 DEF Stamp

\* The last of two stamps is a number.
LEMMA ActivityType ==
  ASSUME NEW e, EntryOK(e)
  PROVE  Activity(e) \in Nat
BY DEF EntryOK, Activity, Higher

\* What was measured now is current, however it is dated.
LEMMA MeasuredNow ==
  ASSUME ClockOK, NEW e, EntryOK(e), e.heard = clock.t
  PROVE  Current(e)
<1>1. Age(Activity(e)) \in 0..Wrap - 1
  BY ActivityType, AgeType
<1>2. clock.t - clock.t = 0 /\ clock.t <= clock.t
  BY DEF ClockOK
<1>3. QED BY <1>1, <1>2 DEF Current

\* Scores have no part in it.
LEMMA ScoredKeeps ==
  ASSUME NEW e, EntryOK(e)
  PROVE  /\ EntryOK(Scored(e)) /\ Scored(e).heard = e.heard
         /\ Activity(Scored(e)) = Activity(e)
BY DEF EntryOK, Scored, Activity, Fields

\* Scoring an entry does not touch its stamps.
LEMMA ScoredCurrent ==
  ASSUME NEW e, Current(e)
  PROVE  Current(Scored(e))
BY ScoredKeeps DEF Current

\* An entry put in, or one evicted, does no harm to the others.
LEMMA PutCurrent ==
  ASSUME NEW d, AllCurrent(d), NEW k, NEW e, Current(e)
  PROVE  AllCurrent(Put(d, k, e)) /\ k \in DOMAIN Put(d, k, e) /\ Put(d, k, e)[k] = e
BY DEF AllCurrent, Put

\* Making room only removes entries.
LEMMA RoomCurrent ==
  ASSUME NEW d, AllCurrent(d), NEW r \in Room(d)
  PROVE  AllCurrent(r)
BY DEF AllCurrent, Room, Minus

\* A stub carries no measurement.
LEMMA TouchedCurrent ==
  ASSUME ClockOK, NEW d, AllCurrent(d), NEW k, NEW ts \in {0, Since}, NEW x \in Touched(d, k, ts)
  PROVE  AllCurrent(x) /\ k \in DOMAIN x
<1>1. CASE k \in DOMAIN d
  BY <1>1 DEF Touched
<1>2. CASE k \notin DOMAIN d
  <2>1. PICK r \in Room(d) : x = Put(r, k, [NewEntry EXCEPT !.contact = Stamp(ts)])
    BY <1>2 DEF Touched
  <2>2. EntryOK([NewEntry EXCEPT !.contact = Stamp(ts)])
        /\ [NewEntry EXCEPT !.contact = Stamp(ts)].heard = Unknown
    BY StampType DEF NewEntry, EntryOK, Fields, Unknown
  <2>3. Current([NewEntry EXCEPT !.contact = Stamp(ts)])
    BY <2>2 DEF Current
  <2>4. QED BY <2>1, <2>3, RoomCurrent, PutCurrent
<1>3. QED BY <1>1, <1>2

\* A measurement is dated by now, by one clock or the other.
LEMMA MeasuredCurrent ==
  ASSUME ClockOK, NEW d, AllCurrent(d), NEW k, NEW q, NEW ts \in {0, Since}, NEW x \in Measured(d, k, q, ts)
  PROVE  AllCurrent(x) /\ k \in DOMAIN x /\ x[k].heard = clock.t
<1>1. PICK m \in Mean(Known(d, k), q), r \in IF k \in DOMAIN d THEN {d} ELSE Room(d) :
        x = Put(r, k, Noted(Known(d, k), k, m, ts))
  BY DEF Measured
<1>2. AllCurrent(r)
  BY RoomCurrent
<1> DEFINE new == [Known(d, k) EXCEPT !.from = m, !.heard = clock.t]
<1>3. EntryOK(Known(d, k))
  BY DEF Known, AllCurrent, Current, NewEntry, EntryOK, Fields, Unknown
<1>4. EntryOK(new) /\ new.heard = clock.t
  BY <1>3 DEF EntryOK, Fields, ClockOK
<1> HIDE DEF new
<1>5. EntryOK(Dated(new, k, ts)) /\ Dated(new, k, ts).heard = clock.t
  BY <1>4, StampType DEF EntryOK, Fields, Dated
<1>6. Noted(Known(d, k), k, m, ts) = Scored(Dated(new, k, ts))
  BY DEF Noted, new
<1>7. /\ EntryOK(Noted(Known(d, k), k, m, ts)) /\ Noted(Known(d, k), k, m, ts).heard = clock.t
      /\ Current(Noted(Known(d, k), k, m, ts))
  BY <1>5, <1>6, ScoredKeeps, MeasuredNow
<1>8. QED BY <1>1, <1>2, <1>7, PutCurrent

\* The channels in any order are a sequence.
LEMMA ChannelList == Len(SetToSeq(Channels)) \in Nat
<1>1. Cardinality(Channels) \in Nat /\ ExistsBijection(1..Cardinality(Channels), Channels)
  BY LqaAssumption, FS_CardinalityType
<1>2. \E f \in [1..Cardinality(Channels) -> Channels] : IsInjective(f)
  BY <1>1 DEF ExistsBijection, Bijection, Injection, IsInjective
<1>3. SetToSeq(Channels) \in [1..Cardinality(Channels) -> Channels]
  BY <1>2 DEF SetToSeq
<1>4. QED BY <1>1, <1>3

\* The function of TouchedAll, as far as n.
GoesThrough(f, d, list, s, n) ==
  f = [i \in 0..n |-> IF i = 0 THEN {d} ELSE TouchedOne(f[i - 1], <<list[i], s>>)]

\* The function that goes through the channels is defined on all of them: were
\* there a first place where it is not, the one before it could be continued.
LEMMA TouchedDefined ==
  ASSUME NEW d, NEW list, NEW s, NEW n \in Nat
  PROVE  \E f : GoesThrough(f, d, list, s, n)
<1> USE DEF GoesThrough
<1> DEFINE Missing == {m \in Nat : ~\E f : GoesThrough(f, d, list, s, m)}
<1>1. SUFFICES ASSUME Missing # {} PROVE FALSE
  OBVIOUS
<1>2. PICK m \in Missing : \A k \in Missing : m <= k
  BY <1>1, FirstPosition
<1>3. CASE m = 0
  <2>1. GoesThrough([i \in 0..0 |-> {d}], d, list, s, 0)
    OBVIOUS
  <2>2. QED BY <1>2, <1>3, <2>1
<1>4. CASE m > 0
  <2>1. m - 1 \in Nat /\ m - 1 \notin Missing
    <3>1. m \in Nat
      BY <1>2
    <3> HIDE DEF Missing
    <3>2. m - 1 \in Nat /\ ~(m <= m - 1)
      BY <3>1, <1>4
    <3>3. QED BY <3>2, <1>2
  <2>2. PICK g : GoesThrough(g, d, list, s, m - 1)
    BY <2>1
  <2> DEFINE h == [i \in 0..m |-> IF i = m THEN TouchedOne(g[m - 1], <<list[m], s>>) ELSE g[i]]
             rhs == [i \in 0..m |-> IF i = 0 THEN {d} ELSE TouchedOne(h[i - 1], <<list[i], s>>)]
  <2>3. \A i \in 0..m : h[i] = rhs[i]
    <3> SUFFICES ASSUME NEW i \in 0..m PROVE h[i] = rhs[i]
      OBVIOUS
    <3>1. CASE i = m
      <4>1. m - 1 \in 0..m /\ m - 1 # m /\ h[m - 1] = g[m - 1]
        BY <1>2, <1>4
      <4>2. QED BY <3>1, <4>1, <1>4
    <3>2. CASE i = 0
      <4>1. g[0] = {d}
        BY <2>2, <2>1, <1>4
      <4>2. QED BY <3>2, <4>1, <1>4
    <3>3. CASE i # m /\ i # 0
      <4>1. i \in 0..m - 1 /\ i - 1 \in 0..m /\ i - 1 # m
        BY <3>3, <1>2, <1>4
      <4>2. g[i] = TouchedOne(g[i - 1], <<list[i], s>>)
        BY <2>2, <4>1, <3>3
      <4>3. h[i] = g[i] /\ h[i - 1] = g[i - 1]
        BY <4>1, <3>3
      <4>4. QED BY <4>2, <4>3, <3>3
    <3>4. QED BY <3>1, <3>2, <3>3
  <2>4. h = rhs
    BY <2>3
  <2>5. GoesThrough(h, d, list, s, m)
    BY <2>4
  <2>6. QED BY <1>2, <2>5
<1>5. QED BY <1>2, <1>3, <1>4

\* Stubs for all the channels carry no measurement.
LEMMA TouchedAllCurrent ==
  ASSUME ClockOK, NEW d, AllCurrent(d), NEW list, Len(list) \in Nat, NEW s, NEW x \in TouchedAll(d, list, s)
  PROVE  AllCurrent(x)
<1> DEFINE f == CHOOSE f : f = [i \in 0..Len(list) |->
                  IF i = 0 THEN {d} ELSE TouchedOne(f[i - 1], <<list[i], s>>)]
<1>5. \E g : GoesThrough(g, d, list, s, Len(list))
  BY TouchedDefined
<1>1. f = [i \in 0..Len(list) |-> IF i = 0 THEN {d} ELSE TouchedOne(f[i - 1], <<list[i], s>>)]
  BY <1>5, Zenon DEF GoesThrough
<1>2. TouchedAll(d, list, s) = f[Len(list)]
  BY DEF TouchedAll
<1> HIDE DEF f
<1> DEFINE Bad == {i \in 0..Len(list) : \E y \in f[i] : ~AllCurrent(y)}
<1>3. Bad = {}
  <2>1. SUFFICES ASSUME Bad # {} PROVE FALSE
    OBVIOUS
  <2>7. Bad \in SUBSET Nat
    OBVIOUS
  <2>2. PICK m \in Bad : \A k \in Bad : m <= k
    BY <2>1, <2>7, FirstPosition
  <2>3. PICK y \in f[m] : ~AllCurrent(y)
    BY <2>2
  <2>4. CASE m = 0
    BY <1>1, <2>3, <2>4
  <2>5. CASE m # 0
    <3>1. m - 1 \in 0..Len(list) /\ m - 1 \notin Bad
      BY <2>2, <2>5
    <3>2. y \in TouchedOne(f[m - 1], <<list[m], s>>)
      BY <1>1, <2>2, <2>3, <2>5
    <3>3. PICK z \in f[m - 1] : y \in Touched(z, <<list[m], s>>, Since)
      BY <3>2 DEF TouchedOne
    <3>4. AllCurrent(z)
      BY <3>1, <3>3
    <3>5. QED BY <2>3, <3>3, <3>4, TouchedCurrent
  <2>6. QED BY <2>4, <2>5
<1>4. QED BY <1>2, <1>3

\* An event leaves the clock alone.
LEMMA EventAges ==
  ASSUME AgeInv, Running, UNCHANGED <<clock, lqafile>>, AllCurrent(db')
  PROVE  AgeInv'
BY DEF AgeInv, ClockOK, FileFresh, AllCurrent, Current, WasFresh, Age, Wall, Running

\* A sounding writes the entry of the channel and that of its station, both dated now.
LEMMA SoundingAges ==
  ASSUME AgeInv, NEW f, NEW s, NEW q, NEW twas, SoundingHeard(f, s, q, twas)
  PROVE  AgeInv'
<1>1. PICK d1 \in Measured(db, <<f, All>>, q, 0) : \E d2 \in Measured(d1, <<f, s>>, q, 0) :
        db' = [d2 EXCEPT ![<<f, s>>] = Availability(@, twas)]
  BY DEF SoundingHeard
<1>2. PICK d2 \in Measured(d1, <<f, s>>, q, 0) : db' = [d2 EXCEPT ![<<f, s>>] = Availability(@, twas)]
  BY <1>1
<1>3. AllCurrent(d1)
  BY MeasuredCurrent DEF AgeInv
<1>4. AllCurrent(d2) /\ <<f, s>> \in DOMAIN d2 /\ d2[<<f, s>>].heard = clock.t
  BY <1>3, MeasuredCurrent DEF AgeInv
<1> DEFINE e == d2[<<f, s>>]
           a == [e EXCEPT !.twas = twas, !.sounding = Wall]
<1>5. EntryOK(e) /\ e.heard = clock.t
  BY <1>4 DEF AllCurrent, Current
<1> HIDE DEF e
<1>6. EntryOK(a) /\ a.heard = clock.t
  BY <1>5, StampType DEF EntryOK, Fields, AgeInv
<1> HIDE DEF a
<1>7. Current(Scored(a))
  BY <1>6, ScoredKeeps, MeasuredNow DEF AgeInv
<1>8. db' = [d2 EXCEPT ![<<f, s>>] = Scored(a)]
  BY <1>2 DEF Availability, a, e
<1>9. AllCurrent(db')
  BY <1>4, <1>7, <1>8 DEF AllCurrent
<1>10. QED BY <1>9, EventAges DEF SoundingHeard, Event

\* A word, or the average of a frame, is dated by either clock, now.
LEMMA WordAges ==
  ASSUME AgeInv, NEW f, NEW s, NEW q, WordHeard(f, s, q) \/ FrameSettled(f, s, q)
  PROVE  AgeInv'
<1>1. PICK ts \in {0, Since} : db' \in Measured(db, <<f, s>>, q, ts)
  BY DEF WordHeard, FrameSettled
<1>2. AllCurrent(db')
  BY <1>1, MeasuredCurrent DEF AgeInv
<1>3. QED BY <1>2, EventAges DEF WordHeard, FrameSettled, Event

\* A report of the peer stamps its entry by the time of the day.
LEMMA ReportAges ==
  ASSUME AgeInv, NEW f, NEW s, NEW q, PeerReports(f, s, q)
  PROVE  AgeInv'
<1>1. PICK d \in Touched(db, <<f, s>>, 0) :
        db' = [d EXCEPT ![<<f, s>>] = Scored([@ EXCEPT !.to = q, !.contact = Wall, !.heard = clock.t])]
  BY DEF PeerReports
<1>2. AllCurrent(d) /\ <<f, s>> \in DOMAIN d
  BY TouchedCurrent DEF AgeInv
<1> DEFINE e == d[<<f, s>>]
           a == [e EXCEPT !.to = q, !.contact = Wall, !.heard = clock.t]
<1>3. EntryOK(e)
  BY <1>2 DEF AllCurrent, Current
<1> HIDE DEF e
<1>4. EntryOK(a) /\ a.heard = clock.t
  BY <1>3, StampType DEF EntryOK, Fields, AgeInv, ClockOK
<1> HIDE DEF a
<1>5. Current(Scored(a))
  BY <1>4, ScoredKeeps, MeasuredNow DEF AgeInv
<1>6. db' = [d EXCEPT ![<<f, s>>] = Scored(a)]
  BY <1>1 DEF a, e
<1>7. AllCurrent(db')
  BY <1>2, <1>5, <1>6 DEF AllCurrent
<1>8. QED BY <1>7, EventAges DEF PeerReports, Event

\* A failure is written down beside the stamps.
LEMMA FailureAges ==
  ASSUME AgeInv, NEW s, CallFails(s)
  PROVE  AgeInv'
<1>1. PICK d \in TouchedAll(db, SetToSeq(Channels), s) :
        db' = [k \in DOMAIN d |-> IF k[2] = s THEN [d[k] EXCEPT !.failed = Stamp(Since)] ELSE d[k]]
  BY DEF CallFails
<1>2. AllCurrent(d)
  BY ChannelList, TouchedAllCurrent DEF AgeInv
<1>3. ASSUME NEW k \in DOMAIN d PROVE Current([d[k] EXCEPT !.failed = Stamp(Since)])
  <2> DEFINE e == d[k]
             a == [e EXCEPT !.failed = Stamp(Since)]
  <2>1. Current(e)
    BY <1>2 DEF AllCurrent
  <2> HIDE DEF e
  <2>2. EntryOK(a) /\ a.heard = e.heard /\ Activity(a) = Activity(e)
    BY <2>1 DEF EntryOK, Fields, Current, Activity
  <2> HIDE DEF a
  <2>3. Current(a)
    BY <2>1, <2>2 DEF Current
  <2>4. QED BY <2>3 DEF a, e
<1>4. \A k \in DOMAIN db' : Current(db'[k])
  BY <1>1, <1>2, <1>3 DEF AllCurrent
<1>5. AllCurrent(db')
  BY <1>4 DEF AllCurrent
<1>6. QED BY <1>5, EventAges DEF CallFails, Event

\* Scoring an entry anew leaves its stamps.
LEMMA ConclusionAges ==
  ASSUME AgeInv, NEW s, CallConcludes(s)
  PROVE  AgeInv'
<1>1. PICK k : \E d \in Touched(db, k, 0) : db' = [d EXCEPT ![k] = Scored(@)]
  BY DEF CallConcludes
<1>2. PICK d \in Touched(db, k, 0) : db' = [d EXCEPT ![k] = Scored(@)]
  BY <1>1
<1>3. AllCurrent(d) /\ k \in DOMAIN d
  BY TouchedCurrent DEF AgeInv
<1>4. Current(d[k])
  BY <1>3 DEF AllCurrent
<1>5. Current(Scored(d[k]))
  BY <1>4, ScoredCurrent
<1>6. AllCurrent(db')
  BY <1>2, <1>3, <1>5 DEF AllCurrent
<1>7. QED BY <1>6, EventAges DEF CallConcludes, Event

\* Time goes on when nothing in memory looks stale; every age grows by one,
\* and cannot wrap.
LEMMA LaterAges ==
  ASSUME AgeInv, Later
  PROVE  AgeInv'
<1>1. ClockOK' /\ clock'.t = clock.t + 1 /\ UNCHANGED <<db, lqafile>>
  <2>1. PICK n \in {clock.off, clock.off + 1} : clock' = [clock EXCEPT !.t = @ + 1, !.off = n]
    BY DEF Later
  <2>2. clock' = [t |-> clock.t + 1, boot |-> clock.boot, off |-> n]
    BY <2>1 DEF AgeInv, ClockOK
  <2>3. UNCHANGED <<db, lqafile>>
    BY DEF Later
  <2>4. clock.t + 1 \in Nat /\ n \in Int /\ n >= -1
    BY DEF AgeInv, ClockOK
  <2>5. clock'.t = clock.t + 1 /\ clock'.boot = clock.boot /\ clock'.off = n
    BY <2>2
  <2>6. QED BY <2>2, <2>3, <2>4, <2>5 DEF AgeInv, ClockOK
<1>2. FileFresh'
  <2>3. clock.t \in Nat
    BY DEF AgeInv, ClockOK
  <2>1. \A e : WasFresh(e) => WasFresh(e)'
    <3> SUFFICES ASSUME NEW e, WasFresh(e) PROVE WasFresh(e)'
      OBVIOUS
    <3>1. e.heard # Unknown => e.heard \in Nat /\ e.heard <= clock.t + 1
      BY <2>3 DEF WasFresh, EntryOK
    <3>2. QED BY <1>1, <3>1 DEF WasFresh
  <2>2. QED BY <1>1, <2>1 DEF FileFresh, AgeInv, WasFresh
<1>3. AllCurrent(db)'
  <2>1. SUFFICES ASSUME NEW k \in DOMAIN db PROVE Current(db[k])'
    BY <1>1 DEF AllCurrent
  <2> DEFINE e == db[k]
  <2>2. Running /\ Current(e)
    BY DEF AgeInv, AllCurrent
  <2>3. Age(Activity(e)) <= MaxAge
    <3>1. k \in DOMAIN Pruned(db)
      BY <2>2 DEF Settled, Later
    <3>2. ~Stale(e)
      BY <3>1 DEF Pruned
    <3>3. Age(Activity(e)) \in Nat /\ MaxAge \in Nat
      BY <2>2, ActivityType, AgeType, LqaAssumption DEF AgeInv, Current
    <3>4. QED BY <3>2, <3>3 DEF Stale
  <2>4. Activity(e) \in Nat /\ Age(Activity(e)) = AgeAt(clock.t, Activity(e))
        /\ Age(Activity(e)) \in 0..Wrap - 1
    BY <2>2, ActivityType, AgeType DEF AgeInv, Current
  <2>9. clock.t \in Nat /\ 1 \in Nat /\ AgeAt(clock.t, Activity(e)) + 1 < Wrap
    BY <2>3, <2>4, LqaAssumption DEF AgeInv, ClockOK
  <2>5. AgeAt(clock.t + 1, Activity(e)) = AgeAt(clock.t, Activity(e)) + 1
    <3> HIDE DEF e
    <3>1. QED BY <2>4, <2>9, AgeGrows
  <2>6. Age(Activity(e))' = AgeAt(clock.t + 1, Activity(e))
    BY <1>1 DEF Age, Wall, AgeAt, Activity
  <2>7. e.heard # Unknown => e.heard <= clock.t + 1 /\ clock.t + 1 - e.heard <= Age(Activity(e))'
    <3> HIDE DEF e
    <3>1. e.heard # Unknown => e.heard \in Nat /\ e.heard <= clock.t /\ clock.t - e.heard <= AgeAt(clock.t, Activity(e))
      BY <2>2, <2>4 DEF Current, EntryOK
    <3>2. QED BY <2>4, <2>5, <2>6, <2>9, <3>1
  <2>10. EntryOK(e)'
    BY <1>1, <2>2 DEF Current, EntryOK
  <2>11. e.heard' = e.heard /\ clock.t' = clock.t + 1
    BY <1>1
  <2>12. e.heard' # Unknown => e.heard' <= clock.t' /\ clock.t' - e.heard' <= Age(Activity(e))'
    <3>1. clock.t \in Nat /\ (e.heard # Unknown => e.heard \in Nat) /\ AgeAt(clock.t, Activity(e)) + 1 \in Nat
      BY <2>2, <2>4, <2>9 DEF Current, EntryOK
    <3>2. Age(Activity(e))' \in Nat
      BY <2>5, <2>6, <3>1
    <3>3. QED BY <2>7, <2>11, <3>1, <3>2 DEF Unknown
  <2>8. QED BY <2>10, <2>12 DEF Current
<1>4. (Running \/ db = << >>)'
  <2>1. CASE Running
    BY <2>1 DEF Later, Running, AgeInv, ClockOK
  <2>2. CASE db = << >>
    BY <1>1, <2>2
  <2>3. QED BY <2>1, <2>2 DEF AgeInv
<1>5. QED BY <1>1, <1>2, <1>3, <1>4 DEF AgeInv

\* A look at an entry that is not stale: when it was measured it was less so.
LEMMA FreshThen ==
  ASSUME ClockOK, NEW e, Current(e), ~Stale(e)
  PROVE  WasFresh(e)
<1>1. SUFFICES ASSUME e.heard # Unknown PROVE AgeAt(e.heard, Activity(e)) <= MaxAge
  BY DEF Current, WasFresh
<1>2. Activity(e) \in Nat /\ e.heard \in Nat /\ clock.t \in Nat /\ MaxAge \in Nat
  BY <1>1, ActivityType, LqaAssumption DEF Current, EntryOK, ClockOK
<1>3. Age(Activity(e)) = AgeAt(clock.t, Activity(e)) /\ Age(Activity(e)) \in 0..Wrap - 1
  BY <1>2, AgeType
<1>4. Age(Activity(e)) <= MaxAge
  BY <1>2, <1>3, LqaAssumption DEF Stale
<1> DEFINE n == clock.t - e.heard
<1>5. n \in Nat /\ e.heard + n = clock.t /\ n <= AgeAt(clock.t, Activity(e))
  BY <1>1, <1>2, <1>3 DEF Current
<1>6. AgeAt(e.heard, Activity(e)) = AgeAt(clock.t, Activity(e)) - n
  BY <1>2, <1>5, AgeBefore
<1>7. QED BY <1>2, <1>3, <1>4, <1>5, <1>6, LqaAssumption

\* And the other way, when the file is read in time.
LEMMA CurrentAgain ==
  ASSUME ClockOK, NEW e, WasFresh(e), e.heard # Unknown => clock.t - e.heard + MaxAge < Wrap
  PROVE  Current(e)
<1>1. SUFFICES ASSUME e.heard # Unknown PROVE clock.t - e.heard <= Age(Activity(e))
  BY DEF Current, WasFresh
<1>2. Activity(e) \in Nat /\ e.heard \in Nat /\ clock.t \in Nat /\ MaxAge \in Nat /\ Wrap \in Nat
  BY <1>1, ActivityType, LqaAssumption DEF WasFresh, EntryOK, ClockOK
<1>3. Age(Activity(e)) = AgeAt(clock.t, Activity(e))
  BY <1>2, AgeType
<1> DEFINE n == clock.t - e.heard
<1>4. n \in Nat /\ e.heard + n = clock.t
  BY <1>1, <1>2 DEF WasFresh
<1>5. AgeAt(e.heard, Activity(e)) \in 0..Wrap - 1
  BY <1>2, AgeIsRemainder
<1>6. AgeAt(e.heard, Activity(e)) + n < Wrap
  BY <1>1, <1>2, <1>5 DEF WasFresh
<1>7. AgeAt(clock.t, Activity(e)) = AgeAt(e.heard, Activity(e)) + n
  BY <1>2, <1>4, <1>6, AgeGrows
<1>8. QED BY <1>2, <1>3, <1>4, <1>5, <1>7

\* The failures are not stamps either.
LEMMA PersistentFresh ==
  ASSUME NEW d, NEW k \in DOMAIN d, WasFresh(d[k])
  PROVE  WasFresh(Persistent(d)[k])
<1> DEFINE e == d[k]
           a == [e EXCEPT !.failed = 0, !.twas = FALSE]
<1>1. WasFresh(e)
  OBVIOUS
<1> HIDE DEF e
<1>2. EntryOK(a) /\ a.heard = e.heard /\ Activity(a) = Activity(e)
  BY <1>1 DEF EntryOK, Fields, WasFresh, Activity
<1>3. Persistent(d)[k] = a
  BY DEF Persistent, e
<1> HIDE DEF a
<1>4. QED BY <1>1, <1>2, <1>3 DEF WasFresh

\* The program saves what has not become stale, and stops.
LEMMA StopAges ==
  ASSUME AgeInv, Stop
  PROVE  AgeInv'
<1>1. ClockOK' /\ clock'.t = clock.t /\ db' = << >>
  BY DEF AgeInv, ClockOK, Stop
<1>2. AllCurrent(db)'
  BY <1>1 DEF AllCurrent
<1>3. \A k \in DOMAIN db : WasFresh(db[k])
  <2> SUFFICES ASSUME NEW k \in DOMAIN db PROVE WasFresh(db[k])
    OBVIOUS
  <2>1. k \in DOMAIN Pruned(db)
    BY DEF Stop, Settled
  <2>2. ~Stale(db[k])
    BY <2>1 DEF Pruned
  <2>3. QED BY <2>2, FreshThen DEF AgeInv, AllCurrent
<1>4. DOMAIN Persistent(db) = DOMAIN db /\ \A k \in DOMAIN db : WasFresh(Persistent(db)[k])
  BY <1>3, PersistentFresh DEF Persistent
<1>5. \A e : WasFresh(e) => WasFresh(e)'
  BY <1>1 DEF WasFresh
<1>6. CASE lqafile' = <<[whole |-> TRUE, db |-> Persistent(db)]>>
  <2>1. lqafile'[1].db = Persistent(db) /\ lqafile' = <<[whole |-> lqafile'[1].whole, db |-> lqafile'[1].db]>>
    BY <1>6
  <2>2. FileFresh'
    BY <1>4, <1>5, <2>1 DEF FileFresh, WasFresh
  <2>3. QED BY <1>1, <1>2, <2>2 DEF AgeInv
<1>7. ASSUME NEW part \in SUBSET DOMAIN db,
             lqafile' = <<[whole |-> FALSE, db |-> [k \in part |-> Persistent(db)[k]]]>>
      PROVE  AgeInv'
  <2>1. lqafile'[1].db = [k \in part |-> Persistent(db)[k]]
        /\ lqafile' = <<[whole |-> lqafile'[1].whole, db |-> lqafile'[1].db]>>
    BY <1>7
  <2>2. FileFresh'
    BY <1>4, <1>5, <2>1 DEF FileFresh, WasFresh
  <2>3. QED BY <1>1, <1>2, <2>2 DEF AgeInv
<1>8. CASE UNCHANGED lqafile
  <2>1. FileFresh'
    BY <1>5, <1>8 DEF FileFresh, AgeInv, WasFresh
  <2>2. QED BY <1>1, <1>2, <2>1 DEF AgeInv
<1>9. QED BY <1>6, <1>7, <1>8 DEF Stop

\* A young file, read by a program with a new start of its clock, is current.
LEMMA StartAges ==
  ASSUME AgeInv, FileYoung, Start
  PROVE  AgeInv'
<1>1. ClockOK' /\ clock'.t = clock.t /\ UNCHANGED lqafile /\ Running'
  <2>1. clock' = [t |-> clock.t, boot |-> clock.t, off |-> -1]
    BY DEF AgeInv, ClockOK, Start
  <2>2. clock'.t = clock.t /\ clock'.boot = clock.t /\ clock'.off = -1 /\ UNCHANGED lqafile
    BY <2>1 DEF Start
  <2>3. QED BY <2>1, <2>2 DEF AgeInv, ClockOK, Running
<1>2. \A e : (WasFresh(e) => WasFresh(e)') /\ (Current(e) => Current(e)')
  BY <1>1 DEF WasFresh, Current, Age, Wall
<1>3. FileFresh'
  BY <1>1, <1>2 DEF FileFresh, AgeInv, WasFresh
<1>4. AllCurrent(db')
  <2>1. CASE lqafile = << >>
    BY <2>1 DEF Start, AllCurrent
  <2>2. CASE lqafile # << >>
    <3>1. db' = lqafile[1].db
      BY <2>2 DEF Start
    <3>2. ASSUME NEW k \in DOMAIN lqafile[1].db PROVE Current(lqafile[1].db[k])
      <4>1. WasFresh(lqafile[1].db[k])
        BY <2>2 DEF AgeInv, FileFresh
      <4>2. lqafile[1].db[k].heard # Unknown => clock.t - lqafile[1].db[k].heard + MaxAge < Wrap
        BY <2>2 DEF FileYoung, Start
      <4>3. QED BY <4>1, <4>2, CurrentAgain DEF AgeInv
    <3>3. QED BY <3>1, <3>2 DEF AllCurrent
  <2>3. QED BY <2>1, <2>2
<1>5. AllCurrent(db)'
  BY <1>2, <1>4 DEF AllCurrent
<1>6. QED BY <1>1, <1>3, <1>5 DEF AgeInv

\* Every step keeps the entries current.
LEMMA AgeInvStep ==
  ASSUME AgeInv, FileYoung, LqaNext
  PROVE  AgeInv'
<1>1. ASSUME NEW f \in Channels, NEW s \in Peers, NEW q \in 0..Best,
             \/ \E twas \in BOOLEAN : SoundingHeard(f, s, q, twas)
             \/ WordHeard(f, s, q) \/ FrameSettled(f, s, q) \/ PeerReports(f, s, q)
      PROVE  AgeInv'
  BY <1>1, SoundingAges, WordAges, ReportAges
<1>2. ASSUME NEW s \in Peers, CallFails(s) \/ CallConcludes(s)
      PROVE  AgeInv'
  BY <1>2, FailureAges, ConclusionAges
<1>3. CASE ClearLqa
  <2>1. AllCurrent(db') /\ FileFresh' /\ UNCHANGED clock /\ Running
    BY <1>3 DEF ClearLqa, Event, AllCurrent, FileFresh
  <2>2. AllCurrent(db)'
    BY <1>3 DEF ClearLqa, AllCurrent
  <2>3. QED BY <2>1, <2>2 DEF AgeInv, ClockOK, Running
<1>4. CASE ClearHistory
  <2>1. UNCHANGED <<clock, lqafile, db>> /\ Running
    BY <1>4 DEF ClearHistory, Event
  <2>2. QED BY <2>1, EventAges DEF AgeInv
<1>5. CASE Prune
  <2>1. UNCHANGED <<clock, lqafile>> /\ Running /\ db' = Pruned(db)
    BY <1>5 DEF Prune
  <2>2. AllCurrent(Pruned(db))
    BY DEF Pruned, AgeInv, AllCurrent
  <2>3. QED BY <2>1, <2>2, EventAges
<1>6. QED BY <1>1, <1>2, <1>3, <1>4, <1>5, LaterAges, StopAges, StartAges DEF LqaNext

\* What is not pruned is not too old.
LEMMA NotPrunedFresh ==
  ASSUME AgeInv
  PROVE  NothingStale
<1> SUFFICES ASSUME NEW k \in DOMAIN Pruned(db), db[k].heard # Unknown
             PROVE  clock.t - db[k].heard <= MaxAge
  BY DEF NothingStale
<1>1. k \in DOMAIN db /\ ~Stale(db[k])
  BY DEF Pruned
<1>2. Current(db[k])
  BY <1>1 DEF AgeInv, AllCurrent
<1> DEFINE e == db[k]
<1>3. Current(e) /\ ~Stale(e) /\ e.heard # Unknown
  BY <1>1, <1>2
<1> HIDE DEF e
<1>4. Age(Activity(e)) \in Nat /\ e.heard \in Nat /\ MaxAge \in Nat /\ clock.t \in Nat
  <2>1. ClockOK /\ clock.t \in Nat
    BY DEF AgeInv, ClockOK
  <2>2. EntryOK(e) /\ e.heard \in Nat
    BY <1>3 DEF Current, EntryOK
  <2>3. Activity(e) \in Nat
    BY <2>2, ActivityType
  <2>4. Wrap \in Nat /\ MaxAge \in Nat
    BY LqaAssumption
  <2>5. Age(Activity(e)) \in 0..Wrap - 1
    BY <2>1, <2>3, AgeType
  <2>6. QED BY <2>1, <2>2, <2>4, <2>5
<1>5. clock.t - e.heard <= MaxAge
  BY <1>3, <1>4 DEF Current, Stale
<1>6. QED BY <1>5 DEF e

\* No measurement that is older than the age limit survives the next pruning
\* (LQADatabase::prune_stale_entries), although the stamps wrap and are of two
\* clocks, as long as the file with which the program starts is not as old as
\* the wrap is long, less the age limit.
THEOREM StaleIsPruned == LqaSpec /\ []FileYoung => []NothingStale
<1>1. LqaInit => AgeInv
  BY LqaAssumption DEF LqaInit, AgeInv, ClockOK, AllCurrent, FileFresh, Running
<1>2. AgeInv /\ FileYoung /\ [LqaNext]_lvars => AgeInv'
  <2> SUFFICES ASSUME AgeInv, FileYoung, [LqaNext]_lvars PROVE AgeInv'
    OBVIOUS
  <2>1. CASE UNCHANGED lvars
    BY <2>1 DEF lvars, AgeInv, ClockOK, AllCurrent, Current, Age, Wall, FileFresh, WasFresh, Running
  <2>2. QED BY <2>1, AgeInvStep
<1>3. AgeInv => NothingStale
  BY NotPrunedFresh
<1>4. QED BY <1>1, <1>2, <1>3, PTL DEF LqaSpec

(***************************************************************************)
(* The variable ARQ implements the abstract transfer, provided that no     *)
(* acknowledgment outlives its transfer: a sender that comes to rest has   *)
(* delivered every block.  The argument: a bit of an acknowledgment that   *)
(* is on its way names a block the peer has, or none of this message, so a *)
(* block that is marked as acknowledged is one the peer has.               *)
(***************************************************************************)

ArqStates ==
  {"IDLE", "TX_DATA", "WAIT_ACK", "RETRANSMIT", "ERROR", "RX_DATA", "SEND_ACK"}

\* The message being sent, and what was done about its blocks.
ArqTypeOK ==
  /\ state \in ArqStates
  /\ acked \in Seq(BOOLEAN) /\ Len(acked) <= MaxMessage
  /\ queue \in Seq(MsgBlocks)
  /\ state \notin {"RETRANSMIT", "ERROR"} => queue = <<>>
  /\ data \subseteq MsgBlocks
  /\ peer \subseteq MsgBlocks

\* The bitmap names, of the blocks of this message, only some that the peer has.
Truthful(bits) == \A k \in MsgBlocks : NumberOf(k) \in bits => k \in peer

AcksTruthful == \A bits \in acks : Truthful(bits)

MarksTruthful == \A k \in MsgBlocks : acked[k] => k \in peer

ArqInv == ArqTypeOK /\ AcksTruthful /\ MarksTruthful

-----------------------------------------------------------------------------
\* Blocks of one message have different numbers, none of them the last one:
\* its bit is the one in which a control frame carries flow control.
LEMMA NumbersDiffer ==
  ASSUME NEW j \in 1..MaxMessage, NEW k \in 1..MaxMessage
  PROVE  /\ NumberOf(j) = NumberOf(k) => j = k
         /\ NumberOf(k) # SeqNumbers - 1
<1>1. NumberOf(j) = j - 1 /\ NumberOf(k) = k - 1
  BY ArqAssumption DEF NumberOf
<1>2. QED BY <1>1, ArqAssumption

\* The blocks of a message are numbered from one.
LEMMA BlocksAreNumbers ==
  ASSUME ArqTypeOK
  PROVE  /\ MsgBlocks = 1..Len(acked) /\ Len(acked) \in Nat
         /\ MsgBlocks \subseteq 1..MaxMessage
BY ArqAssumption DEF ArqTypeOK, MsgBlocks

\* The peer's answer to a frame, whatever its type and its flow control.
LEMMA AnswerTruthful ==
  ASSUME NEW type \in FrameTypes, NEW flow \in BOOLEAN,
         NEW had \in SUBSET (1..MaxMessage), NEW k \in 1..MaxMessage,
         NumberOf(k) \in ParseControl(FormatControl(
                           ControlFrame(type, {NumberOf(j) : j \in had}, flow)))
  PROVE  k \in had
<1>1. NumberOf(k) \in {NumberOf(j) : j \in had} \cup {SeqNumbers - 1}
  BY DEF ParseControl, FormatControl, ControlFrame
<1>2. NumberOf(k) # SeqNumbers - 1
  BY NumbersDiffer
<1>3. PICK j \in had : NumberOf(k) = NumberOf(j)
  BY <1>1, <1>2
<1>4. QED BY <1>3, NumbersDiffer

\* Marking keeps the message and adds marks for the bits of the frame only.
LEMMA MarkAckedTyped ==
  ASSUME NEW a \in Seq(BOOLEAN), NEW bits
  PROVE  /\ MarkAcked(a, bits) \in Seq(BOOLEAN)
         /\ Len(MarkAcked(a, bits)) = Len(a) /\ DOMAIN MarkAcked(a, bits) = DOMAIN a
         /\ \A k \in DOMAIN a : MarkAcked(a, bits)[k] = (a[k] \/ NumberOf(k) \in bits)
<1> DEFINE m == [k \in DOMAIN a |-> a[k] \/ NumberOf(k) \in bits]
<1>1. DOMAIN a = 1..Len(a) /\ Len(a) \in Nat /\ \A k \in 1..Len(a) : a[k] \in BOOLEAN
  OBVIOUS
<1>2. \A k \in 1..Len(a) : m[k] \in BOOLEAN
  BY <1>1
<1>3. m \in [1..Len(a) -> BOOLEAN]
  BY <1>1, <1>2
<1>4. m \in Seq(BOOLEAN) /\ Len(m) = Len(a)
  BY <1>1, <1>3
<1>5. QED BY <1>1, <1>4 DEF MarkAcked

-----------------------------------------------------------------------------
\* Nothing is being sent at the start.
LEMMA ArqInvInit == ArqInit => ArqInv
BY ArqAssumption DEF ArqInit, ArqInv, ArqTypeOK, ArqStates, AcksTruthful, MarksTruthful, MsgBlocks

\* A step that keeps the message and what the peer has, and adds no answers.
LEMMA SameTransfer ==
  ASSUME ArqInv, MsgBlocks' = MsgBlocks, peer' = peer, acks' \subseteq acks
  PROVE  AcksTruthful'
BY DEF ArqInv, AcksTruthful, Truthful, NumberOf

\* The same, with the marks left alone too.
LEMMA SameMarks ==
  ASSUME ArqInv, acked' = acked, peer' = peer
  PROVE  MarksTruthful' /\ MsgBlocks' = MsgBlocks
BY DEF ArqInv, MarksTruthful, MsgBlocks

\* A new message forgets the marks and the answers of the one before.
LEMMA StartKeeps ==
  ASSUME ~LateAcks, ArqInv, NEW n \in 0..MaxMessage, StartTransmission(n)
  PROVE  ArqInv'
<1>1. /\ acked' = [k \in 1..n |-> FALSE] /\ n \in Nat /\ n <= MaxMessage
      /\ peer' = {} /\ acks' = {} /\ queue' = <<>> /\ state' \in {"IDLE", "WAIT_ACK"}
  BY ArqAssumption DEF StartTransmission, ArqInv, ArqTypeOK
<1>2. acked' \in Seq(BOOLEAN) /\ Len(acked') = n /\ MsgBlocks' = 1..n
  BY <1>1 DEF MsgBlocks
<1>3. data' \subseteq MsgBlocks'
  BY <1>1, <1>2 DEF StartTransmission, NextBlocks, Unacked, MsgBlocks
<1>4. QED
  BY <1>1, <1>2, <1>3 DEF ArqInv, ArqTypeOK, ArqStates, AcksTruthful, MarksTruthful

\* An answer marks blocks that the peer has.
LEMMA HearAckKeeps ==
  ASSUME ArqInv, HearAck
  PROVE  ArqInv'
<1>1. PICK bits \in acks : acked' = MarkAcked(acked, bits)
  BY DEF HearAck
<1>2. /\ acked' \in Seq(BOOLEAN) /\ Len(acked') = Len(acked) /\ MsgBlocks' = MsgBlocks
      /\ \A k \in MsgBlocks : acked'[k] = (acked[k] \/ NumberOf(k) \in bits)
  BY <1>1, MarkAckedTyped DEF ArqInv, ArqTypeOK, MsgBlocks
<1>3. UNCHANGED <<queue, acks, peer>>
  BY DEF HearAck
<1>4. /\ data' \subseteq MsgBlocks
      /\ state' \in ArqStates /\ (state' \notin {"RETRANSMIT", "ERROR"} => queue = <<>>)
  <2>1. data' \subseteq data \cup MsgBlocks
    BY <1>2 DEF HearAck, SendNextBlocks, NextBlocks, Unacked, MsgBlocks
  <2>2. state' = state \/ (state = "WAIT_ACK" /\ state' \in {"IDLE", "RETRANSMIT", "TX_DATA", "WAIT_ACK"})
    BY DEF HearAck, SendNextBlocks
  <2>3. QED BY <2>1, <2>2 DEF ArqInv, ArqTypeOK, ArqStates
<1>5. AcksTruthful'
  BY <1>2, <1>3, SameTransfer
<1>6. MarksTruthful'
  BY <1>2, <1>3 DEF ArqInv, MarksTruthful, AcksTruthful, Truthful
<1>7. QED
  BY <1>2, <1>3, <1>4, <1>5, <1>6 DEF ArqInv, ArqTypeOK

\* A timeout queues blocks of the message.
LEMMA TimeoutKeeps ==
  ASSUME ArqInv, Timeout
  PROVE  ArqInv'
<1>1. PICK late \in [1..Cardinality(Unacked(acked)) -> Unacked(acked)] : queue' = queue \o late
  BY DEF Timeout
<1>2. Cardinality(Unacked(acked)) \in Nat
  <2>1. Unacked(acked) \subseteq 1..Len(acked) /\ Len(acked) \in Nat
    BY BlocksAreNumbers DEF ArqInv, Unacked, MsgBlocks
  <2>2. IsFiniteSet(1..Len(acked))
    BY <2>1, FS_Interval
  <2>3. QED BY <2>1, <2>2, FS_Subset, FS_CardinalityType
<1>3. Unacked(acked) \subseteq MsgBlocks
  BY DEF Unacked, MsgBlocks
<1>4. late \in Seq(MsgBlocks)
  BY <1>2, <1>3
<1>5. UNCHANGED <<acked, data, acks, peer>> /\ state' = "RETRANSMIT"
  BY DEF Timeout
<1>6. MsgBlocks' = MsgBlocks /\ MarksTruthful'
  BY <1>5, SameMarks
<1>7. ArqTypeOK'
  BY <1>1, <1>4, <1>5, <1>6 DEF ArqInv, ArqTypeOK, ArqStates
<1>8. QED
  BY <1>5, <1>6, <1>7, SameTransfer DEF ArqInv

\* Queued blocks are sent again, until one has been sent too often.
LEMMA DataReadyKeeps ==
  ASSUME ArqInv, DataReady
  PROVE  ArqInv'
<1> DEFINE open  == {i \in DOMAIN queue : ~acked[queue[i]]}
           spent == {i \in open : resent[queue[i]] >= MaxRetransmits}
           sent  == {i \in open : \A j \in spent : i < j}
           again == {queue[i] : i \in sent}
<1>1. UNCHANGED <<acked, acks, peer>> /\ data' = data \cup again
  BY DEF DataReady
<1>2. again \subseteq MsgBlocks
  BY DEF ArqInv, ArqTypeOK
<1>3. MsgBlocks' = MsgBlocks /\ MarksTruthful'
  BY <1>1, SameMarks
<1>4. \/ state' = "WAIT_ACK" /\ queue' = <<>>
      \/ /\ state' = "ERROR"
         /\ \E i \in DOMAIN queue : queue' = SubSeq(queue, i + 1, Len(queue))
  BY DEF DataReady
<1>5. queue' \in Seq(MsgBlocks)
  <2>1. queue \in Seq(MsgBlocks) /\ <<>> \in Seq(MsgBlocks)
    BY DEF ArqInv, ArqTypeOK
  <2>2. ASSUME NEW i \in DOMAIN queue
        PROVE  SubSeq(queue, i + 1, Len(queue)) \in Seq(MsgBlocks)
    BY <2>1
  <2>3. QED BY <1>4, <2>1, <2>2
<1>6. ArqTypeOK'
  BY <1>1, <1>2, <1>3, <1>4, <1>5 DEF ArqInv, ArqTypeOK, ArqStates
<1>7. QED
  BY <1>1, <1>3, <1>6, SameTransfer DEF ArqInv

\* The peer's answers tell what it has at that moment, which only grows.
LEMMA PeerHearsKeeps ==
  ASSUME ArqInv, PeerHears
  PROVE  ArqInv'
<1>1. PICK k \in data, type \in FrameTypes, flow \in BOOLEAN :
        /\ peer' = peer \cup {k}
        /\ acks' = acks \cup {ParseControl(FormatControl(
                     ControlFrame(type, {NumberOf(j) : j \in peer'}, flow)))}
  BY DEF PeerHears
<1>2. UNCHANGED <<state, acked, queue, data>> /\ MsgBlocks' = MsgBlocks
  BY DEF PeerHears, txVars, MsgBlocks
<1>3. peer' \subseteq MsgBlocks /\ MsgBlocks \subseteq 1..MaxMessage
  BY <1>1, BlocksAreNumbers DEF ArqInv, ArqTypeOK
<1>4. ArqTypeOK'
  BY <1>2, <1>3 DEF ArqInv, ArqTypeOK
<1>5. MarksTruthful'
  BY <1>1, <1>2 DEF ArqInv, MarksTruthful
<1>6. ASSUME NEW bits \in acks', NEW m \in MsgBlocks, NumberOf(m) \in bits
      PROVE  m \in peer'
  <2>1. CASE bits \in acks
    BY <1>1, <1>6, <2>1 DEF ArqInv, AcksTruthful, Truthful
  <2>2. CASE bits = ParseControl(FormatControl(
                      ControlFrame(type, {NumberOf(j) : j \in peer'}, flow)))
    BY <1>3, <1>6, <2>2, AnswerTruthful
  <2>3. QED BY <1>1, <2>1, <2>2
<1>7. AcksTruthful'
  BY <1>2, <1>6 DEF AcksTruthful, Truthful, NumberOf
<1>8. QED BY <1>4, <1>5, <1>7 DEF ArqInv

\* Steps that touch neither the message nor what was sent of it.
LEMMA QuietStepsKeep ==
  ASSUME ArqInv,
         \/ HearNak \/ ErrorEvent \/ StartRx \/ AckSent \/ (\E s \in Seqs : HearData(s))
         \/ AckLost \/ UNCHANGED arqVars
  PROVE  ArqInv'
<1>1. UNCHANGED <<acked, queue, data, peer>> /\ acks' \subseteq acks
  BY DEF HearNak, ErrorEvent, StartRx, AckSent, HearData, AckLost, arqVars, txVars
<1>2. state' \in ArqStates /\ (state' \notin {"RETRANSMIT", "ERROR"} => queue = <<>>)
  BY DEF HearNak, ErrorEvent, StartRx, AckSent, HearData, AckLost, arqVars, ArqInv, ArqTypeOK,
         ArqStates
<1>3. MsgBlocks' = MsgBlocks /\ MarksTruthful'
  BY <1>1, SameMarks
<1>4. QED
  BY <1>1, <1>2, <1>3, SameTransfer DEF ArqInv, ArqTypeOK

\* Every step of the sender, the receiver and the channel.
LEMMA ArqInvNext ==
  ASSUME ~LateAcks, ArqInv, [ArqNext]_arqVars
  PROVE  ArqInv'
<1>1. CASE ResetArq
  BY <1>1, ArqAssumption
  DEF ResetArq, ArqInv, ArqTypeOK, ArqStates, AcksTruthful, MarksTruthful, MsgBlocks
<1>2. QED
  BY <1>1, StartKeeps, HearAckKeeps, TimeoutKeeps, DataReadyKeeps, PeerHearsKeeps, QuietStepsKeep
  DEF ArqNext

-----------------------------------------------------------------------------
(* The refinement *)

\* What the abstract transfer sees of a state of the sender.
StatusOf(s) ==
  IF s \in {"TX_DATA", "WAIT_ACK", "RETRANSMIT"} THEN "busy"
  ELSE IF s = "ERROR" THEN "failed" ELSE "rest"

\* The first message is one of no blocks.
LEMMA InitMaps == ArqInit => Transfer!TransferInit
BY DEF ArqInit, Transfer!TransferInit, MsgBlocks

\* A step that the abstract transfer does not see.
LEMMA Stutters ==
  ASSUME acked' = acked \/ MsgBlocks' = MsgBlocks, peer' = peer,
         StatusOf(state') = StatusOf(state)
  PROVE  UNCHANGED Transfer!tvars
BY DEF Transfer!tvars, StatusOf, MsgBlocks

\* A new message begins a transfer.
LEMMA StartBegins ==
  ASSUME ArqInv, NEW n \in 0..MaxMessage, StartTransmission(n)
  PROVE  Transfer!Begin
<1>1. state = "IDLE" /\ acked' = [k \in 1..n |-> FALSE] /\ peer' = {}
  BY DEF StartTransmission
<1>2. MsgBlocks' = 1..n /\ n \in Nat /\ MsgBlocks' \subseteq 1..MaxMessage
  BY <1>1, ArqAssumption DEF MsgBlocks
<1>3. state' = IF n = 0 THEN "IDLE" ELSE "WAIT_ACK"
  BY DEF StartTransmission
<1>4. n = 0 <=> MsgBlocks' = {}
  BY <1>2
<1>5. QED
  BY <1>1, <1>2, <1>3, <1>4 DEF Transfer!Begin

\* An answer ends the transfer only if it leaves no block without a mark, and
\* every marked block has arrived.
LEMMA AckFinishes ==
  ASSUME ArqInv, HearAck
  PROVE  Transfer!Finish \/ UNCHANGED Transfer!tvars
<1>1. ArqInv' /\ peer' = peer
  BY HearAckKeeps DEF HearAck
<1>2. MsgBlocks' = MsgBlocks
  BY MarkAckedTyped DEF HearAck, ArqInv, ArqTypeOK, MsgBlocks
<1>3. CASE state = "WAIT_ACK" /\ Unacked(acked') = {} /\ state' = "IDLE"
  <2>1. \A k \in MsgBlocks : acked'[k]
    BY <1>2, <1>3 DEF Unacked, MsgBlocks
  <2>2. MsgBlocks \subseteq peer
    BY <1>1, <1>2, <2>1 DEF ArqInv, MarksTruthful
  <2>3. QED BY <1>1, <1>2, <1>3, <2>2 DEF Transfer!Finish
<1>4. CASE state' = state \/ (state = "WAIT_ACK" /\ state' \in {"RETRANSMIT", "TX_DATA", "WAIT_ACK"})
  BY <1>1, <1>2, <1>4, Stutters DEF StatusOf
<1>5. QED
  BY <1>3, <1>4 DEF HearAck, SendNextBlocks

\* A frame that arrives delivers a block of the message.
LEMMA HearingDelivers ==
  ASSUME ArqInv, PeerHears
  PROVE  Transfer!Deliver
BY DEF PeerHears, Transfer!Deliver, ArqInv, ArqTypeOK, txVars, MsgBlocks

\* A data frame of the peer's own leaves a transfer alone: it ends a reception,
\* and of the sender's states only TX_DATA.
LEMMA DataKeepsStatus ==
  ASSUME ~BothWays, NEW s \in Seqs, HearData(s)
  PROVE  StatusOf(state') = StatusOf(state) /\ UNCHANGED <<acked, peer>>
<1>1. UNCHANGED <<acked, peer>> /\ state # "TX_DATA"
  BY DEF HearData, txVars
<1>2. state' = state \/ (state = "RX_DATA" /\ state' \in {"IDLE", "SEND_ACK"})
  BY <1>1 DEF HearData
<1>3. QED BY <1>1, <1>2 DEF StatusOf

\* The rest of the sender's steps: a timeout goes on, a block sent too often
\* fails, a reset clears.
LEMMA OtherStepsMap ==
  ASSUME ~BothWays, ArqInv, ArqNext,
         ~HearAck, ~PeerHears, ~\E n \in 0..MaxMessage : StartTransmission(n)
  PROVE  [Transfer!TransferNext]_(Transfer!tvars)
<1>1. CASE ResetArq
  <2>1. Transfer!Clear
    BY <1>1 DEF ResetArq, Transfer!Clear, MsgBlocks
  <2>2. QED BY <2>1 DEF Transfer!TransferNext
<1>2. CASE ErrorEvent
  <2>1. Transfer!Fail
    BY <1>2 DEF ErrorEvent, Transfer!Fail, txVars, MsgBlocks
  <2>2. QED BY <2>1 DEF Transfer!TransferNext
<1>3. CASE DataReady
  <2>1. acked' = acked /\ peer' = peer /\ state = "RETRANSMIT" /\ state' \in {"WAIT_ACK", "ERROR"}
    BY <1>3 DEF DataReady
  <2>2. CASE state' = "ERROR"
    <3>1. Transfer!Fail
      BY <2>1, <2>2 DEF Transfer!Fail, MsgBlocks
    <3>2. QED BY <3>1 DEF Transfer!TransferNext
  <2>3. CASE state' = "WAIT_ACK"
    BY <2>1, <2>3, Stutters DEF StatusOf
  <2>4. QED BY <2>1, <2>2, <2>3
<1>4. CASE HearNak \/ Timeout \/ StartRx \/ AckSent \/ AckLost \/ \E s \in Seqs : HearData(s)
  <2>1. acked' = acked /\ peer' = peer /\ StatusOf(state') = StatusOf(state)
    BY <1>4, DataKeepsStatus DEF HearNak, Timeout, StartRx, AckSent, AckLost, txVars, StatusOf
  <2>2. QED BY <2>1, Stutters
<1>5. QED
  BY <1>1, <1>2, <1>3, <1>4 DEF ArqNext

\* Every step of the sender is one of the abstract transfer, or none.
LEMMA StepsMap ==
  ASSUME ~BothWays, ArqInv, [ArqNext]_arqVars
  PROVE  [Transfer!TransferNext]_(Transfer!tvars)
<1>1. CASE UNCHANGED arqVars
  BY <1>1, Stutters DEF arqVars
<1>2. CASE HearAck
  BY <1>2, AckFinishes DEF Transfer!TransferNext
<1>3. CASE PeerHears
  BY <1>3, HearingDelivers DEF Transfer!TransferNext
<1>4. ASSUME NEW n \in 0..MaxMessage, StartTransmission(n)
      PROVE  [Transfer!TransferNext]_(Transfer!tvars)
  BY <1>4, StartBegins DEF Transfer!TransferNext
<1>5. QED
  BY <1>1, <1>2, <1>3, <1>4, OtherStepsMap

\* The marks of the sender are never ahead of the peer (process_ack,
\* mark_block_acked), whatever the channel loses, repeats or reorders.
THEOREM MarksFollowPeer ==
  ASSUME ~LateAcks
  PROVE  ArqSpec => []MarksTruthful
<1>1. ArqInv => MarksTruthful
  BY DEF ArqInv
<1>2. QED
  BY <1>1, ArqInvInit, ArqInvNext, PTL DEF ArqSpec

\* The variable ARQ implements the reliable transfer ("Provides reliable data
\* transfer with acknowledgments, retransmission", fs1052_arq.h:6): it reports
\* success only when the peer has every block. Two things must not happen: an answer
\* must not outlive its transfer (LateAcks), and no data frame may arrive between an
\* acknowledgment that leaves nothing to send and the next one, in TX_DATA (BothWays),
\* where process_data_frame() would end the transfer as it ends a reception. In
\* WAIT_ACK and RETRANSMIT data frames do no harm.
THEOREM ArqTransfersReliably ==
  ASSUME ~LateAcks, ~BothWays
  PROVE  ArqSpec => ImplementsTransfer
<1>1. ArqSpec => []ArqInv
  BY ArqInvInit, ArqInvNext, PTL DEF ArqSpec
<1>2. QED
  BY <1>1, InitMaps, StepsMap, PTL DEF ArqSpec, ImplementsTransfer, Transfer!TransferSpec

-----------------------------------------------------------------------------
(***************************************************************************)
(* The station's data and its state file.  Unless a command left the       *)
(* memory ahead of the file, the file is what save_state() makes of the    *)
(* memory, or the memory is what load_state() made of the file: a file     *)
(* that somebody else wrote need not be one that this program would write. *)
(* That the two are in step says nothing yet of a restart, which is        *)
(* another round of loading: an overlay merged onto its preset gives the   *)
(* same channels in another order, and only if ids are not used twice.     *)
(***************************************************************************)

\* Induction over the places of a sequence, and functions defined by it

\* What holds at 0, and of a place when it holds of the one before it, holds of
\* all: there is no first place where it does not.
LEMMA Reached ==
  ASSUME NEW n \in Nat, NEW Good, 0 \in Good,
         \A k \in 1..n : k - 1 \in Good => k \in Good
  PROVE  \A k \in 0..n : k \in Good
<1> DEFINE Bad == {k \in 0..n : k \notin Good}
<1>1. SUFFICES ASSUME Bad # {} PROVE FALSE
  OBVIOUS
<1>2. Bad \in SUBSET Nat
  OBVIOUS
<1>3. PICK m \in Bad : \A k \in Bad : m <= k
  BY <1>1, <1>2, FirstPosition
<1>4. m \in 1..n /\ m - 1 \in 0..n /\ ~(m <= m - 1)
  BY <1>3
<1>5. m - 1 \in Good
  BY <1>3, <1>4
<1>6. QED BY <1>3, <1>4, <1>5

\* A function that goes on from each place to the next by the steps g, from a.
Goes(f, n, a, g) == f[0] = a /\ \A k \in 1..n : f[k] = g[k][f[k - 1]]

\* If the steps lead from what holds at a place (S) to what holds at the next, there
\* is one.
LEMMA Iterated ==
  ASSUME NEW n \in Nat, NEW S, NEW a \in S[0], NEW g,
         \A k \in 1..n : \A x \in S[k - 1] : g[k][x] \in S[k]
  PROVE  \E f : f = [k \in 0..n |-> f[k]] /\ Goes(f, n, a, g) /\ \A k \in 0..n : f[k] \in S[k]
<1> DEFINE To(f, m) == /\ f = [k \in 0..m |-> f[k]] /\ Goes(f, m, a, g)
                       /\ \A k \in 0..m : f[k] \in S[k]
           Good == {m \in 0..n : \E f : To(f, m)}
<1>1. 0 \in Good
  <2> DEFINE h == [k \in 0..0 |-> a]
  <2>1. h[0] = a /\ \A k \in 0..0 : k = 0
    OBVIOUS
  <2>2. h = [k \in 0..0 |-> h[k]]
    OBVIOUS
  <2> HIDE DEF h
  <2>3. To(h, 0)
    BY <2>1, <2>2 DEF Goes
  <2> HIDE DEF To
  <2>4. \E f : To(f, 0)
    BY <2>3
  <2>5. QED BY <2>4
<1>2. ASSUME NEW k \in 1..n, k - 1 \in Good PROVE k \in Good
  <2>1. PICK f : To(f, k - 1)
    BY <1>2
  <2> DEFINE h == [i \in 0..k |-> IF i = k THEN g[k][f[k - 1]] ELSE f[i]]
  <2>2. k - 1 \in 0..k - 1 /\ f[k - 1] \in S[k - 1]
    BY <2>1
  <2>3. g[k][f[k - 1]] \in S[k]
    BY <2>2
  <2>4. \A i \in 0..k - 1 : h[i] = f[i]
    OBVIOUS
  <2>5. h[k] = g[k][f[k - 1]]
    OBVIOUS
  <2>6. h = [i \in 0..k |-> h[i]]
    OBVIOUS
  <2> HIDE DEF h
  <2>7. h[0] = a
    BY <2>1, <2>4 DEF Goes
  <2>8. ASSUME NEW i \in 1..k PROVE h[i] = g[i][h[i - 1]]
    <3>1. i - 1 \in 0..k - 1 /\ h[i - 1] = f[i - 1]
      BY <2>4
    <3>2. CASE i = k
      BY <2>5, <3>1, <3>2
    <3>3. CASE i # k
      <4>1. i \in 1..k - 1 /\ i \in 0..k - 1
        BY <3>3
      <4>2. f[i] = g[i][f[i - 1]]
        BY <2>1, <4>1 DEF Goes
      <4>3. QED BY <2>4, <3>1, <4>1, <4>2
    <3>4. QED BY <3>2, <3>3
  <2>9. ASSUME NEW i \in 0..k PROVE h[i] \in S[i]
    <3>1. CASE i = k
      BY <2>3, <2>5, <3>1
    <3>2. CASE i # k
      <4>1. i \in 0..k - 1
        BY <3>2
      <4>2. QED BY <2>1, <2>4, <4>1
    <3>3. QED BY <3>1, <3>2
  <2>10. To(h, k)
    BY <2>6, <2>7, <2>8, <2>9 DEF Goes
  <2> HIDE DEF To
  <2>11. \E e : To(e, k)
    BY <2>10
  <2>12. k \in 0..n
    OBVIOUS
  <2>13. QED BY <2>11, <2>12
<1>3. n \in Good
  <2> HIDE DEF Good
  <2>1. \A k \in 1..n : k - 1 \in Good => k \in Good
    BY <1>2
  <2>2. \A k \in 0..n : k \in Good
    BY <1>1, <2>1, Reached
  <2>3. QED BY <2>2
<1>4. QED BY <1>3

\* The least of some numbers is one of them.
LEMMA LeastIn ==
  ASSUME NEW T \in SUBSET Nat, T # {}
  PROVE  Min(T) \in T /\ \A k \in T : Min(T) <= k
<1>1. \E m \in T : \A k \in T : m <= k
  BY FirstPosition
<1>2. QED BY <1>1, Zenon DEF Min

\* One entry more.
LEMMA AppendedSet ==
  ASSUME NEW T, NEW s \in Seq(T), NEW e \in T
  PROVE  Append(s, e) \in Seq(T) /\ ToSet(Append(s, e)) = ToSet(s) \union {e}
<1>1. Append(s, e) \in Seq(T) /\ Len(Append(s, e)) = Len(s) + 1
  OBVIOUS
<1>2. \A i \in 1..Len(s) : Append(s, e)[i] = s[i]
  OBVIOUS
<1>3. Append(s, e)[Len(s) + 1] = e
  OBVIOUS
<1>4. DOMAIN Append(s, e) = 1..Len(s) + 1 /\ DOMAIN s = 1..Len(s)
  BY <1>1
<1>5. 1..Len(s) + 1 = 1..Len(s) \union {Len(s) + 1}
  OBVIOUS
<1>6. QED BY <1>1, <1>2, <1>3, <1>4, <1>5 DEF ToSet

Injective(s) == \A i, j \in DOMAIN s : s[i] = s[j] => i = j

\* A new entry repeats none.
LEMMA AppendedInjective ==
  ASSUME NEW T, NEW s \in Seq(T), NEW e \in T, Injective(s), e \notin ToSet(s)
  PROVE  Injective(Append(s, e))
<1>1. DOMAIN Append(s, e) = 1..Len(s) + 1 /\ DOMAIN s = 1..Len(s) /\ Len(s) \in Nat
  OBVIOUS
<1>2. \A i \in 1..Len(s) : Append(s, e)[i] = s[i] /\ s[i] # e
  BY DEF ToSet
<1>3. Append(s, e)[Len(s) + 1] = e
  OBVIOUS
<1>4. QED BY <1>1, <1>2, <1>3 DEF Injective

\* What Keep keeps.
KeepUpTo(f, s, S) ==
  f = [n \in 0..Len(s) |->
         IF n = 0 THEN <<>> ELSE IF s[n] \in S THEN Append(f[n - 1], s[n]) ELSE f[n - 1]]

\* Keep is the last value of a function defined entry by entry.
LEMMA KeepIs ==
  ASSUME NEW T, NEW s \in Seq(T), NEW S
  PROVE  \E f : KeepUpTo(f, s, S) /\ Keep(s, S) = f[Len(s)]
<1> DEFINE n == Len(s)
           X == [k \in 0..n |-> Seq(T)]
           g == [k \in 1..n |-> [x \in Seq(T) |-> IF s[k] \in S THEN Append(x, s[k]) ELSE x]]
<1>1. n \in Nat /\ <<>> \in Seq(T) /\ \A k \in 1..n : s[k] \in T
  OBVIOUS
<1>2. X[0] = Seq(T) /\ \A k \in 1..n : X[k] = Seq(T) /\ X[k - 1] = Seq(T)
  BY <1>1
<1>3. \A k \in 1..n : \A x \in Seq(T) : g[k][x] = IF s[k] \in S THEN Append(x, s[k]) ELSE x
  OBVIOUS
<1>4. \A k \in 1..n : \A x \in Seq(T) : g[k][x] \in Seq(T)
  BY <1>1, <1>3
<1> HIDE DEF X, g
<1>5. \A k \in 1..n : \A x \in X[k - 1] : g[k][x] \in X[k]
  BY <1>2, <1>4
<1>6. <<>> \in X[0]
  BY <1>1, <1>2
<1>7. PICK f : f = [k \in 0..n |-> f[k]] /\ Goes(f, n, <<>>, g) /\ \A k \in 0..n : f[k] \in X[k]
  <2> HIDE DEF n
  <2>1. QED BY <1>1, <1>5, <1>6, Iterated
<1>8. ASSUME NEW k \in 1..n
      PROVE  f[k] = IF s[k] \in S THEN Append(f[k - 1], s[k]) ELSE f[k - 1]
  <2>1. k - 1 \in 0..n
    BY <1>1
  <2>2. f[k - 1] \in Seq(T)
    BY <1>2, <1>7, <2>1
  <2>3. QED BY <1>3, <1>7, <2>2 DEF Goes
<1>9. KeepUpTo(f, s, S)
  <2>1. \A k \in 0..n : k = 0 \/ k \in 1..n
    BY <1>1
  <2>2. \A k \in 0..n : f[k] = IF k = 0 THEN <<>> ELSE IF s[k] \in S THEN Append(f[k - 1], s[k]) ELSE f[k - 1]
    BY <1>7, <1>8, <2>1 DEF Goes
  <2>3. QED BY <1>7, <2>2 DEF KeepUpTo
<1> DEFINE c == CHOOSE h : h = [k \in 0..Len(s) |->
                  IF k = 0 THEN <<>> ELSE IF s[k] \in S THEN Append(h[k - 1], s[k]) ELSE h[k - 1]]
<1>10. \E h : KeepUpTo(h, s, S)
  BY <1>9
<1>11. KeepUpTo(c, s, S)
  BY <1>10, Zenon DEF KeepUpTo
<1>12. Keep(s, S) = c[Len(s)]
  BY DEF Keep
<1>13. QED BY <1>11, <1>12

\* What is kept are the entries of the set, and none more often than before.
LEMMA KeepFacts ==
  ASSUME NEW T, NEW s \in Seq(T), NEW S
  PROVE  /\ Keep(s, S) \in Seq(T)
         /\ ToSet(Keep(s, S)) = ToSet(s) \cap S
         /\ Injective(s) => Injective(Keep(s, S))
<1>1. PICK f : KeepUpTo(f, s, S) /\ Keep(s, S) = f[Len(s)]
  BY KeepIs
<1> DEFINE Begin(k) == {s[i] : i \in 1..k}
           Good == {k \in 0..Len(s) :
                      /\ f[k] \in Seq(T) /\ ToSet(f[k]) = Begin(k) \cap S
                      /\ Injective(s) => Injective(f[k])}
<1>2. 0 \in Good
  <2>1. f[0] = <<>> /\ Len(s) \in Nat
    BY <1>1 DEF KeepUpTo
  <2>2. <<>> \in Seq(T) /\ ToSet(<<>>) = {} /\ Injective(<<>>)
    BY DEF ToSet, Injective
  <2>3. Begin(0) = {} /\ 0 \in 0..Len(s)
    BY <2>1
  <2> HIDE DEF Begin
  <2>4. QED BY <2>1, <2>2, <2>3
<1>3. ASSUME NEW k \in 1..Len(s), k - 1 \in Good PROVE k \in Good
  <2>1. k - 1 \in 0..Len(s) /\ k \in 0..Len(s) /\ s[k] \in T
    OBVIOUS
  <2>2. f[k] = IF s[k] \in S THEN Append(f[k - 1], s[k]) ELSE f[k - 1]
    <3>1. k # 0
      OBVIOUS
    <3>2. KeepUpTo(f, s, S)
      BY <1>1
    <3>3. QED BY <2>1, <3>1, <3>2 DEF KeepUpTo
  <2>3. f[k - 1] \in Seq(T) /\ ToSet(f[k - 1]) = Begin(k - 1) \cap S
        /\ (Injective(s) => Injective(f[k - 1]))
    BY <1>3
  <2>4. Begin(k) = Begin(k - 1) \union {s[k]}
    <3>1. 1..k = 1..k - 1 \union {k}
      OBVIOUS
    <3>2. QED BY <3>1
  <2>5. CASE s[k] \in S
    <3>1. Injective(s) => s[k] \notin Begin(k - 1)
      BY DEF Injective
    <3>2. f[k] = Append(f[k - 1], s[k])
      BY <2>2, <2>5
    <3>3. f[k] \in Seq(T) /\ ToSet(f[k]) = (Begin(k - 1) \cap S) \union {s[k]}
      BY <2>1, <2>3, <3>2, AppendedSet
    <3>4. Injective(s) => Injective(f[k])
      <4> HIDE DEF Begin
      <4>1. QED BY <2>1, <2>3, <3>1, <3>2, AppendedInjective
    <3> HIDE DEF Begin
    <3>5. QED BY <2>1, <2>4, <2>5, <3>3, <3>4
  <2>6. CASE s[k] \notin S
    <3> HIDE DEF Begin
    <3>1. QED BY <2>1, <2>2, <2>3, <2>4, <2>6
  <2>7. QED BY <2>5, <2>6
<1>4. Len(s) \in Good
  <2>1. Len(s) \in Nat
    OBVIOUS
  <2> HIDE DEF Good
  <2>2. \A k \in 1..Len(s) : k - 1 \in Good => k \in Good
    BY <1>3
  <2>3. \A k \in 0..Len(s) : k \in Good
    BY <1>2, <2>1, <2>2, Reached
  <2>4. QED BY <2>1, <2>3
<1>5. Begin(Len(s)) = ToSet(s)
  BY DEF ToSet
<1>6. QED BY <1>1, <1>4, <1>5

-----------------------------------------------------------------------------
(* Channel identifiers *)

RowSet      == [id : 1..MaxId, rx : Nat, opt : Nat, use : {0}]
ChannelSet  == [id : 1..MaxId, rx : Nat, opt : Nat, use : Nat]

\* No two entries with an id have the same one.
Distinct(chs) == \A i, j \in DOMAIN chs : chs[i].id # 0 /\ chs[i].id = chs[j].id => i = j

\* A list has no more ids than entries.
LEMMA IdsCount ==
  ASSUME NEW T, NEW chs \in Seq(T)
  PROVE  IsFiniteSet(Ids(chs)) /\ Cardinality(Ids(chs)) <= Len(chs)
<1> DEFINE n == Len(chs)
           f == [k \in 1..n |-> chs[k].id]
<1>1. n \in Nat /\ DOMAIN chs = 1..n
  OBVIOUS
<1>2. Ids(chs) = {f[k] : k \in 1..n}
  BY <1>1 DEF Ids
<1>3. f \in Surjection(1..n, Ids(chs))
  <2>1. \A k \in 1..n : f[k] \in Ids(chs)
    BY <1>2
  <2>2. f \in [1..n -> Ids(chs)]
    BY <2>1
  <2> HIDE DEF f
  <2>3. QED BY <1>2, <2>2 DEF Surjection
<1> HIDE DEF n, f
<1>4. IsFiniteSet(1..n) /\ Cardinality(1..n) = n
  BY <1>1, FS_Interval
<1>5. QED BY <1>3, <1>4, FS_Surjection DEF n

\* An id that is free is found.
LEMMA FreeId ==
  ASSUME NEW chs, (1..MaxId) \ Ids(chs) # {}
  PROVE  NextFreeId(chs) \in (1..MaxId) \ Ids(chs)
<1>1. (1..MaxId) \ Ids(chs) \in SUBSET Nat
  OBVIOUS
<1>2. QED BY <1>1, LeastIn DEF NextFreeId

\* A list shorter than there are ids leaves one free, and so does one of that length
\* with a blank.
LEMMA RoomForOne ==
  ASSUME NEW T, NEW chs \in Seq(T),
         Len(chs) < MaxId \/ (Len(chs) <= MaxId /\ 0 \in Ids(chs))
  PROVE  (1..MaxId) \ Ids(chs) # {}
<1>1. SUFFICES ASSUME 1..MaxId \subseteq Ids(chs) PROVE FALSE
  OBVIOUS
<1>2. MaxId \in Nat /\ Len(chs) \in Nat
  BY StoreAssumption
<1>3. IsFiniteSet(Ids(chs)) /\ Cardinality(Ids(chs)) <= Len(chs)
  BY IdsCount
<1>4. Cardinality(1..MaxId) = MaxId /\ Cardinality(0..MaxId) = MaxId + 1
  <2>1. Cardinality(1..MaxId) = IF 1 > MaxId THEN 0 ELSE MaxId - 1 + 1
    BY <1>2, FS_Interval
  <2>2. Cardinality(0..MaxId) = IF 0 > MaxId THEN 0 ELSE MaxId - 0 + 1
    BY <1>2, FS_Interval
  <2>3. QED BY <1>2, <2>1, <2>2
<1>5. \A U : U \subseteq Ids(chs) => Cardinality(U) <= Cardinality(Ids(chs))
  BY <1>3, FS_Subset
<1>6. Cardinality(Ids(chs)) \in Nat
  BY <1>3, FS_CardinalityType
<1>7. MaxId <= Len(chs)
  BY <1>1, <1>2, <1>3, <1>4, <1>5, <1>6
<1>8. 0 \in Ids(chs) => 0..MaxId \subseteq Ids(chs)
  <2>1. 0..MaxId = {0} \union 1..MaxId
    BY <1>2
  <2>2. QED BY <1>1, <2>1
<1>9. QED BY <1>2, <1>3, <1>4, <1>5, <1>6, <1>7, <1>8

\* What is known when k entries have been looked at.
Filled(chs, k) ==
  {x \in Seq(BlankRowSet) :
     /\ Len(x) = Len(chs) /\ \A i \in 1..k : x[i].id # 0
     /\ Distinct(chs) => Distinct(x)
     /\ NoBlanks(chs) => x = chs}

\* Filling the next entry.
LEMMA FilledOne ==
  ASSUME NEW chs \in Seq(BlankRowSet), NoBlanks(chs) \/ Len(chs) <= MaxId,
         NEW k \in 1..Len(chs), NEW x \in Filled(chs, k - 1)
  PROVE  FillId(x, k) \in Filled(chs, k)
<1>1. /\ x \in Seq(BlankRowSet) /\ Len(x) = Len(chs) /\ \A i \in 1..k - 1 : x[i].id # 0
      /\ Distinct(chs) => Distinct(x)
      /\ NoBlanks(chs) => x = chs
      /\ DOMAIN x = 1..Len(chs) /\ x[k] \in BlankRowSet
  BY DEF Filled
<1>2. \A i \in 1..k : i \in 1..k - 1 \/ i = k
  OBVIOUS
<1>3. CASE x[k].id # 0
  <2>1. FillId(x, k) = x
    BY <1>3 DEF FillId
  <2>2. QED BY <1>1, <1>2, <1>3, <2>1 DEF Filled
<1>4. CASE x[k].id = 0
  <2> DEFINE i == NextFreeId(x)
             e == [x[k] EXCEPT !.id = i]
             y == [x EXCEPT ![k] = e]
  <2>1. ~NoBlanks(chs) /\ Len(x) <= MaxId /\ 0 \in Ids(x)
    BY <1>1, <1>4 DEF NoBlanks, Ids
  <2>2. i \in (1..MaxId) \ Ids(x)
    BY <1>1, <2>1, RoomForOne, FreeId
  <2> HIDE DEF i
  <2>3. e \in BlankRowSet /\ e.id = i
    <3> DEFINE r == x[k]
    <3>1. r \in BlankRowSet /\ i \in 0..MaxId
      BY <1>1, <2>2
    <3> HIDE DEF r
    <3>2. [r EXCEPT !.id = i] \in BlankRowSet /\ [r EXCEPT !.id = i].id = i
      BY <3>1 DEF BlankRowSet
    <3>3. QED BY <3>2 DEF r
  <2> HIDE DEF e
  <2>4. y \in Seq(BlankRowSet) /\ Len(y) = Len(chs) /\ DOMAIN y = 1..Len(chs)
    BY <1>1, <2>3
  <2>5. y[k] = e /\ \A j \in 1..Len(chs) : j # k => y[j] = x[j]
    BY <1>1
  <2>6. FillId(x, k) = y
    BY <1>4 DEF FillId, y, e, i
  <2> HIDE DEF y
  <2>7. \A j \in 1..k : y[j].id # 0
    BY <1>1, <1>2, <2>2, <2>3, <2>5
  <2>8. \A j \in 1..Len(chs) : x[j].id # i
    BY <1>1, <2>2 DEF Ids
  <2>9. Distinct(x) => Distinct(y)
    BY <1>1, <2>3, <2>4, <2>5, <2>8 DEF Distinct
  <2>10. QED BY <1>1, <2>1, <2>4, <2>6, <2>7, <2>9 DEF Filled
<1>5. QED BY <1>3, <1>4

\* What FillIds computes.
FillUpTo(f, chs) == f = [n \in 0..Len(chs) |-> IF n = 0 THEN chs ELSE FillId(f[n - 1], n)]

\* Filling one blank after the other fills the list.
LEMMA FillIdsFilled ==
  ASSUME NEW chs \in Seq(BlankRowSet), NoBlanks(chs) \/ Len(chs) <= MaxId
  PROVE  FillIds(chs) \in Filled(chs, Len(chs))
<1> DEFINE n == Len(chs)
           S == [k \in 0..n |-> Filled(chs, k)]
           g == [k \in 1..n |-> [x \in Filled(chs, k - 1) |-> FillId(x, k)]]
<1>1. n \in Nat /\ chs \in Filled(chs, 0)
  BY DEF Filled
<1>2. S[0] = Filled(chs, 0) /\ \A k \in 0..n : S[k] = Filled(chs, k)
  BY <1>1
<1>3. \A k \in 1..n : k - 1 \in 0..n /\ k \in 0..n
  BY <1>1
<1>4. \A k \in 1..n : \A x \in Filled(chs, k - 1) : g[k][x] = FillId(x, k)
  OBVIOUS
<1>5. \A k \in 1..n : \A x \in Filled(chs, k - 1) : FillId(x, k) \in Filled(chs, k)
  BY FilledOne
<1> HIDE DEF S, g
<1>6. \A k \in 1..n : \A x \in S[k - 1] : g[k][x] \in S[k]
  BY <1>2, <1>3, <1>4, <1>5
<1>7. PICK f : f = [k \in 0..n |-> f[k]] /\ Goes(f, n, chs, g) /\ \A k \in 0..n : f[k] \in S[k]
  <2> HIDE DEF n
  <2>1. QED BY <1>1, <1>2, <1>6, Iterated
<1>8. \A k \in 1..n : f[k] = FillId(f[k - 1], k)
  BY <1>2, <1>3, <1>4, <1>7 DEF Goes
<1>9. FillUpTo(f, chs)
  <2>1. \A k \in 0..n : k = 0 \/ k \in 1..n
    BY <1>1
  <2>2. \A k \in 0..n : f[k] = IF k = 0 THEN chs ELSE FillId(f[k - 1], k)
    BY <1>7, <1>8, <2>1 DEF Goes
  <2>3. QED BY <1>7, <2>2 DEF FillUpTo
<1> DEFINE c == CHOOSE h : h = [k \in 0..Len(chs) |-> IF k = 0 THEN chs ELSE FillId(h[k - 1], k)]
<1>10. \E h : FillUpTo(h, chs)
  BY <1>9
<1>11. FillUpTo(c, chs)
  BY <1>10, Zenon DEF FillUpTo
<1>12. FillIds(chs) = c[n]
  BY DEF FillIds
<1> HIDE DEF c
<1>13. c[0] = chs /\ \A k \in 1..n : c[k] = FillId(c[k - 1], k)
  <2>1. \A k \in 0..n : c[k] = IF k = 0 THEN chs ELSE FillId(c[k - 1], k)
    BY <1>11, Zenon DEF FillUpTo
  <2>2. 0 \in 0..n /\ \A k \in 1..n : k \in 0..n /\ k # 0
    BY <1>1
  <2> HIDE DEF n
  <2>3. QED BY <2>1, <2>2
<1> DEFINE Good == {k \in 0..n : c[k] \in Filled(chs, k)}
<1>14. 0 \in Good
  BY <1>1, <1>13
<1>15. \A k \in 1..n : k - 1 \in Good => k \in Good
  BY <1>3, <1>5, <1>13
<1>16. n \in Good
  <2> HIDE DEF Good, n
  <2>1. n \in 0..n
    BY <1>1
  <2>2. QED BY <1>1, <1>14, <1>15, <2>1, Reached
<1>17. QED BY <1>12, <1>16

\* A row with an id.
LEMMA Unblank ==
  ASSUME NEW e \in BlankRowSet, e.id # 0
  PROVE  e \in RowSet
<1>1. MaxId \in Nat
  BY StoreAssumption
<1>2. e.id \in 1..MaxId
  BY <1>1 DEF BlankRowSet
<1>3. QED BY <1>2 DEF BlankRowSet, RowSet

\* Lists read from files have their ids, each its own if those given were.
LEMMA FilledRows ==
  ASSUME NEW chs \in Seq(BlankRowSet), NoBlanks(chs) \/ Len(chs) <= MaxId
  PROVE  /\ FillIds(chs) \in Seq(RowSet) /\ Len(FillIds(chs)) = Len(chs)
         /\ Distinct(chs) => Distinct(FillIds(chs))
         /\ NoBlanks(chs) => FillIds(chs) = chs
<1> DEFINE x == FillIds(chs)
<1>1. x \in Filled(chs, Len(chs))
  BY FillIdsFilled
<1> HIDE DEF x
<1>2. /\ x \in Seq(BlankRowSet) /\ Len(x) = Len(chs) /\ \A i \in 1..Len(chs) : x[i].id # 0
      /\ Distinct(chs) => Distinct(x)
      /\ NoBlanks(chs) => x = chs
  BY <1>1 DEF Filled
<1>3. MaxId \in Nat
  BY StoreAssumption
<1>4. ASSUME NEW i \in 1..Len(x) PROVE x[i] \in RowSet
  <2>1. x[i] \in BlankRowSet /\ x[i].id # 0
    BY <1>2
  <2>2. QED BY <1>3, <2>1, Unblank
<1>5. x \in Seq(RowSet)
  BY <1>2, <1>4
<1>6. QED BY <1>2, <1>5 DEF x

-----------------------------------------------------------------------------
(* Rows merged onto the preset *)

\* A row with a blank id gets a free one.
LEMMA NumberedRow ==
  ASSUME NEW acc \in Seq(RowSet), NEW c \in BlankRowSet, c.id # 0 \/ Len(acc) < MaxId
  PROVE  Numbered(acc, c) \in RowSet /\ (c.id # 0 => Numbered(acc, c) = c)
<1>1. CASE c.id # 0
  BY <1>1, Unblank DEF Numbered
<1>2. CASE c.id = 0
  <2> DEFINE i == NextFreeId(acc)
  <2>1. i \in 1..MaxId
    BY <1>2, RoomForOne, FreeId
  <2> HIDE DEF i
  <2>2. [c EXCEPT !.id = i] \in RowSet
    BY <2>1 DEF BlankRowSet, RowSet
  <2>3. QED BY <1>2, <2>2 DEF Numbered, i
<1>3. QED BY <1>1, <1>2

\* A row replaces the one with its id, or is put at the end.
LEMMA MergedRow ==
  ASSUME NEW acc \in Seq(RowSet), NEW c \in RowSet
  PROVE  /\ MergeRow(acc, c) \in Seq(RowSet) /\ Len(MergeRow(acc, c)) <= Len(acc) + 1
         /\ Distinct(acc) => /\ Distinct(MergeRow(acc, c))
                             /\ ToSet(MergeRow(acc, c)) = {x \in ToSet(acc) : x.id # c.id} \union {c}
<1> DEFINE y == MergeRow(acc, c)
<1>1. DOMAIN acc = 1..Len(acc) /\ Len(acc) \in Nat /\ \A k \in 1..Len(acc) : acc[k] \in RowSet
  OBVIOUS
<1>2. CASE c.id \in Ids(acc)
  <2> DEFINE hits == {k \in DOMAIN acc : acc[k].id = c.id}
             h == Min(hits)
  <2>1. hits # {} /\ hits \in SUBSET Nat
    BY <1>1, <1>2 DEF Ids
  <2>2. y = [acc EXCEPT ![h] = c]
    BY <1>2, <2>1 DEF MergeRow, ChangeFirst
  <2>3. h \in hits
    <3> HIDE DEF hits
    <3>1. QED BY <2>1, LeastIn
  <2>4. h \in 1..Len(acc) /\ acc[h].id = c.id
    BY <1>1, <2>3
  <2> HIDE DEF hits, h, y
  <2>5. y \in Seq(RowSet) /\ Len(y) = Len(acc) /\ DOMAIN y = 1..Len(acc)
    BY <1>1, <2>2, <2>4
  <2>6. y[h] = c /\ \A k \in 1..Len(acc) : k # h => y[k] = acc[k]
    BY <1>1, <2>2, <2>4
  <2>7. c.id # 0
    BY StoreAssumption DEF RowSet
  <2>8. ASSUME Distinct(acc) PROVE Distinct(y) /\ ToSet(y) = {x \in ToSet(acc) : x.id # c.id} \union {c}
    <3>1. \A k \in 1..Len(acc) : acc[k].id = c.id <=> k = h
      BY <1>1, <2>4, <2>7, <2>8 DEF Distinct
    <3>2. Distinct(y)
      BY <1>1, <2>4, <2>5, <2>6, <2>8, <3>1 DEF Distinct
    <3>3. ASSUME NEW x \in ToSet(y) PROVE x \in {z \in ToSet(acc) : z.id # c.id} \union {c}
      BY <1>1, <2>5, <2>6, <3>1, <3>3 DEF ToSet
    <3>4. ASSUME NEW x \in ToSet(acc), x.id # c.id PROVE x \in ToSet(y)
      BY <1>1, <2>4, <2>5, <2>6, <3>4 DEF ToSet
    <3>5. c \in ToSet(y)
      BY <2>4, <2>5, <2>6 DEF ToSet
    <3>6. QED BY <3>2, <3>3, <3>4, <3>5
  <2>9. QED BY <1>1, <2>5, <2>8 DEF y
<1>3. CASE c.id \notin Ids(acc)
  <2>1. y = Append(acc, c)
    BY <1>3 DEF MergeRow
  <2>2. \A k \in 1..Len(acc) : acc[k].id # c.id
    BY <1>1, <1>3 DEF Ids
  <2> HIDE DEF y
  <2>3. y \in Seq(RowSet) /\ ToSet(y) = ToSet(acc) \union {c} /\ Len(y) = Len(acc) + 1
    BY <2>1, AppendedSet
  <2>4. DOMAIN y = 1..Len(acc) + 1 /\ y[Len(acc) + 1] = c /\ \A k \in 1..Len(acc) : y[k] = acc[k]
    BY <1>1, <2>1
  <2>5. Distinct(acc) => Distinct(y)
    BY <1>1, <2>2, <2>4 DEF Distinct
  <2>6. \A x \in ToSet(acc) : x.id # c.id
    BY <1>1, <2>2 DEF ToSet
  <2>7. QED BY <1>1, <2>3, <2>5, <2>6 DEF y
<1>4. QED BY <1>2, <1>3

\* What is known of the merged list when k rows have been read.
Merged(base, rows, k) ==
  {x \in Seq(RowSet) :
     /\ Len(x) <= Len(base) + k
     /\ Distinct(base) /\ NoBlanks(rows) /\ Distinct(rows) =>
          /\ Distinct(x)
          /\ ToSet(x) = {b \in ToSet(base) : \A j \in 1..k : rows[j].id # b.id} \union {rows[j] : j \in 1..k}}

Merge(x, c) == MergeRow(x, Numbered(x, c))

\* Merging the next row.
LEMMA MergedOne ==
  ASSUME NEW base \in Seq(RowSet), NEW rows \in Seq(BlankRowSet),
         NoBlanks(rows) \/ Len(base) + Len(rows) <= MaxId,
         NEW k \in 1..Len(rows), NEW x \in Merged(base, rows, k - 1)
  PROVE  Merge(x, rows[k]) \in Merged(base, rows, k)
<1> DEFINE c == rows[k]
           e == Numbered(x, c)
           y == MergeRow(x, e)
<1>1. x \in Seq(RowSet) /\ Len(x) <= Len(base) + k - 1
  BY DEF Merged
<1>2. /\ c \in BlankRowSet /\ DOMAIN rows = 1..Len(rows)
      /\ Len(rows) \in Nat /\ Len(base) \in Nat /\ Len(x) \in Nat /\ MaxId \in Nat
  BY <1>1, StoreAssumption
<1>3. c.id # 0 \/ Len(x) < MaxId
  BY <1>1, <1>2 DEF NoBlanks
<1> HIDE DEF c
<1>4. e \in RowSet /\ (c.id # 0 => e = c)
  BY <1>1, <1>2, <1>3, NumberedRow
<1> HIDE DEF e
<1>5. /\ y \in Seq(RowSet) /\ Len(y) <= Len(x) + 1
      /\ Distinct(x) => Distinct(y) /\ ToSet(y) = {z \in ToSet(x) : z.id # e.id} \union {e}
  BY <1>1, <1>4, MergedRow
<1>6. Len(y) <= Len(base) + k
  BY <1>1, <1>2, <1>5
<1>7. ASSUME Distinct(base), NoBlanks(rows), Distinct(rows)
      PROVE  /\ Distinct(y)
             /\ ToSet(y) = {b \in ToSet(base) : \A j \in 1..k : rows[j].id # b.id} \union {rows[j] : j \in 1..k}
  <2>1. e = c
    BY <1>2, <1>4, <1>7 DEF NoBlanks, c
  <2>2. /\ Distinct(x)
        /\ ToSet(x) = {b \in ToSet(base) : \A j \in 1..k - 1 : rows[j].id # b.id}
                      \union {rows[j] : j \in 1..k - 1}
    BY <1>7 DEF Merged
  <2>3. \A j \in 1..k - 1 : rows[j].id # c.id
    BY <1>2, <1>7 DEF NoBlanks, Distinct, c
  <2>4. 1..k = 1..k - 1 \union {k} /\ rows[k] = c
    BY DEF c
  <2>5. ToSet(y) = {z \in ToSet(x) : z.id # c.id} \union {c}
    BY <1>5, <2>1, <2>2
  <2> HIDE DEF y
  <2>6. ASSUME NEW b \in ToSet(y)
        PROVE  b \in {z \in ToSet(base) : \A j \in 1..k : rows[j].id # z.id} \union {rows[j] : j \in 1..k}
    <3>1. CASE b = c
      BY <2>4, <3>1
    <3>2. CASE b # c
      BY <2>2, <2>4, <2>5, <2>6, <3>2
    <3>3. QED BY <3>1, <3>2
  <2>7. ASSUME NEW b \in ToSet(base), \A j \in 1..k : rows[j].id # b.id PROVE b \in ToSet(y)
    <3>1. b \in ToSet(x) /\ b.id # c.id
      BY <2>2, <2>4, <2>7
    <3>2. QED BY <2>5, <3>1
  <2>8. ASSUME NEW j \in 1..k PROVE rows[j] \in ToSet(y)
    <3>1. CASE j = k
      BY <2>4, <2>5, <3>1
    <3>2. CASE j # k
      <4>1. j \in 1..k - 1
        BY <3>2
      <4>2. QED BY <2>2, <2>3, <2>5, <4>1
    <3>3. QED BY <3>1, <3>2
  <2>9. Distinct(y)
    BY <1>5, <2>2 DEF y
  <2>10. QED BY <2>6, <2>7, <2>8, <2>9
<1> HIDE DEF y
<1>8. y \in Merged(base, rows, k)
  BY <1>5, <1>6, <1>7 DEF Merged
<1>9. QED BY <1>8 DEF y, e, c, Merge

\* What MergeRows computes.
MergeUpTo(f, base, rows) ==
  f = [n \in 0..Len(rows) |->
         IF n = 0 THEN base ELSE MergeRow(f[n - 1], Numbered(f[n - 1], rows[n]))]

\* Merging row after row merges the list.
LEMMA MergeRowsMerged ==
  ASSUME NEW base \in Seq(RowSet), NEW rows \in Seq(BlankRowSet),
         NoBlanks(rows) \/ Len(base) + Len(rows) <= MaxId
  PROVE  MergeRows(base, rows) \in Merged(base, rows, Len(rows))
<1> DEFINE n == Len(rows)
           S == [k \in 0..n |-> Merged(base, rows, k)]
           g == [k \in 1..n |-> [x \in Merged(base, rows, k - 1) |-> Merge(x, rows[k])]]
<1>1. n \in Nat
  OBVIOUS
<1>2. base \in Merged(base, rows, 0)
  <2>1. Len(base) <= Len(base) + 0
    OBVIOUS
  <2>2. {b \in ToSet(base) : \A j \in 1..0 : rows[j].id # b.id} = ToSet(base)
        /\ {rows[j] : j \in 1..0} = {}
    OBVIOUS
  <2>3. QED BY <2>1, <2>2 DEF Merged
<1>3. S[0] = Merged(base, rows, 0) /\ \A k \in 0..n : S[k] = Merged(base, rows, k)
  BY <1>1
<1>4. \A k \in 1..n : k - 1 \in 0..n /\ k \in 0..n
  BY <1>1
<1>5. \A k \in 1..n : \A x \in Merged(base, rows, k - 1) : g[k][x] = Merge(x, rows[k])
  OBVIOUS
<1>6. \A k \in 1..n : \A x \in Merged(base, rows, k - 1) : Merge(x, rows[k]) \in Merged(base, rows, k)
  BY MergedOne
<1> HIDE DEF S, g
<1>7. \A k \in 1..n : \A x \in S[k - 1] : g[k][x] \in S[k]
  BY <1>3, <1>4, <1>5, <1>6
<1>8. PICK f : f = [k \in 0..n |-> f[k]] /\ Goes(f, n, base, g) /\ \A k \in 0..n : f[k] \in S[k]
  <2> HIDE DEF n
  <2>1. QED BY <1>1, <1>2, <1>3, <1>7, Iterated
<1>9. \A k \in 1..n : f[k] = Merge(f[k - 1], rows[k])
  BY <1>3, <1>4, <1>5, <1>8 DEF Goes
<1>10. MergeUpTo(f, base, rows)
  <2>1. \A k \in 0..n : k = 0 \/ k \in 1..n
    BY <1>1
  <2>2. \A k \in 0..n : f[k] = IF k = 0 THEN base ELSE Merge(f[k - 1], rows[k])
    BY <1>8, <1>9, <2>1 DEF Goes
  <2>3. QED BY <1>8, <2>2 DEF MergeUpTo, Merge
<1> DEFINE c == CHOOSE h : h = [k \in 0..Len(rows) |->
                  IF k = 0 THEN base ELSE MergeRow(h[k - 1], Numbered(h[k - 1], rows[k]))]
<1>11. \E h : MergeUpTo(h, base, rows)
  BY <1>10
<1>12. MergeUpTo(c, base, rows)
  BY <1>11, Zenon DEF MergeUpTo
<1>13. MergeRows(base, rows) = c[n]
  BY DEF MergeRows
<1> HIDE DEF c
<1>14. c[0] = base /\ \A k \in 1..n : c[k] = Merge(c[k - 1], rows[k])
  <2>1. \A k \in 0..n : c[k] = IF k = 0 THEN base ELSE Merge(c[k - 1], rows[k])
    BY <1>12, Zenon DEF MergeUpTo, Merge
  <2>2. 0 \in 0..n /\ \A k \in 1..n : k \in 0..n /\ k # 0
    BY <1>1
  <2> HIDE DEF n
  <2>3. QED BY <2>1, <2>2
<1> DEFINE Good == {k \in 0..n : c[k] \in Merged(base, rows, k)}
<1>15. 0 \in Good
  BY <1>1, <1>2, <1>14
<1>16. \A k \in 1..n : k - 1 \in Good => k \in Good
  BY <1>4, <1>6, <1>14
<1>17. n \in Good
  <2> HIDE DEF Good, n
  <2>1. n \in 0..n
    BY <1>1
  <2>2. QED BY <1>1, <1>15, <1>16, <2>1, Reached
<1>18. QED BY <1>13, <1>17

-----------------------------------------------------------------------------
(* Own addresses *)

OwnSet == [list : Seq(Addrs), primary : Addrs \union {NoName}, used : Addrs \union {NoName}]
OwnOK(o) == o \in OwnSet /\ Injective(o.list)

\* Making an address the primary one.
LEMMA PrimarySet ==
  ASSUME NEW o, OwnOK(o), NEW a \in Addrs
  PROVE  OwnOK(SetPrimaryOf(o, a)) /\ SetPrimaryOf(o, a).list = o.list
<1> DEFINE p == [o EXCEPT !.primary = a, !.used = IF a \in ValidAddrs THEN a ELSE @]
<1>1. p \in OwnSet /\ p.list = o.list
  BY DEF OwnOK, OwnSet
<1>2. SetPrimaryOf(o, a) = p
  BY DEF SetPrimaryOf
<1>3. QED BY <1>1, <1>2 DEF OwnOK

\* Changing the list and the primary address.
LEMMA OwnChanged ==
  ASSUME NEW o \in OwnSet, NEW l \in Seq(Addrs), NEW p \in Addrs \union {NoName}
  PROVE  /\ [o EXCEPT !.list = l, !.primary = p] \in OwnSet
         /\ [o EXCEPT !.list = l, !.primary = p].list = l
BY DEF OwnSet

\* An address is added to the list once.
LEMMA OwnAdded ==
  ASSUME NEW o, OwnOK(o), NEW a \in Addrs
  PROVE  /\ OwnOK(AddOwn(o, a))
         /\ AddOwn(o, a).list = IF a \in ToSet(o.list) THEN o.list ELSE Append(o.list, a)
<1> DEFINE l == IF Contains(o.list, a) THEN o.list ELSE Append(o.list, a)
           added == [o EXCEPT !.list = IF Contains(@, a) THEN @ ELSE Append(@, a),
                              !.primary = IF @ = NoName THEN a ELSE @]
<1>1. o \in OwnSet /\ Injective(o.list) /\ o.list \in Seq(Addrs)
  BY DEF OwnOK, OwnSet
<1>2. Contains(o.list, a) <=> a \in ToSet(o.list)
  <2>1. DOMAIN o.list = 1..Len(o.list)
    BY <1>1
  <2>2. QED BY <2>1 DEF Contains, ToSet
<1>3. l \in Seq(Addrs) /\ Injective(l)
  BY <1>1, <1>2, AppendedSet, AppendedInjective
<1>4. added \in OwnSet /\ added.list = l
  <2> DEFINE p == IF o.primary = NoName THEN a ELSE o.primary
  <2>1. p \in Addrs \union {NoName}
    BY <1>1 DEF OwnSet
  <2>2. added = [o EXCEPT !.list = l, !.primary = p]
    OBVIOUS
  <2> HIDE DEF added, l, p
  <2>3. QED BY <1>1, <1>3, <2>1, <2>2, OwnChanged
<1> HIDE DEF l, added
<1>5. OwnOK(added)
  BY <1>3, <1>4 DEF OwnOK
<1>6. AddOwn(o, a) = IF added.primary = a THEN SetPrimaryOf(added, a) ELSE added
  BY DEF AddOwn, added
<1>7. OwnOK(AddOwn(o, a)) /\ AddOwn(o, a).list = l
  BY <1>4, <1>5, <1>6, PrimarySet
<1>8. QED BY <1>2, <1>7 DEF l

\* What is known when k lines of an imported list have been read.
Imported(list, k) == {x \in OwnSet : Injective(x.list) /\ (Injective(list) => x.list = SubSeq(list, 1, k))}

ImportLine(x, a) == SetPrimaryOf(AddOwn(x, a), a)

\* Importing the next line.
LEMMA ImportedOne ==
  ASSUME NEW list \in Seq(Addrs), NEW k \in 1..Len(list), NEW x \in Imported(list, k - 1)
  PROVE  ImportLine(x, list[k]) \in Imported(list, k)
<1> DEFINE a == list[k]
           y == AddOwn(x, a)
           z == SetPrimaryOf(y, a)
<1>1. a \in Addrs /\ OwnOK(x)
  BY DEF OwnOK, Imported
<1> HIDE DEF a
<1>2. OwnOK(y) /\ y.list = IF a \in ToSet(x.list) THEN x.list ELSE Append(x.list, a)
  BY <1>1, OwnAdded
<1> HIDE DEF y
<1>3. OwnOK(z) /\ z.list = y.list
  BY <1>1, <1>2, PrimarySet
<1> HIDE DEF z
<1>4. ASSUME Injective(list) PROVE z.list = SubSeq(list, 1, k)
  <2>1. x.list = SubSeq(list, 1, k - 1)
    BY <1>4 DEF Imported
  <2>2. /\ DOMAIN list = 1..Len(list) /\ Len(x.list) = k - 1
        /\ \A i \in 1..k - 1 : x.list[i] = list[i]
    BY <2>1
  <2>3. a \notin ToSet(x.list)
    <3>1. DOMAIN x.list = 1..k - 1
      BY <2>1
    <3>2. \A i \in 1..k - 1 : list[i] # list[k]
      BY <1>4, <2>2 DEF Injective
    <3>3. QED BY <2>2, <3>1, <3>2 DEF ToSet, a
  <2>4. z.list = Append(SubSeq(list, 1, k - 1), list[k])
    BY <1>2, <1>3, <2>1, <2>3 DEF a
  <2>5. QED BY <2>4
<1>5. QED BY <1>3, <1>4 DEF OwnOK, Imported, ImportLine, z, y, a

\* What ImportOwn computes.
ImportStart(o) == [o EXCEPT !.list = <<>>, !.primary = NoName]
ImportUpTo(f, o, list) ==
  f = [n \in 0..Len(list) |->
         IF n = 0 THEN [o EXCEPT !.list = <<>>, !.primary = NoName]
         ELSE SetPrimaryOf(AddOwn(f[n - 1], list[n]), list[n])]

\* Importing line after line imports the list.
LEMMA OwnImported ==
  ASSUME NEW o, OwnOK(o), NEW list \in Seq(Addrs), list # <<>>
  PROVE  ImportOwn(o, list) \in Imported(list, Len(list))
<1> DEFINE n == Len(list)
           a == ImportStart(o)
           S == [k \in 0..n |-> Imported(list, k)]
           g == [k \in 1..n |-> [x \in Imported(list, k - 1) |-> ImportLine(x, list[k])]]
<1>1. n \in Nat
  OBVIOUS
<1>2. a \in Imported(list, 0)
  <2>1. a \in OwnSet /\ a.list = <<>>
    <3>1. o \in OwnSet /\ <<>> \in Seq(Addrs)
      BY DEF OwnOK
    <3>2. QED BY <3>1, OwnChanged DEF ImportStart
  <2>2. SubSeq(list, 1, 0) = <<>> /\ Injective(<<>>)
    BY DEF Injective
  <2>3. QED BY <2>1, <2>2 DEF Imported
<1> HIDE DEF a
<1>3. S[0] = Imported(list, 0) /\ \A k \in 0..n : S[k] = Imported(list, k)
  BY <1>1
<1>4. \A k \in 1..n : k - 1 \in 0..n /\ k \in 0..n
  BY <1>1
<1>5. \A k \in 1..n : \A x \in Imported(list, k - 1) : g[k][x] = ImportLine(x, list[k])
  OBVIOUS
<1>6. \A k \in 1..n : \A x \in Imported(list, k - 1) : ImportLine(x, list[k]) \in Imported(list, k)
  BY ImportedOne
<1> HIDE DEF S, g
<1>7. \A k \in 1..n : \A x \in S[k - 1] : g[k][x] \in S[k]
  BY <1>3, <1>4, <1>5, <1>6
<1>8. PICK f : f = [k \in 0..n |-> f[k]] /\ Goes(f, n, a, g) /\ \A k \in 0..n : f[k] \in S[k]
  <2> HIDE DEF n
  <2>1. QED BY <1>1, <1>2, <1>3, <1>7, Iterated
<1>9. \A k \in 1..n : f[k] = ImportLine(f[k - 1], list[k])
  BY <1>3, <1>4, <1>5, <1>8 DEF Goes
<1>10. ImportUpTo(f, o, list)
  <2>1. \A k \in 0..n : k = 0 \/ k \in 1..n
    BY <1>1
  <2>2. \A k \in 0..n : f[k] = IF k = 0 THEN a ELSE ImportLine(f[k - 1], list[k])
    BY <1>8, <1>9, <2>1 DEF Goes
  <2>3. QED BY <1>8, <2>2 DEF ImportUpTo, ImportLine, ImportStart, a
<1> DEFINE c == CHOOSE h : h = [k \in 0..Len(list) |->
                  IF k = 0 THEN [o EXCEPT !.list = <<>>, !.primary = NoName]
                  ELSE SetPrimaryOf(AddOwn(h[k - 1], list[k]), list[k])]
<1>11. \E h : ImportUpTo(h, o, list)
  BY <1>10
<1>12. ImportUpTo(c, o, list)
  BY <1>11, Zenon DEF ImportUpTo
<1>13. ImportOwn(o, list) = c[n]
  BY DEF ImportOwn
<1> HIDE DEF c
<1>14. c[0] = a /\ \A k \in 1..n : c[k] = ImportLine(c[k - 1], list[k])
  <2>1. \A k \in 0..n : c[k] = IF k = 0 THEN a ELSE ImportLine(c[k - 1], list[k])
    BY <1>12, Zenon DEF ImportUpTo, ImportLine, ImportStart, a
  <2>2. 0 \in 0..n /\ \A k \in 1..n : k \in 0..n /\ k # 0
    BY <1>1
  <2> HIDE DEF n
  <2>3. QED BY <2>1, <2>2
<1> DEFINE Good == {k \in 0..n : c[k] \in Imported(list, k)}
<1>15. 0 \in Good
  BY <1>1, <1>2, <1>14
<1>16. \A k \in 1..n : k - 1 \in Good => k \in Good
  BY <1>4, <1>6, <1>14
<1>17. n \in Good
  <2> HIDE DEF Good, n
  <2>1. n \in 0..n
    BY <1>1
  <2>2. QED BY <1>1, <1>15, <1>16, <2>1, Reached
<1>18. QED BY <1>13, <1>17

\* Imported addresses are the station's; those of a list without repetition, read by
\* a program that has just started, are that list.
LEMMA ImportOK ==
  ASSUME NEW o, OwnOK(o), NEW list \in Seq(Addrs)
  PROVE  /\ OwnOK(ImportOwn(o, list))
         /\ Injective(list) /\ o.list = <<>> => ImportOwn(o, list).list = list
<1>1. CASE list = <<>>
  BY <1>1 DEF ImportOwn
<1>2. CASE list # <<>>
  <2>1. ImportOwn(o, list) \in Imported(list, Len(list))
    BY <1>2, OwnImported
  <2>2. SubSeq(list, 1, Len(list)) = list
    OBVIOUS
  <2>3. QED BY <2>1, <2>2 DEF Imported, OwnOK
<1>3. QED BY <1>1, <1>2

\* A station without addresses.
LEMMA NoOwnOK == OwnOK(NoOwn) /\ NoOwn.list = <<>>
BY DEF OwnOK, OwnSet, NoOwn, Injective

-----------------------------------------------------------------------------
(* What is in memory and in the files *)

SettingsSet == [exchange : BOOLEAN, other : Nat]
ScopeSet    == [scan : NetNames \union {NoName}, sound : NetNames \union {NoName},
                contact : Calls \union {NoName}]

BodyOK(chs, ns, cs, r) ==
  /\ chs \in Seq(ChannelSet) /\ ns \in Seq(NetSet) /\ cs \in Seq(ContactSet)
  /\ r \in SUBSET (Calls \union {NoName})
\* The rows of the preset are those of its file.
OverlayOK(ov) ==
  /\ ov \in [file : DOMAIN Presets \union {NoName}, base : Seq(RowSet)]
  /\ ov.base = IF ov.file = NoName THEN <<>> ELSE FillIds(Presets[ov.file].channels)
DiskOK(d) == d \in DiskSet /\ Fits(d)

StoreTypeOK ==
  /\ BodyOK(channels, nets, contacts, roster)
  /\ OwnOK(own) /\ settings \in SettingsSet /\ OverlayOK(overlay) /\ scoped \in ScopeSet
  /\ DiskOK(disk) /\ export \in ConfigSet \union {[file |-> NoName]} /\ dirty \in BOOLEAN

\* What was last saved is what is in memory, unless that is what was last loaded.
Synced ==
  LET m == LoadState(disk, TRUE) IN
  ~dirty =>
    \/ disk = StateFile(channels, nets, contacts, roster, own, settings, overlay)
    \/ /\ channels = m.channels /\ nets = m.nets /\ contacts = m.contacts /\ roster = m.roster
       /\ own = m.own /\ settings = m.settings

StoreInv == StoreTypeOK /\ Synced

\* A row is a channel, and blank ones are among those that may be blank.
LEMMA RowsAreChannels ==
  /\ RowSet \subseteq ChannelSet /\ RowSet \subseteq BlankRowSet
  /\ \A s \in Seq(RowSet) : s \in Seq(ChannelSet) /\ s \in Seq(BlankRowSet) /\ NoBlanks(s)
<1>1. MaxId \in Nat
  BY StoreAssumption
<1>2. \A e \in RowSet : e \in ChannelSet /\ e \in BlankRowSet /\ e.id # 0
  BY <1>1 DEF RowSet, ChannelSet, BlankRowSet
<1>3. ASSUME NEW s \in Seq(RowSet)
      PROVE  s \in Seq(ChannelSet) /\ s \in Seq(BlankRowSet) /\ NoBlanks(s)
  <2>1. \A k \in 1..Len(s) : s[k] \in RowSet
    OBVIOUS
  <2>2. \A k \in 1..Len(s) : s[k] \in ChannelSet /\ s[k] \in BlankRowSet /\ s[k].id # 0
    BY <1>2, <2>1
  <2>3. s \in Seq(ChannelSet) /\ s \in Seq(BlankRowSet)
    BY <2>2
  <2>4. QED BY <2>2, <2>3 DEF NoBlanks
<1>4. QED BY <1>2, <1>3

\* The row of a channel.
LEMMA RowOf ==
  ASSUME NEW c \in ChannelSet
  PROVE  Row(c) \in RowSet /\ Row(c).id = c.id /\ (c \in RowSet => Row(c) = c)
<1>1. Row(c) \in RowSet /\ Row(c).id = c.id
  BY DEF Row, ChannelSet, RowSet
<1>2. ASSUME c \in RowSet PROVE Row(c) = c
  <2>1. c.use = 0 /\ c = [id |-> c.id, rx |-> c.rx, opt |-> c.opt, use |-> c.use]
    BY <1>2 DEF RowSet
  <2>2. [c EXCEPT !.use = 0] = c
    BY <2>1
  <2>3. QED BY <2>2 DEF Row
<1>3. QED BY <1>1, <1>2

\* The rows of a list.
LEMMA RowsOf ==
  ASSUME NEW chs \in Seq(ChannelSet)
  PROVE  /\ Rows(chs) \in Seq(RowSet) /\ Len(Rows(chs)) = Len(chs)
         /\ \A k \in 1..Len(chs) : Rows(chs)[k] = Row(chs[k]) /\ Rows(chs)[k].id = chs[k].id
         /\ chs \in Seq(RowSet) => Rows(chs) = chs
<1>1. DOMAIN chs = 1..Len(chs) /\ Len(chs) \in Nat /\ \A k \in 1..Len(chs) : chs[k] \in ChannelSet
  OBVIOUS
<1>2. Rows(chs) = [k \in 1..Len(chs) |-> Row(chs[k])]
  BY <1>1 DEF Rows
<1>3. \A k \in 1..Len(chs) : Row(chs[k]) \in RowSet /\ Row(chs[k]).id = chs[k].id
  BY <1>1, RowOf
<1>4. Rows(chs) \in Seq(RowSet) /\ Len(Rows(chs)) = Len(chs)
  BY <1>1, <1>2, <1>3
<1>5. ASSUME chs \in Seq(RowSet) PROVE Rows(chs) = chs
  <2>1. \A k \in 1..Len(chs) : Row(chs[k]) = chs[k]
    BY <1>1, <1>5, RowOf
  <2>2. chs = [k \in 1..Len(chs) |-> chs[k]]
    BY <1>1
  <2>3. QED BY <1>2, <2>1, <2>2
<1>6. QED BY <1>2, <1>3, <1>4, <1>5

\* The ids of a list.
LEMMA IdsAreIds ==
  ASSUME NEW chs \in Seq(ChannelSet)
  PROVE  Ids(chs) \subseteq 1..MaxId
<1>1. DOMAIN chs = 1..Len(chs) /\ \A k \in 1..Len(chs) : chs[k] \in ChannelSet
  OBVIOUS
<1>2. \A e \in ChannelSet : e.id \in 1..MaxId
  BY DEF ChannelSet
<1>3. QED BY <1>1, <1>2 DEF Ids

\* What is saved can be read again.
LEMMA SavedOK ==
  ASSUME NEW chs, NEW ns, NEW cs, NEW r, BodyOK(chs, ns, cs, r), NEW o, OwnOK(o),
         NEW s \in SettingsSet, NEW ov, OverlayOK(ov)
  PROVE  /\ DiskOK(StateFile(chs, ns, cs, r, o, s, ov))
         /\ SettingsBody(o, s, ov, chs, cs) \in ConfigSet
<1> DEFINE b == SettingsBody(o, s, ov, chs, cs)
           rows == IF ov.file = NoName THEN Rows(chs) ELSE OverlayRows(chs, ov.base)
           d == StateFile(chs, ns, cs, r, o, s, ov)
<1>1. /\ ov.file \in DOMAIN Presets \union {NoName} /\ ov.base \in Seq(RowSet)
      /\ chs \in Seq(ChannelSet) /\ ns \in Seq(NetSet) /\ cs \in Seq(ContactSet)
      /\ r \in SUBSET (Calls \union {NoName})
      /\ o.list \in Seq(Addrs) /\ s.exchange \in BOOLEAN /\ s.other \in Nat
  BY DEF OverlayOK, BodyOK, OwnOK, OwnSet, SettingsSet
<1>2. [k \in DOMAIN cs |-> cs[k].call] \in Seq(Calls)
  <2>1. DOMAIN cs = 1..Len(cs) /\ Len(cs) \in Nat /\ \A k \in 1..Len(cs) : cs[k] \in ContactSet
    BY <1>1
  <2>2. \A e \in ContactSet : e.call \in Calls
    BY DEF ContactSet
  <2>3. QED BY <2>1, <2>2
<1>3. DeletedIds(chs, ov.base) \in SUBSET (1..MaxId)
  BY <1>1, RowsAreChannels, IdsAreIds DEF DeletedIds
<1>4. b \in ConfigSet
  BY <1>1, <1>2, <1>3 DEF SettingsBody, ConfigSet
<1>5. rows \in Seq(RowSet)
  <2>1. Rows(chs) \in Seq(RowSet)
    BY <1>1, RowsOf
  <2>2. OverlayRows(chs, ov.base) \in Seq(RowSet)
    BY <2>1, KeepFacts DEF OverlayRows
  <2>3. QED BY <2>1, <2>2
<1>6. rows \in Seq(BlankRowSet) /\ NoBlanks(rows)
  BY <1>5, RowsAreChannels
<1>7. d = [channels |-> rows, nets |-> ns, contacts |-> cs, roster |-> r, settings |-> b]
  BY DEF StateFile
<1> HIDE DEF b, rows, d
<1>8. d \in DiskSet /\ d.channels = rows
  BY <1>1, <1>4, <1>6, <1>7 DEF DiskSet
<1>9. QED BY <1>4, <1>6, <1>8 DEF DiskOK, Fits, d, b

\* The rows of a preset.
LEMMA PresetRowsOK ==
  ASSUME NEW f \in DOMAIN Presets
  PROVE  /\ FillIds(Presets[f].channels) \in Seq(RowSet)
         /\ Len(FillIds(Presets[f].channels)) = Len(Presets[f].channels)
         /\ Distinct(Presets[f].channels) => Distinct(FillIds(Presets[f].channels))
         /\ Presets[f].nets \in Seq(NetSet) /\ Presets[f].contacts \in Seq(ContactSet)
BY FilesAssumption, FilledRows

\* Keeping some of a list does not make it longer.
LEMMA KeepIsShorter ==
  ASSUME NEW T, NEW s \in Seq(T), NEW S
  PROVE  Len(Keep(s, S)) <= Len(s)
<1>1. PICK f : KeepUpTo(f, s, S) /\ Keep(s, S) = f[Len(s)]
  BY KeepIs
<1> DEFINE Good == {k \in 0..Len(s) : f[k] \in Seq(T) /\ Len(f[k]) <= k}
<1>2. Len(s) \in Nat /\ DOMAIN s = 1..Len(s) /\ \A k \in 1..Len(s) : s[k] \in T
  OBVIOUS
<1>3. f[0] = <<>> /\ \A k \in 1..Len(s) : f[k] = IF s[k] \in S THEN Append(f[k - 1], s[k]) ELSE f[k - 1]
  <2>1. \A k \in 0..Len(s) : f[k] = IF k = 0 THEN <<>> ELSE IF s[k] \in S THEN Append(f[k - 1], s[k]) ELSE f[k - 1]
    BY <1>1, Zenon DEF KeepUpTo
  <2>2. 0 \in 0..Len(s) /\ \A k \in 1..Len(s) : k \in 0..Len(s) /\ k # 0
    BY <1>2
  <2>3. QED BY <2>1, <2>2
<1>4. 0 \in Good
  <2>1. <<>> \in Seq(T) /\ Len(<<>>) = 0 /\ 0 \in 0..Len(s)
    BY <1>2
  <2>2. f[0] \in Seq(T) /\ Len(f[0]) <= 0
    BY <1>3, <2>1
  <2>3. QED BY <2>1, <2>2
<1>5. ASSUME NEW k \in 1..Len(s), k - 1 \in Good PROVE k \in Good
  <2>1. f[k - 1] \in Seq(T) /\ Len(f[k - 1]) <= k - 1 /\ k \in 0..Len(s) /\ s[k] \in T
    BY <1>2, <1>5
  <2>2. CASE s[k] \in S
    <3>1. f[k] = Append(f[k - 1], s[k])
      BY <1>3, <2>2
    <3>2. f[k] \in Seq(T) /\ Len(f[k]) <= k
      BY <2>1, <3>1
    <3>3. QED BY <2>1, <3>2
  <2>3. CASE s[k] \notin S
    <3>1. f[k] = f[k - 1]
      BY <1>3, <2>3
    <3>2. QED BY <2>1, <3>1
  <2>4. QED BY <2>2, <2>3
<1>6. Len(s) \in Good
  <2> HIDE DEF Good
  <2>1. Len(s) \in 0..Len(s) /\ \A k \in 1..Len(s) : k - 1 \in Good => k \in Good
    BY <1>2, <1>5
  <2>2. QED BY <1>2, <1>4, <2>1, Reached
<1>7. QED BY <1>1, <1>6

\* The preset's rows without the deleted ones, and the file's merged onto them.
Kept(f, deleted) ==
  Keep(FillIds(Presets[f].channels), {c \in ToSet(FillIds(Presets[f].channels)) : c.id \notin deleted})
PresetOf(d, there) == IF there THEN d.settings.file ELSE NoName
LoadedChannels(d, f) ==
  IF f = NoName THEN FillIds(d.channels) ELSE MergeRows(Kept(f, d.settings.deleted), d.channels)

\* What is loaded, part by part.
LEMMA LoadedParts ==
  ASSUME NEW d, NEW there \in BOOLEAN
  PROVE  LET m == LoadState(d, there)
             f == PresetOf(d, there) IN
         /\ m.channels = LoadedChannels(d, f)
         /\ m.nets = d.nets /\ m.contacts = d.contacts /\ m.roster = d.roster
         /\ m.own = ImportOwn(NoOwn, d.settings.list)
         /\ m.settings = ApplySettings(DefaultSettings, d.settings)
         /\ m.overlay = IF f = NoName THEN [file |-> NoName, base |-> <<>>]
                        ELSE [file |-> f, base |-> FillIds(Presets[f].channels)]
         /\ m.scoped = [scan |-> IF d.nets = <<>> THEN NoName ELSE d.nets[1].name,
                        sound |-> NoName, contact |-> NoName]
BY DEF LoadState, StationBody, LoadedChannels, Kept, PresetOf

\* A channel list that is loaded has its ids.
LEMMA LoadedRows ==
  ASSUME NEW d, DiskOK(d), NEW f \in {NoName, d.settings.file}
  PROVE  LoadedChannels(d, f) \in Seq(RowSet)
<1>1. /\ d.channels \in Seq(BlankRowSet) /\ d.settings.file \in DOMAIN Presets \union {NoName}
      /\ Len(d.channels) \in Nat /\ MaxId \in Nat /\ Fits(d)
  BY StoreAssumption DEF DiskOK, DiskSet, ConfigSet
<1>2. d.settings.file # NoName => Len(Presets[d.settings.file].channels) \in Nat
  <2>1. d.settings.file # NoName => Presets[d.settings.file].channels \in Seq(BlankRowSet)
    BY <1>1, FilesAssumption
  <2>2. QED BY <2>1
<1> DEFINE p == Len(Presets[d.settings.file].channels)
           l == Len(d.channels)
<1>6. /\ l \in Nat /\ MaxId \in Nat /\ (d.settings.file # NoName => p \in Nat)
      /\ \/ NoBlanks(d.channels)
         \/ d.settings.file = NoName /\ l <= MaxId
         \/ d.settings.file # NoName /\ p + l <= MaxId
  BY <1>1, <1>2 DEF Fits
<1> HIDE DEF p, l
<1>3. CASE f = NoName
  <2>1. NoBlanks(d.channels) \/ l <= MaxId
    BY <1>6
  <2> USE DEF l
  <2>2. QED BY <1>1, <1>3, <2>1, FilledRows DEF LoadedChannels
<1>4. CASE f # NoName
  <2> DEFINE base == FillIds(Presets[f].channels)
             kept == Kept(f, d.settings.deleted)
  <2>1. f = d.settings.file /\ f \in DOMAIN Presets
    BY <1>1, <1>4
  <2>2. base \in Seq(RowSet) /\ Len(base) = Len(Presets[f].channels)
    BY <2>1, PresetRowsOK
  <2>3. kept \in Seq(RowSet) /\ Len(kept) <= Len(base)
    <3> HIDE DEF base
    <3>1. QED BY <2>2, KeepFacts, KeepIsShorter DEF Kept, base
  <2> HIDE DEF base, kept
  <2>4. NoBlanks(d.channels) \/ Len(kept) + Len(d.channels) <= MaxId
    <3> DEFINE q == Len(kept)
    <3>1. q \in Nat /\ q <= p
      BY <2>1, <2>2, <2>3 DEF p
    <3> HIDE DEF q
    <3>2. NoBlanks(d.channels) \/ q + l <= MaxId
      BY <1>4, <1>6, <2>1, <3>1
    <3>3. QED BY <3>2 DEF q, l
  <2>5. MergeRows(kept, d.channels) \in Seq(RowSet)
    BY <1>1, <2>3, <2>4, MergeRowsMerged DEF Merged
  <2>6. QED BY <1>4, <2>5 DEF LoadedChannels, kept
<1>5. QED BY <1>3, <1>4

\* What is loaded is of the types of the memory.
LEMMA LoadedOK ==
  ASSUME NEW d, DiskOK(d), NEW there \in BOOLEAN
  PROVE  LET m == LoadState(d, there) IN
         /\ BodyOK(m.channels, m.nets, m.contacts, m.roster) /\ m.channels \in Seq(RowSet)
         /\ OwnOK(m.own) /\ m.settings \in SettingsSet /\ m.settings.other = d.settings.other
         /\ OverlayOK(m.overlay) /\ m.overlay.file = PresetOf(d, there)
         /\ m.scoped \in ScopeSet
<1> DEFINE m == LoadState(d, there)
           f == PresetOf(d, there)
<1>1. /\ m.channels = LoadedChannels(d, f)
      /\ m.nets = d.nets /\ m.contacts = d.contacts /\ m.roster = d.roster
      /\ m.own = ImportOwn(NoOwn, d.settings.list)
      /\ m.settings = ApplySettings(DefaultSettings, d.settings)
      /\ m.overlay = IF f = NoName THEN [file |-> NoName, base |-> <<>>]
                     ELSE [file |-> f, base |-> FillIds(Presets[f].channels)]
      /\ m.scoped = [scan |-> IF d.nets = <<>> THEN NoName ELSE d.nets[1].name,
                     sound |-> NoName, contact |-> NoName]
  BY LoadedParts
<1> HIDE DEF m
<1>2. /\ d.nets \in Seq(NetSet) /\ d.contacts \in Seq(ContactSet)
      /\ d.roster \in SUBSET (Calls \union {NoName}) /\ d.settings.list \in Seq(Addrs)
      /\ d.settings.file \in DOMAIN Presets \union {NoName} /\ d.settings.other \in Nat
  BY DEF DiskOK, DiskSet, ConfigSet
<1>3. f \in {NoName, d.settings.file} /\ (f # NoName => f \in DOMAIN Presets)
  BY <1>2 DEF PresetOf
<1> HIDE DEF f
<1>4. m.channels \in Seq(RowSet) /\ m.channels \in Seq(ChannelSet)
  BY <1>1, <1>3, LoadedRows, RowsAreChannels
<1>5. OwnOK(m.own)
  BY <1>1, <1>2, NoOwnOK, ImportOK
<1>6. m.settings \in SettingsSet /\ m.settings.other = d.settings.other
  BY <1>1, <1>2 DEF ApplySettings, DefaultSettings, SettingsSet
<1>7. OverlayOK(m.overlay) /\ m.overlay.file = f
  <2>1. CASE f = NoName
    <3>1. m.overlay.file = NoName /\ m.overlay.base = <<>> /\ <<>> \in Seq(RowSet)
      BY <1>1, <2>1
    <3>2. QED BY <1>1, <2>1, <3>1 DEF OverlayOK
  <2>2. CASE f # NoName
    <3>1. m.overlay = [file |-> f, base |-> FillIds(Presets[f].channels)] /\ f \in DOMAIN Presets
      BY <1>1, <1>3, <2>2
    <3>2. FillIds(Presets[f].channels) \in Seq(RowSet)
      BY <3>1, PresetRowsOK
    <3>3. m.overlay.file = f /\ m.overlay.base = FillIds(Presets[f].channels)
      BY <3>1
    <3>4. QED BY <2>2, <3>1, <3>2, <3>3 DEF OverlayOK
  <2>3. QED BY <2>1, <2>2
<1>8. m.scoped \in ScopeSet
  <2>1. d.nets # <<>> => d.nets[1] \in NetSet
    BY <1>2
  <2>2. d.nets # <<>> => d.nets[1].name \in NetNames
    BY <2>1 DEF NetSet
  <2>3. QED BY <1>1, <2>2 DEF ScopeSet
<1>9. QED BY <1>1, <1>2, <1>4, <1>5, <1>6, <1>7, <1>8 DEF BodyOK, m, f

\* Without a preset it makes no difference whether one is there.
LEMMA LoadedWithout ==
  ASSUME NEW d, d.settings.file = NoName
  PROVE  LoadState(d, FALSE) = LoadState(d, TRUE)
BY DEF LoadState

-----------------------------------------------------------------------------
(* What is saved and loaded again *)

\* Keeping some of a list leaves the ids apart.
LEMMA KeepDistinct ==
  ASSUME NEW s \in Seq(RowSet), Distinct(s), NEW S
  PROVE  Distinct(Keep(s, S))
<1> DEFINE t == Keep(s, S)
<1>1. DOMAIN s = 1..Len(s) /\ \A k \in 1..Len(s) : s[k].id # 0
  <2>1. NoBlanks(s)
    BY RowsAreChannels
  <2>2. DOMAIN s = 1..Len(s)
    OBVIOUS
  <2>3. QED BY <2>1, <2>2 DEF NoBlanks
<1>2. Injective(s)
  BY <1>1 DEF Injective, Distinct
<1>3. Injective(t) /\ ToSet(t) = ToSet(s) \cap S
  BY <1>2, KeepFacts
<1> HIDE DEF t
<1>4. \A x, y \in ToSet(s) : x.id = y.id => x = y
  BY <1>1 DEF Distinct, ToSet
<1>5. \A i \in DOMAIN t : t[i] \in ToSet(s)
  BY <1>3 DEF ToSet
<1>6. \A i, j \in DOMAIN t : t[i].id = t[j].id => i = j
  BY <1>3, <1>4, <1>5 DEF Injective
<1>7. Distinct(t)
  BY <1>6 DEF Distinct
<1>8. QED BY <1>7 DEF t

\* The preset's row with an id, or a blank one.
LEMMA FirstOf ==
  ASSUME NEW base \in Seq(RowSet), Distinct(base), NEW i \in 1..MaxId
  PROVE  /\ FirstBase(base, i).id = 0 \/ FirstBase(base, i) \in ToSet(base)
         /\ \A b \in ToSet(base) : b.id = i => FirstBase(base, i) = b
<1> DEFINE hits == {k \in DOMAIN base : base[k].id = i}
<1>1. DOMAIN base = 1..Len(base) /\ i # 0
  OBVIOUS
<1>2. hits = {} => FirstBase(base, i).id = 0
  BY DEF FirstBase, Channel
<1>3. hits # {} => Min(hits) \in hits /\ FirstBase(base, i) = base[Min(hits)]
  <2>1. hits \in SUBSET Nat
    BY <1>1
  <2>2. hits # {} => FirstBase(base, i) = base[Min(hits)]
    BY DEF FirstBase
  <2> HIDE DEF hits
  <2>3. QED BY <2>1, <2>2, LeastIn
<1>4. ASSUME NEW b \in ToSet(base), b.id = i PROVE FirstBase(base, i) = b
  <2>1. PICK k \in DOMAIN base : b = base[k]
    BY DEF ToSet
  <2>2. hits = {k}
    BY <1>1, <1>4, <2>1 DEF Distinct
  <2> HIDE DEF hits
  <2>3. QED BY <1>3, <2>1, <2>2
<1>5. hits # {} => FirstBase(base, i) \in ToSet(base)
  BY <1>3 DEF ToSet
<1>6. QED BY <1>2, <1>4, <1>5

\* The rows that differ from the preset's, merged onto what is left of the preset, are
\* the rows that were saved.
LEMMA MergedBack ==
  ASSUME NEW R \in Seq(RowSet), Distinct(R), NEW base \in Seq(RowSet), Distinct(base),
         NEW rows, rows = Keep(R, {c \in ToSet(R) : c # FirstBase(base, c.id)}),
         NEW kept, kept = Keep(base, {c \in ToSet(base) : c.id \notin Ids(base) \ Ids(R)})
  PROVE  ToSet(MergeRows(kept, rows)) = ToSet(R)
<1>1. rows \in Seq(RowSet) /\ ToSet(rows) = {c \in ToSet(R) : c # FirstBase(base, c.id)} /\ Distinct(rows)
  BY KeepFacts, KeepDistinct
<1>2. kept \in Seq(RowSet) /\ Distinct(kept)
  BY KeepFacts, KeepDistinct
<1>3. ToSet(kept) = {b \in ToSet(base) : b.id \in Ids(R)}
  <2>1. ToSet(kept) = {b \in ToSet(base) : b.id \notin Ids(base) \ Ids(R)}
    BY KeepFacts
  <2>2. \A b \in ToSet(base) : b.id \in Ids(base)
    BY DEF ToSet, Ids
  <2>3. QED BY <2>1, <2>2
<1>4. rows \in Seq(BlankRowSet) /\ NoBlanks(rows)
  BY <1>1, RowsAreChannels
<1> DEFINE M == MergeRows(kept, rows)
<1>5. ToSet(M) = {b \in ToSet(kept) : \A j \in 1..Len(rows) : rows[j].id # b.id}
                 \union {rows[j] : j \in 1..Len(rows)}
  BY <1>1, <1>2, <1>4, MergeRowsMerged DEF Merged
<1> HIDE DEF M
<1>6. ToSet(rows) = {rows[j] : j \in 1..Len(rows)}
  <2>1. DOMAIN rows = 1..Len(rows)
    BY <1>1
  <2>2. QED BY <2>1 DEF ToSet
<1>7. ToSet(M) = {b \in ToSet(kept) : \A c \in ToSet(rows) : c.id # b.id} \union ToSet(rows)
  <2> DEFINE t == ToSet(rows)
             u == ToSet(kept)
             n == Len(rows)
  <2>1. t = {rows[j] : j \in 1..n}
    BY <1>6
  <2>2. ToSet(M) = {b \in u : \A j \in 1..n : rows[j].id # b.id} \union {rows[j] : j \in 1..n}
    BY <1>5
  <2> HIDE DEF t, u, n
  <2>3. \A b : (\A j \in 1..n : rows[j].id # b.id) <=> (\A c \in t : c.id # b.id)
    BY <2>1
  <2>4. ToSet(M) = {b \in u : \A c \in t : c.id # b.id} \union t
    BY <2>1, <2>2, <2>3
  <2>5. QED BY <2>4 DEF t, u
<1>8. \A c \in ToSet(R) : c.id \in 1..MaxId /\ c.id \in Ids(R)
  <2>1. DOMAIN R = 1..Len(R) /\ \A k \in 1..Len(R) : R[k] \in RowSet
    OBVIOUS
  <2>2. \A c \in RowSet : c.id \in 1..MaxId
    BY DEF RowSet
  <2>3. QED BY <2>1, <2>2 DEF ToSet, Ids
<1>9. \A x, y \in ToSet(R) : x.id = y.id => x = y
  <2>1. \A x \in ToSet(R) : x.id # 0
    BY <1>8
  <2>2. QED BY <2>1 DEF Distinct, ToSet
<1>10. \A i \in Ids(R) : \E c \in ToSet(R) : c.id = i
  BY DEF Ids, ToSet
<1>11. ASSUME NEW b \in ToSet(M) PROVE b \in ToSet(R)
  <2>1. CASE b \in ToSet(rows)
    BY <1>1, <2>1
  <2>2. CASE b \in ToSet(kept) /\ \A c \in ToSet(rows) : c.id # b.id
    <3>1. PICK c \in ToSet(R) : c.id = b.id
      BY <1>3, <1>10, <2>2
    <3>2. c = FirstBase(base, c.id)
      BY <1>1, <2>2, <3>1
    <3>3. FirstBase(base, c.id) = b
      BY <1>3, <1>8, <2>2, <3>1, FirstOf
    <3>4. QED BY <3>1, <3>2, <3>3
  <2>3. QED BY <1>7, <1>11, <2>1, <2>2
<1>12. ASSUME NEW c \in ToSet(R) PROVE c \in ToSet(M)
  <2>1. CASE c # FirstBase(base, c.id)
    BY <1>1, <1>7, <2>1
  <2>2. CASE c = FirstBase(base, c.id)
    <3>1. c \in ToSet(base)
      BY <1>8, <2>2, FirstOf
    <3>2. c \in ToSet(kept)
      BY <1>3, <1>8, <3>1
    <3>3. \A x \in ToSet(rows) : x.id # c.id
      BY <1>1, <1>9, <2>2
    <3>4. QED BY <1>7, <3>2, <3>3
  <2>3. QED BY <2>1, <2>2
<1>13. ToSet(M) = ToSet(R)
  BY <1>11, <1>12
<1>14. QED BY <1>13 DEF M

\* Each entry of a preset has an id of its own.  Otherwise deleting one of two entries
\* with one id leaves nothing in the overlay that says so.
DistinctPresets == \A f \in DOMAIN Presets : Distinct(Presets[f].channels)

OneIdEach(chs) == \A i, j \in DOMAIN chs : chs[i].id = chs[j].id => i = j
Restored(m, chs, ns, cs, r, o, s) ==
  /\ ToSet(m.channels) = ToSet(Rows(chs))
  /\ m.nets = ns /\ m.contacts = cs /\ m.roster = r
  /\ m.own.list = o.list /\ m.settings.other = s.other

\* What is saved is what is loaded.
LEMMA RoundTrip ==
  ASSUME NEW chs, NEW ns, NEW cs, NEW r, BodyOK(chs, ns, cs, r), NEW o, OwnOK(o),
         NEW s \in SettingsSet, NEW ov, OverlayOK(ov), DistinctPresets, OneIdEach(chs)
  PROVE  Restored(LoadState(StateFile(chs, ns, cs, r, o, s, ov), TRUE), chs, ns, cs, r, o, s)
<1> DEFINE d == StateFile(chs, ns, cs, r, o, s, ov)
           m == LoadState(d, TRUE)
           f == PresetOf(d, TRUE)
           R == Rows(chs)
           rows == IF ov.file = NoName THEN R ELSE OverlayRows(chs, ov.base)
<1>1. DiskOK(d)
  BY SavedOK
<1>2. /\ d.channels = rows /\ d.nets = ns /\ d.contacts = cs /\ d.roster = r
      /\ d.settings = SettingsBody(o, s, ov, chs, cs)
  BY DEF StateFile
<1>3. /\ d.settings.list = o.list /\ d.settings.file = ov.file /\ d.settings.other = s.other
      /\ d.settings.deleted = IF ov.file = NoName THEN {} ELSE DeletedIds(chs, ov.base)
  BY <1>2 DEF SettingsBody
<1>4. f = ov.file
  BY <1>3 DEF PresetOf
<1>5. /\ m.channels = LoadedChannels(d, f) /\ m.nets = ns /\ m.contacts = cs /\ m.roster = r
      /\ m.own = ImportOwn(NoOwn, o.list)
  <2>1. /\ m.channels = LoadedChannels(d, f) /\ m.nets = d.nets /\ m.contacts = d.contacts
        /\ m.roster = d.roster /\ m.own = ImportOwn(NoOwn, d.settings.list)
    BY LoadedParts
  <2> HIDE DEF d, m, f
  <2>2. QED BY <1>2, <1>3, <2>1
<1>6. m.settings.other = s.other
  BY <1>1, <1>3, LoadedOK
<1> HIDE DEF d, m, f, rows
<1>7. m.own.list = o.list
  BY <1>5, NoOwnOK, ImportOK DEF OwnOK, OwnSet
<1>8. /\ R \in Seq(RowSet) /\ DOMAIN R = 1..Len(chs) /\ DOMAIN chs = 1..Len(chs)
      /\ \A k \in 1..Len(chs) : R[k].id = chs[k].id
  <2>1. chs \in Seq(ChannelSet)
    BY DEF BodyOK
  <2>2. R \in Seq(RowSet) /\ Len(R) = Len(chs) /\ \A k \in 1..Len(chs) : R[k].id = chs[k].id
    BY <2>1, RowsOf
  <2> HIDE DEF R
  <2>3. QED BY <2>1, <2>2
<1>9. CASE ov.file = NoName
  <2>1. m.channels = FillIds(R)
    BY <1>2, <1>4, <1>5, <1>9 DEF LoadedChannels, rows
  <2>2. R \in Seq(BlankRowSet) /\ NoBlanks(R)
    BY <1>8, RowsAreChannels
  <2>3. FillIds(R) = R
    BY <2>2, FilledRows
  <2>4. QED BY <1>5, <1>6, <1>7, <2>1, <2>3 DEF d, m, Restored
<1>10. CASE ov.file # NoName
  <2> DEFINE base == FillIds(Presets[ov.file].channels)
  <2>1. ov.file \in DOMAIN Presets /\ ov.base = base
    BY <1>10 DEF OverlayOK
  <2>2. base \in Seq(RowSet) /\ Distinct(base)
    BY <2>1, PresetRowsOK DEF DistinctPresets
  <2>3. rows = Keep(R, {c \in ToSet(R) : c # FirstBase(base, c.id)})
    BY <1>10, <2>1 DEF rows, OverlayRows
  <2> DEFINE kept == Kept(ov.file, d.settings.deleted)
  <2>4. m.channels = MergeRows(kept, rows)
    BY <1>2, <1>4, <1>5, <1>10 DEF LoadedChannels
  <2>5. Ids(R) = Ids(chs)
    BY <1>8 DEF Ids
  <2>6. kept = Keep(base, {c \in ToSet(base) : c.id \notin Ids(base) \ Ids(R)})
    BY <1>3, <1>10, <2>1, <2>5 DEF Kept, DeletedIds
  <2>7. Distinct(R)
    BY <1>8 DEF Distinct, OneIdEach
  <2> HIDE DEF base, kept, R
  <2>8. ToSet(m.channels) = ToSet(R)
    BY <1>8, <2>2, <2>3, <2>4, <2>6, <2>7, MergedBack
  <2>9. QED BY <1>5, <1>6, <1>7, <2>8 DEF d, m, R, Restored
<1>11. QED BY <1>9, <1>10

-----------------------------------------------------------------------------
(* The commands *)

\* One entry of a list replaced.
LEMMA OneReplaced ==
  ASSUME NEW T, NEW s \in Seq(T), NEW h \in DOMAIN s, NEW e \in T
  PROVE  [s EXCEPT ![h] = e] \in Seq(T)
OBVIOUS

\* Whatever a command does to the memory, saving it keeps the file in step.
LEMMA SaveInv ==
  ASSUME BodyOK(channels', nets', contacts', roster'), OwnOK(own'), settings' \in SettingsSet,
         OverlayOK(overlay'), scoped' \in ScopeSet,
         export' \in ConfigSet \union {[file |-> NoName]}, Save
  PROVE  StoreInv'
<1>1. /\ disk' = StateFile(channels', nets', contacts', roster', own', settings', overlay')
      /\ dirty' = FALSE
  BY DEF Save
<1>2. DiskOK(disk')
  BY <1>1, SavedOK
<1>3. StoreTypeOK'
  BY <1>1, <1>2 DEF StoreTypeOK
<1>4. Synced'
  BY <1>1 DEF Synced
<1>5. QED BY <1>3, <1>4 DEF StoreInv

\* A command that changes channels and nets only.
LEMMA StationInv ==
  ASSUME StoreInv, channels' \in Seq(ChannelSet), nets' \in Seq(NetSet), Command,
         UNCHANGED <<contacts, roster, own, settings, overlay, scoped>>, Save
  PROVE  StoreInv'
<1>1. BodyOK(channels', nets', contacts', roster')
  BY DEF StoreInv, StoreTypeOK, BodyOK
<1>2. QED BY <1>1, SaveInv DEF StoreInv, StoreTypeOK, Command

\* CHANNEL_ADD: a channel on a known frequency replaces it.
LEMMA AddChannelInv ==
  ASSUME StoreInv, NEW i \in 0..MaxId, NEW f \in Freqs, NEW v \in Nat, NEW u \in Nat,
         AddChannel(Channel(i, f, v, u))
  PROVE  StoreInv'
<1> DEFINE c == Channel(i, f, v, u)
           c2 == IF c.id = 0 THEN [c EXCEPT !.id = NextFreeId(channels)] ELSE c
           hits == {k \in DOMAIN channels : channels[k].rx = c.rx}
<1>1. /\ c.id # 0 \/ Ids(channels) # 1..MaxId
      /\ channels' = IF \E k \in DOMAIN channels : channels[k].rx = c.rx
                     THEN IF hits = {} THEN channels ELSE [channels EXCEPT ![Min(hits)] = c2]
                     ELSE Append(channels, c2)
      /\ UNCHANGED <<nets, contacts, roster, own, settings, overlay, scoped>> /\ Save /\ Command
  BY DEF AddChannel, ChangeFirst
<1>2. channels \in Seq(ChannelSet) /\ nets \in Seq(NetSet)
  BY DEF StoreInv, StoreTypeOK, BodyOK
<1>3. i \in Nat /\ f \in Nat /\ MaxId \in Nat /\ c = [id |-> i, rx |-> f, opt |-> v, use |-> u]
  BY StoreAssumption DEF Channel
<1>4. c2 \in ChannelSet
  <2>1. CASE i = 0
    <3>1. (1..MaxId) \ Ids(channels) # {}
      <4>1. c.id = 0
        BY <1>3, <2>1
      <4>2. Ids(channels) # 1..MaxId
        BY <1>1, <4>1
      <4>3. Ids(channels) \subseteq 1..MaxId
        BY <1>2, IdsAreIds
      <4>4. QED BY <4>2, <4>3
    <3>2. NextFreeId(channels) \in 1..MaxId
      BY <3>1, FreeId
    <3>3. c2 = [id |-> NextFreeId(channels), rx |-> f, opt |-> v, use |-> u]
      BY <1>3, <2>1
    <3> HIDE DEF c2
    <3>4. QED BY <1>3, <3>2, <3>3 DEF ChannelSet
  <2>2. CASE i # 0
    <3>1. c2 = [id |-> i, rx |-> f, opt |-> v, use |-> u] /\ i \in 1..MaxId
      BY <1>3, <2>2
    <3> HIDE DEF c2
    <3>2. QED BY <1>3, <3>1 DEF ChannelSet
  <2>3. QED BY <2>1, <2>2
<1> HIDE DEF c2
<1>5. hits \in SUBSET Nat /\ \A k \in hits : k \in DOMAIN channels
  <2>1. DOMAIN channels = 1..Len(channels)
    BY <1>2
  <2>2. QED BY <2>1
<1> HIDE DEF hits
<1>6. hits # {} => Min(hits) \in DOMAIN channels
  BY <1>5, LeastIn
<1>7. channels' \in Seq(ChannelSet)
  <2>1. Append(channels, c2) \in Seq(ChannelSet)
    BY <1>2, <1>4
  <2>2. hits # {} => [channels EXCEPT ![Min(hits)] = c2] \in Seq(ChannelSet)
    BY <1>2, <1>4, <1>6, OneReplaced
  <2>3. QED BY <1>1, <1>2, <2>1, <2>2
<1>8. QED BY <1>1, <1>2, <1>7, StationInv

\* The nets without a channel.
LEMMA Unassigned ==
  ASSUME NEW ns \in Seq(NetSet), NEW i
  PROVE  UnassignEverywhere(ns, i) \in Seq(NetSet)
<1>1. DOMAIN ns = 1..Len(ns) /\ Len(ns) \in Nat /\ \A k \in 1..Len(ns) : ns[k] \in NetSet
  OBVIOUS
<1>2. ASSUME NEW x \in NetSet PROVE [x EXCEPT !.ids = Without(@, i)] \in NetSet
  <2>1. x.ids \in Seq(1..MaxId)
    BY DEF NetSet
  <2>2. Without(x.ids, i) \in Seq(1..MaxId)
    BY <2>1, KeepFacts DEF Without
  <2>3. QED BY <2>2 DEF NetSet
<1>3. QED BY <1>1, <1>2 DEF UnassignEverywhere

\* CHANNEL_DEL: every channel on the frequency.
LEMMA DelChannelInv ==
  ASSUME StoreInv, NEW f, DelChannel(f)
  PROVE  StoreInv'
<1>1. channels \in Seq(ChannelSet) /\ nets \in Seq(NetSet)
  BY DEF StoreInv, StoreTypeOK, BodyOK
<1>2. /\ channels' = Keep(channels, {c \in ToSet(channels) : c.rx # f})
      /\ \E i : nets' = UnassignEverywhere(nets, i)
      /\ UNCHANGED <<contacts, roster, own, settings, overlay, scoped>> /\ Save /\ Command
  BY DEF DelChannel
<1>3. QED BY <1>1, <1>2, KeepFacts, Unassigned, StationInv

\* An entry of a list replaced by another.
LEMMA Replaced ==
  ASSUME NEW T, NEW s \in Seq(T), NEW x, NEW y \in T
  PROVE  /\ Replace(s, x, y) \in Seq(T)
         /\ ToSet(Replace(s, x, y)) \subseteq (ToSet(s) \ {x}) \union {y}
         /\ ToSet(s) \ {x} \subseteq ToSet(Replace(s, x, y))
         /\ x \in ToSet(s) => y \in ToSet(Replace(s, x, y))
<1>1. DOMAIN s = 1..Len(s) /\ Len(s) \in Nat /\ \A k \in 1..Len(s) : s[k] \in T
  OBVIOUS
<1> DEFINE r == Replace(s, x, y)
<1>2. r = [k \in 1..Len(s) |-> IF s[k] = x THEN y ELSE s[k]]
  BY <1>1 DEF Replace
<1>3. r \in Seq(T) /\ DOMAIN r = 1..Len(s)
  BY <1>1, <1>2
<1>4. \A k \in 1..Len(s) : r[k] = IF s[k] = x THEN y ELSE s[k]
  BY <1>2
<1> HIDE DEF r
<1>5. ToSet(r) = {r[k] : k \in 1..Len(s)} /\ ToSet(s) = {s[k] : k \in 1..Len(s)}
  BY <1>1, <1>3 DEF ToSet
<1>6. ASSUME NEW z \in ToSet(r) PROVE z \in (ToSet(s) \ {x}) \union {y}
  <2>1. PICK k \in 1..Len(s) : z = r[k]
    BY <1>5
  <2>2. QED BY <1>4, <1>5, <2>1
<1>7. ASSUME NEW z \in ToSet(s), z # x PROVE z \in ToSet(r)
  BY <1>4, <1>5, <1>7
<1>8. ASSUME x \in ToSet(s) PROVE y \in ToSet(r)
  BY <1>4, <1>5, <1>8
<1>9. QED BY <1>3, <1>6, <1>7, <1>8 DEF r

\* The ids of a net in which a channel is renamed.
LEMMA RenamedIds ==
  ASSUME NEW x \in NetSet, NEW o \in 1..MaxId, NEW i \in 1..MaxId
  PROVE  /\ RenameIn(x, o, i) \in NetSet
         /\ \A j \in ToSet(x.ids) : j # o => j \in ToSet(RenameIn(x, o, i).ids)
         /\ o # i /\ o \in ToSet(x.ids) => i \in ToSet(RenameIn(x, o, i).ids)
<1> DEFINE l == IF Contains(x.ids, i) THEN Without(x.ids, o) ELSE Replace(x.ids, o, i)
<1>1. x.ids \in Seq(1..MaxId) /\ x.name \in NetNames /\ x.policy \in Nat
  BY DEF NetSet
<1>2. Contains(x.ids, i) <=> i \in ToSet(x.ids)
  <2>1. DOMAIN x.ids = 1..Len(x.ids)
    BY <1>1
  <2>2. QED BY <2>1 DEF Contains, ToSet
<1>3. /\ Without(x.ids, o) \in Seq(1..MaxId) /\ Replace(x.ids, o, i) \in Seq(1..MaxId)
      /\ ToSet(Without(x.ids, o)) = ToSet(x.ids) \ {o}
      /\ ToSet(x.ids) \ {o} \subseteq ToSet(Replace(x.ids, o, i))
      /\ o \in ToSet(x.ids) => i \in ToSet(Replace(x.ids, o, i))
  <2>1. Without(x.ids, o) \in Seq(1..MaxId) /\ ToSet(Without(x.ids, o)) = ToSet(x.ids) \cap (ToSet(x.ids) \ {o})
    BY <1>1, KeepFacts DEF Without
  <2>2. /\ Replace(x.ids, o, i) \in Seq(1..MaxId)
        /\ ToSet(x.ids) \ {o} \subseteq ToSet(Replace(x.ids, o, i))
        /\ o \in ToSet(x.ids) => i \in ToSet(Replace(x.ids, o, i))
    <3> DEFINE N == 1..MaxId
               t == x.ids
    <3>1. t \in Seq(N) /\ i \in N
      BY <1>1
    <3> HIDE DEF N, t
    <3>2. /\ Replace(t, o, i) \in Seq(N)
          /\ ToSet(t) \ {o} \subseteq ToSet(Replace(t, o, i))
          /\ o \in ToSet(t) => i \in ToSet(Replace(t, o, i))
      BY <3>1, Replaced
    <3>3. QED BY <3>2 DEF N, t
  <2>3. QED BY <2>1, <2>2
<1>4. RenameIn(x, o, i) = [x EXCEPT !.ids = l]
  BY DEF RenameIn
<1>5. l \in Seq(1..MaxId)
  BY <1>3
<1>6. /\ \A j \in ToSet(x.ids) : j # o => j \in ToSet(l)
      /\ o # i /\ o \in ToSet(x.ids) => i \in ToSet(l)
  BY <1>2, <1>3
<1> HIDE DEF l
<1>7. [x EXCEPT !.ids = l] \in NetSet /\ [x EXCEPT !.ids = l].ids = l
  BY <1>5 DEF NetSet
<1>8. QED BY <1>4, <1>6, <1>7

\* CHANNEL_RENAME, in the channel and in every net.
LEMMA Renamings ==
  ASSUME StoreInv, NEW o \in 1..MaxId, NEW i \in 1..MaxId, RenameChannel(o, i)
  PROVE  LET h == Min({k \in DOMAIN channels : channels[k].id = o}) IN
         /\ h \in DOMAIN channels /\ channels[h].id = o
         /\ channels' = [channels EXCEPT ![h] = [channels[h] EXCEPT !.id = i]]
         /\ channels' \in Seq(ChannelSet)
         /\ nets' = [k \in DOMAIN nets |-> RenameIn(nets[k], o, i)] /\ nets' \in Seq(NetSet)
<1> DEFINE hits == {k \in DOMAIN channels : channels[k].id = o}
           h == Min(hits)
<1>1. channels \in Seq(ChannelSet) /\ nets \in Seq(NetSet)
  BY DEF StoreInv, StoreTypeOK, BodyOK
<1>2. DOMAIN channels = 1..Len(channels) /\ DOMAIN nets = 1..Len(nets) /\ Len(nets) \in Nat
  BY <1>1
<1>3. hits # {} /\ hits \in SUBSET Nat
  BY <1>2 DEF RenameChannel, Ids
<1>4. channels' = [channels EXCEPT ![h] = [channels[h] EXCEPT !.id = i]]
  BY <1>3 DEF RenameChannel, ChangeFirst
<1>5. h \in hits
  <2> HIDE DEF hits
  <2>1. QED BY <1>3, LeastIn
<1>6. h \in DOMAIN channels /\ channels[h].id = o /\ channels[h] \in ChannelSet
  BY <1>1, <1>2, <1>5
<1> HIDE DEF hits, h
<1>7. [channels[h] EXCEPT !.id = i] \in ChannelSet
  BY <1>6 DEF ChannelSet
<1>8. channels' \in Seq(ChannelSet)
  BY <1>1, <1>4, <1>6, <1>7, OneReplaced
<1>9. nets' = [k \in DOMAIN nets |-> RenameIn(nets[k], o, i)]
  BY DEF RenameChannel
<1>10. \A k \in 1..Len(nets) : RenameIn(nets[k], o, i) \in NetSet
  BY <1>1, RenamedIds
<1>11. nets' \in Seq(NetSet)
  BY <1>2, <1>9, <1>10
<1>12. QED BY <1>4, <1>6, <1>8, <1>9, <1>11 DEF h, hits

\* CHANNEL_RENAME: the channel and the lists of its nets.
LEMMA RenameChannelInv ==
  ASSUME StoreInv, NEW o \in 1..MaxId, NEW i \in 1..MaxId, RenameChannel(o, i)
  PROVE  StoreInv'
<1>1. channels' \in Seq(ChannelSet) /\ nets' \in Seq(NetSet)
  BY Renamings
<1>2. QED BY <1>1, StationInv DEF RenameChannel

\* The first of some places of a list.
LEMMA FirstHit ==
  ASSUME NEW T, NEW s \in Seq(T), NEW hits, hits \subseteq DOMAIN s, hits # {}
  PROVE  Min(hits) \in hits /\ Min(hits) \in DOMAIN s /\ s[Min(hits)] \in T
<1>1. hits \in SUBSET Nat
  <2>1. DOMAIN s = 1..Len(s)
    OBVIOUS
  <2>2. QED BY <2>1
<1>2. Min(hits) \in hits
  BY <1>1, LeastIn
<1>3. QED BY <1>2

\* Mode, power and flags of a channel.
LEMMA SetChannelOptionInv ==
  ASSUME StoreInv, NEW i, NEW v \in Nat, SetChannelOption(i, v)
  PROVE  StoreInv'
<1> DEFINE hits == {k \in DOMAIN channels : channels[k].id = i}
           h == Min(hits)
<1>1. channels \in Seq(ChannelSet) /\ nets \in Seq(NetSet)
  BY DEF StoreInv, StoreTypeOK, BodyOK
<1>2. hits # {} /\ hits \subseteq DOMAIN channels
  BY DEF SetChannelOption, Ids
<1>3. channels' = [channels EXCEPT ![h] = [channels[h] EXCEPT !.opt = v]]
  BY <1>2 DEF SetChannelOption, ChangeFirst
<1> HIDE DEF hits
<1>4. h \in DOMAIN channels /\ channels[h] \in ChannelSet
  BY <1>1, <1>2, FirstHit
<1> HIDE DEF h
<1>5. [channels[h] EXCEPT !.opt = v] \in ChannelSet
  BY <1>4 DEF ChannelSet
<1>6. channels' \in Seq(ChannelSet)
  BY <1>1, <1>3, <1>4, <1>5, OneReplaced
<1>7. QED BY <1>1, <1>6, StationInv DEF SetChannelOption

\* CLEAR_CHANNELS, NET_ADD and NET_DEL.
LEMMA ListsInv ==
  ASSUME StoreInv, NEW n \in NetNames, ClearChannels \/ AddNet(n) \/ DelNet(n)
  PROVE  StoreInv'
<1>1. channels \in Seq(ChannelSet) /\ nets \in Seq(NetSet) /\ <<>> \in Seq(ChannelSet)
  BY DEF StoreInv, StoreTypeOK, BodyOK
<1>2. CASE ClearChannels
  BY <1>1, <1>2, StationInv DEF ClearChannels
<1>3. CASE AddNet(n)
  <2> DEFINE e == [name |-> n, ids |-> <<>>, policy |-> 0]
  <2>1. e \in NetSet
    BY DEF NetSet
  <2> HIDE DEF e
  <2>2. Append(nets, e) \in Seq(NetSet)
    BY <1>1, <2>1
  <2>3. nets' = Append(nets, e)
    BY <1>3 DEF AddNet, e
  <2>4. QED BY <1>1, <1>3, <2>2, <2>3, StationInv DEF AddNet
<1>4. CASE DelNet(n)
  BY <1>1, <1>4, KeepFacts, StationInv DEF DelNet
<1>5. QED BY <1>2, <1>3, <1>4

Named(n) == {k \in DOMAIN nets : nets[k].name = n}

\* The first net of a name is put in another form.
LEMMA NetChanged ==
  ASSUME StoreInv, NEW n, n \in NamesOf(nets), NEW e, nets[Min(Named(n))] \in NetSet => e \in NetSet
  PROVE  [nets EXCEPT ![Min(Named(n))] = e] \in Seq(NetSet)
<1>1. nets \in Seq(NetSet) /\ Named(n) \subseteq DOMAIN nets /\ Named(n) # {}
  BY DEF StoreInv, StoreTypeOK, BodyOK, Named, NamesOf
<1>2. QED BY <1>1, FirstHit, OneReplaced

\* NET_ASSIGN, NET_UNASSIGN and NET_UPDATE.
LEMMA NetInv ==
  ASSUME StoreInv, NEW n, NEW i \in 1..MaxId, NEW p \in Nat,
         AssignChannel(n, i) \/ UnassignChannel(n, i) \/ UpdateNet(n, p)
  PROVE  StoreInv'
<1> DEFINE h == Min(Named(n))
<1>1. Named(n) # {} /\ n \in NamesOf(nets)
  BY DEF AssignChannel, UnassignChannel, UpdateNet, Named, NamesOf
<1>2. /\ Command /\ Save /\ UNCHANGED <<contacts, roster, own, settings, overlay, scoped>>
      /\ UNCHANGED channels
  BY DEF AssignChannel, UnassignChannel, UpdateNet
<1>3. \/ nets' = [nets EXCEPT ![h] = AssignIn(nets[h], i)]
      \/ nets' = [nets EXCEPT ![h] = [nets[h] EXCEPT !.ids = Without(nets[h].ids, i)]]
      \/ nets' = [nets EXCEPT ![h] = [nets[h] EXCEPT !.policy = p]]
  <2>1. CASE AssignChannel(n, i)
    BY <1>1, <2>1 DEF AssignChannel, InNet, ChangeFirst, Named
  <2>2. CASE UnassignChannel(n, i)
    BY <1>1, <2>2 DEF UnassignChannel, InNet, ChangeFirst, Named
  <2>3. CASE UpdateNet(n, p)
    BY <1>1, <2>3 DEF UpdateNet, InNet, ChangeFirst, Named
  <2>4. QED BY <2>1, <2>2, <2>3
<1> DEFINE x == nets[h]
<1>4. ASSUME x \in NetSet PROVE AssignIn(x, i) \in NetSet
  <2>1. x.ids \in Seq(1..MaxId)
    BY <1>4 DEF NetSet
  <2>2. Append(x.ids, i) \in Seq(1..MaxId)
    BY <2>1
  <2> HIDE DEF x
  <2>3. [x EXCEPT !.ids = Append(x.ids, i)] \in NetSet
    BY <1>4, <2>2 DEF NetSet
  <2>4. QED BY <1>4, <2>3 DEF AssignIn
<1>5. ASSUME x \in NetSet PROVE [x EXCEPT !.ids = Without(x.ids, i)] \in NetSet
  <2>1. x.ids \in Seq(1..MaxId)
    BY <1>5 DEF NetSet
  <2>2. Without(x.ids, i) \in Seq(1..MaxId)
    BY <2>1, KeepFacts DEF Without
  <2> HIDE DEF x
  <2>3. QED BY <1>5, <2>2 DEF NetSet
<1>6. ASSUME x \in NetSet PROVE [x EXCEPT !.policy = p] \in NetSet
  <2> HIDE DEF x
  <2>1. QED BY <1>6 DEF NetSet
<1>7. nets' \in Seq(NetSet)
  BY <1>1, <1>3, <1>4, <1>5, <1>6, NetChanged
<1>8. channels' \in Seq(ChannelSet)
  BY <1>2 DEF StoreInv, StoreTypeOK, BodyOK
<1>9. QED BY <1>2, <1>7, <1>8, StationInv

\* NET_RENAME: the net, the selection and every contact.
LEMMA NetRenamed ==
  ASSUME StoreInv, NEW o \in NetNames, NEW n \in NetNames, RenameNet(o, n)
  PROVE  LET h == Min(Named(o)) IN
         /\ h \in DOMAIN nets /\ nets[h].name = o
         /\ nets' = [nets EXCEPT ![h] = [nets[h] EXCEPT !.name = n]] /\ nets' \in Seq(NetSet)
         /\ scoped' = Renamed(o, n) /\ scoped' \in ScopeSet
         /\ contacts' = [k \in DOMAIN contacts |-> [contacts[k] EXCEPT !.nets = Replace(@, o, n)]]
         /\ contacts' \in Seq(ContactSet)
<1> DEFINE h == Min(Named(o))
<1>1. Named(o) # {} /\ o \in NamesOf(nets) /\ Named(o) \subseteq DOMAIN nets
  BY DEF RenameNet, Named, NamesOf
<1>2. nets \in Seq(NetSet) /\ contacts \in Seq(ContactSet) /\ scoped \in ScopeSet
  BY DEF StoreInv, StoreTypeOK, BodyOK
<1>3. h \in DOMAIN nets /\ nets[h].name = o
  <2>1. h \in Named(o)
    BY <1>1, <1>2, FirstHit
  <2>2. QED BY <2>1 DEF Named
<1>4. nets' = [nets EXCEPT ![h] = [nets[h] EXCEPT !.name = n]]
  BY <1>1 DEF RenameNet, InNet, ChangeFirst, Named
<1>5. \A x \in NetSet : [x EXCEPT !.name = n] \in NetSet
  BY DEF NetSet
<1>6. nets' \in Seq(NetSet)
  BY <1>1, <1>4, <1>5, NetChanged
<1>7. scoped' = Renamed(o, n) /\ scoped' \in ScopeSet
  BY <1>2 DEF RenameNet, Renamed, ScopeSet
<1>8. contacts' = [k \in DOMAIN contacts |-> [contacts[k] EXCEPT !.nets = Replace(@, o, n)]]
  BY DEF RenameNet
<1>9. ASSUME NEW x \in ContactSet PROVE [x EXCEPT !.nets = Replace(@, o, n)] \in ContactSet
  <2>1. x.nets \in Seq(NetNames)
    BY DEF ContactSet
  <2>2. Replace(x.nets, o, n) \in Seq(NetNames)
    BY <2>1, Replaced
  <2>3. QED BY <2>2 DEF ContactSet
<1>10. contacts' \in Seq(ContactSet)
  <2>1. DOMAIN contacts = 1..Len(contacts) /\ Len(contacts) \in Nat
        /\ \A k \in 1..Len(contacts) : contacts[k] \in ContactSet
    BY <1>2
  <2>2. QED BY <1>8, <1>9, <2>1
<1>11. QED BY <1>3, <1>4, <1>6, <1>7, <1>8, <1>10

\* NET_RENAME: the net, the selections and the contacts.
LEMMA RenameNetInv ==
  ASSUME StoreInv, NEW o \in NetNames, NEW n \in NetNames, RenameNet(o, n)
  PROVE  StoreInv'
<1>1. nets' \in Seq(NetSet) /\ scoped' \in ScopeSet /\ contacts' \in Seq(ContactSet)
  BY NetRenamed
<1>2. Save /\ UNCHANGED <<channels, roster, own, settings, overlay, export>>
  BY DEF RenameNet, Command
<1>3. BodyOK(channels', nets', contacts', roster')
  BY <1>1, <1>2 DEF StoreInv, StoreTypeOK, BodyOK
<1>4. QED BY <1>1, <1>2, <1>3, SaveInv DEF StoreInv, StoreTypeOK

\* Selections are not saved, and neither is what is exported.
LEMMA UnsavedInv ==
  ASSUME StoreInv, UNCHANGED <<channels, nets, contacts, roster, own, settings, overlay, disk, dirty>>,
         scoped' \in ScopeSet, export' \in ConfigSet \union {[file |-> NoName]}
  PROVE  StoreInv'
<1>1. StoreTypeOK'
  BY DEF StoreInv, StoreTypeOK
<1>2. Synced'
  BY DEF StoreInv, Synced
<1>3. QED BY <1>1, <1>2 DEF StoreInv

\* Selecting a contact is not saved.
LEMMA SelectInv ==
  ASSUME StoreInv, NEW s \in NetNames \union {NoName}, NEW a \in NetNames \union {NoName},
         NEW c \in Calls, SelectNets(s, a) \/ SelectContact(c)
  PROVE  StoreInv'
<1>1. scoped \in ScopeSet /\ export \in ConfigSet \union {[file |-> NoName]}
  BY DEF StoreInv, StoreTypeOK
<1>2. /\ UNCHANGED <<channels, nets, contacts, roster, own, settings, overlay, disk, dirty>>
      /\ UNCHANGED export
  BY DEF SelectNets, SelectContact, Command, body
<1>3. scoped' = [scoped EXCEPT !.scan = s, !.sound = a] \/ scoped' = [scoped EXCEPT !.contact = c]
  BY DEF SelectNets, SelectContact
<1>4. scoped' \in ScopeSet
  BY <1>1, <1>3 DEF ScopeSet
<1>5. QED BY <1>1, <1>2, <1>4, UnsavedInv

\* Contacts and rosters.
LEMMA ContactsInv ==
  ASSUME StoreInv, NEW c \in Calls, NEW r \in SUBSET Calls \union {{NoName}},
         AddContact(c) \/ RemoveContact(c) \/ EditRoster(r)
  PROVE  StoreInv'
<1>1. /\ contacts \in Seq(ContactSet) /\ scoped \in ScopeSet
      /\ roster \in SUBSET (Calls \union {NoName})
  BY DEF StoreInv, StoreTypeOK, BodyOK
<1>2. /\ UNCHANGED <<channels, nets, own, settings, overlay, export>> /\ Save
  BY DEF AddContact, RemoveContact, EditRoster, Command
<1>3. contacts' \in Seq(ContactSet) /\ scoped' \in ScopeSet /\ roster' \in SUBSET (Calls \union {NoName})
  <2>1. CASE AddContact(c)
    <3> DEFINE e == [call |-> c, nets |-> <<>>]
    <3>1. e \in ContactSet
      BY DEF ContactSet
    <3>2. contacts' = PutContact(contacts, e) /\ UNCHANGED <<scoped, roster>>
      BY <2>1 DEF AddContact
    <3> HIDE DEF e
    <3>3. DOMAIN contacts = 1..Len(contacts) /\ Len(contacts) \in Nat
          /\ \A k \in 1..Len(contacts) : contacts[k] \in ContactSet
      BY <1>1
    <3>4. [k \in DOMAIN contacts |-> IF contacts[k].call = e.call THEN e ELSE contacts[k]] \in Seq(ContactSet)
      BY <3>1, <3>3
    <3>5. Append(contacts, e) \in Seq(ContactSet)
      BY <1>1, <3>1
    <3>6. QED BY <1>1, <3>2, <3>4, <3>5 DEF PutContact
  <2>2. CASE RemoveContact(c)
    <3>1. contacts' \in Seq(ContactSet)
      BY <1>1, <2>2, KeepFacts DEF RemoveContact
    <3>2. scoped' \in ScopeSet /\ UNCHANGED roster
      BY <1>1, <2>2 DEF RemoveContact, ScopeSet
    <3>3. QED BY <1>1, <3>1, <3>2
  <2>3. CASE EditRoster(r)
    BY <1>1, <2>3 DEF EditRoster
  <2>4. QED BY <2>1, <2>2, <2>3
<1>4. BodyOK(channels', nets', contacts', roster')
  BY <1>2, <1>3 DEF StoreInv, StoreTypeOK, BodyOK
<1>5. QED BY <1>2, <1>3, <1>4, SaveInv DEF StoreInv, StoreTypeOK

\* Own addresses and settings.
LEMMA OwnInv ==
  ASSUME StoreInv, OwnOK(own'), settings' \in SettingsSet, Command,
         UNCHANGED <<body, overlay, scoped>>, Save
  PROVE  StoreInv'
<1>1. BodyOK(channels', nets', contacts', roster')
  BY DEF StoreInv, StoreTypeOK, BodyOK, body
<1>2. QED BY <1>1, SaveInv DEF StoreInv, StoreTypeOK, Command

\* The commands on the own addresses.
LEMMA AddressesInv ==
  ASSUME StoreInv, NEW a \in Addrs,
         AddSelfAddress(a) \/ RemoveSelfAddress(a) \/ SetPrimaryAddress(a)
  PROVE  StoreInv'
<1>1. OwnOK(own) /\ settings \in SettingsSet
  BY DEF StoreInv, StoreTypeOK
<1>2. Command /\ UNCHANGED <<body, settings, overlay, scoped>> /\ Save
  BY DEF AddSelfAddress, RemoveSelfAddress, SetPrimaryAddress, SetOwn
<1>3. CASE AddSelfAddress(a)
  BY <1>1, <1>2, <1>3, OwnAdded, OwnInv DEF AddSelfAddress, SetOwn
<1>4. CASE SetPrimaryAddress(a)
  BY <1>1, <1>2, <1>4, PrimarySet, OwnInv DEF SetPrimaryAddress, SetOwn
<1>5. CASE RemoveSelfAddress(a)
  <2> DEFINE left == Without(own.list, a)
             p == IF own.primary # a THEN own.primary ELSE IF left = <<>> THEN NoName ELSE left[1]
  <2>1. own \in OwnSet /\ own.list \in Seq(Addrs) /\ Injective(own.list)
        /\ own.primary \in Addrs \union {NoName}
    BY <1>1 DEF OwnOK, OwnSet
  <2>2. left \in Seq(Addrs) /\ Injective(left)
    BY <2>1, KeepFacts DEF Without
  <2>3. own' = [own EXCEPT !.list = left, !.primary = p]
    BY <1>5 DEF RemoveSelfAddress, SetOwn
  <2> HIDE DEF left
  <2>4. p \in Addrs \union {NoName}
    <3>1. left # <<>> => left[1] \in Addrs
      BY <2>2
    <3>2. QED BY <2>1, <3>1
  <2> HIDE DEF p
  <2>5. own' \in OwnSet /\ own'.list = left
    BY <2>1, <2>2, <2>3, <2>4, OwnChanged
  <2>6. OwnOK(own')
    BY <2>2, <2>5 DEF OwnOK
  <2>7. QED BY <1>1, <1>2, <2>6, OwnInv
<1>6. QED BY <1>3, <1>4, <1>5

\* A setting is changed and saved.
LEMMA SettingInv ==
  ASSUME StoreInv, NEW x \in BOOLEAN, NEW v \in Nat, ChangeSetting([exchange |-> x, other |-> v])
  PROVE  StoreInv'
<1>1. settings' \in SettingsSet
  BY DEF ChangeSetting, SettingsSet
<1>2. Command /\ Save /\ UNCHANGED <<body, own, overlay, scoped>>
  BY DEF ChangeSetting
<1>3. OwnOK(own')
  BY <1>2 DEF StoreInv, StoreTypeOK
<1>4. QED BY <1>1, <1>2, <1>3, OwnInv

\* STATION_LOAD.
LEMMA LoadPresetInv ==
  ASSUME StoreInv, NEW f \in DOMAIN Presets, LoadPreset(f)
  PROVE  StoreInv'
<1> DEFINE base == FillIds(Presets[f].channels)
<1>1. /\ channels' = base /\ nets' = Presets[f].nets /\ contacts' = Presets[f].contacts
      /\ roster' = {NoName} /\ overlay' = [file |-> f, base |-> base]
      /\ UNCHANGED <<own, settings, scoped, export>> /\ Save
  BY DEF LoadPreset, Command
<1>2. base \in Seq(RowSet) /\ base \in Seq(ChannelSet)
      /\ Presets[f].nets \in Seq(NetSet) /\ Presets[f].contacts \in Seq(ContactSet)
  BY PresetRowsOK, RowsAreChannels
<1>3. BodyOK(channels', nets', contacts', roster')
  BY <1>1, <1>2 DEF BodyOK
<1>4. f # NoName
  BY StoreAssumption
<1>5. OverlayOK(overlay')
  <2>1. overlay'.file = f /\ overlay'.base = base
    BY <1>1
  <2>2. overlay' \in [file : DOMAIN Presets \union {NoName}, base : Seq(RowSet)]
    BY <1>1, <1>2
  <2>3. QED BY <1>4, <2>1, <2>2 DEF OverlayOK
<1>6. QED BY <1>1, <1>3, <1>5, SaveInv DEF StoreInv, StoreTypeOK

\* SETTINGS_EXPORT and SETTINGS_IMPORT.
LEMMA ExportInv ==
  ASSUME StoreInv, ExportSettings
  PROVE  StoreInv'
<1>1. export' \in ConfigSet
  BY SavedOK DEF StoreInv, StoreTypeOK, ExportSettings
<1>2. UNCHANGED <<channels, nets, contacts, roster, own, settings, overlay, disk, dirty, scoped>>
  BY DEF ExportSettings, body
<1>3. QED BY <1>1, <1>2, UnsavedInv DEF StoreInv, StoreTypeOK

\* SETTINGS_IMPORT: the memory is ahead of the file.
LEMMA ImportInv ==
  ASSUME StoreInv, ImportSettings
  PROVE  StoreInv'
<1> DEFINE own2  == ImportOwn(own, export.list)
           saved == IF export.list = <<>> THEN disk
                    ELSE StateFile(channels, nets, contacts, roster, own2, settings, overlay)
           new   == Keep(export.calls,
                         ToSet(export.calls) \ {saved.contacts[k].call : k \in DOMAIN saved.contacts})
           added == [k \in DOMAIN new |-> [call |-> new[k], nets |-> <<>>]]
<1>1. /\ export # [file |-> NoName]
      /\ own' = own2 /\ settings' = ApplySettings(settings, export)
      /\ disk' = saved /\ dirty' = TRUE
      /\ channels' = FillIds(saved.channels) /\ nets' = saved.nets /\ roster' = saved.roster
      /\ contacts' = saved.contacts \o added
      /\ UNCHANGED <<overlay, scoped, export>>
  BY DEF ImportSettings, StationBody
<1>2. /\ export \in ConfigSet /\ OwnOK(own) /\ settings \in SettingsSet /\ DiskOK(disk)
      /\ BodyOK(channels, nets, contacts, roster) /\ OverlayOK(overlay)
      /\ scoped \in ScopeSet
  BY <1>1 DEF StoreInv, StoreTypeOK
<1>3. export.list \in Seq(Addrs) /\ export.calls \in Seq(Calls) /\ export.other \in Nat
  BY <1>2 DEF ConfigSet
<1>4. OwnOK(own2)
  BY <1>2, <1>3, ImportOK
<1> HIDE DEF own2
<1>5. DiskOK(saved)
  BY <1>2, <1>4, SavedOK
<1> HIDE DEF saved
<1>6. settings' \in SettingsSet
  BY <1>1, <1>2, <1>3 DEF ApplySettings, SettingsSet
<1>7. channels' \in Seq(ChannelSet)
  <2>1. LoadedChannels(saved, NoName) \in Seq(RowSet)
    BY <1>5, LoadedRows
  <2>2. QED BY <1>1, <2>1, RowsAreChannels DEF LoadedChannels
<1>8. new \in Seq(Calls)
  BY <1>3, KeepFacts
<1> HIDE DEF new
<1>9. added \in Seq(ContactSet)
  <2>1. DOMAIN new = 1..Len(new) /\ Len(new) \in Nat /\ \A k \in 1..Len(new) : new[k] \in Calls
    BY <1>8
  <2>2. \A c \in Calls : [call |-> c, nets |-> <<>>] \in ContactSet
    BY DEF ContactSet
  <2>3. QED BY <2>1, <2>2
<1> HIDE DEF added
<1>10. /\ saved.nets \in Seq(NetSet) /\ saved.contacts \in Seq(ContactSet)
       /\ saved.roster \in SUBSET (Calls \union {NoName})
  BY <1>5 DEF DiskOK, DiskSet
<1>11. contacts' \in Seq(ContactSet)
  BY <1>1, <1>9, <1>10
<1>12. BodyOK(channels', nets', contacts', roster')
  BY <1>1, <1>7, <1>10, <1>11 DEF BodyOK
<1>13. StoreTypeOK'
  BY <1>1, <1>2, <1>4, <1>5, <1>6, <1>12 DEF StoreTypeOK
<1>14. QED BY <1>1, <1>13 DEF StoreInv, Synced

\* A program that starts is in step with its file, unless the preset is missing.
LEMMA RestartInv ==
  ASSUME StoreInv, Restart
  PROVE  StoreInv'
<1>1. PICK there \in BOOLEAN :
        LET m == LoadState(disk, there) IN
        /\ channels' = m.channels /\ nets' = m.nets /\ contacts' = m.contacts /\ roster' = m.roster
        /\ own' = m.own /\ settings' = m.settings /\ overlay' = m.overlay /\ scoped' = m.scoped
        /\ dirty' = (m.overlay.file # disk.settings.file)
        /\ UNCHANGED <<disk, export>>
  BY DEF Restart
<1> DEFINE m == LoadState(disk, there)
<1>2. /\ channels' = m.channels /\ nets' = m.nets /\ contacts' = m.contacts /\ roster' = m.roster
      /\ own' = m.own /\ settings' = m.settings /\ overlay' = m.overlay /\ scoped' = m.scoped
      /\ dirty' = (m.overlay.file # disk.settings.file)
      /\ disk' = disk /\ export' = export
  BY <1>1
<1>3. DiskOK(disk) /\ export \in ConfigSet \union {[file |-> NoName]}
  BY DEF StoreInv, StoreTypeOK
<1>4. /\ BodyOK(m.channels, m.nets, m.contacts, m.roster)
      /\ OwnOK(m.own) /\ m.settings \in SettingsSet
      /\ OverlayOK(m.overlay) /\ m.overlay.file = PresetOf(disk, there) /\ m.scoped \in ScopeSet
  BY <1>3, LoadedOK
<1> HIDE DEF m
<1>5. StoreTypeOK'
  BY <1>2, <1>3, <1>4 DEF StoreTypeOK
<1>6. ASSUME ~dirty' PROVE m = LoadState(disk, TRUE)
  <2>1. PresetOf(disk, there) = disk.settings.file
    BY <1>2, <1>4, <1>6
  <2>2. there \/ disk.settings.file = NoName
    BY <2>1 DEF PresetOf
  <2>3. QED BY <2>2, LoadedWithout DEF m
<1>7. Synced'
  BY <1>2, <1>6 DEF Synced
<1>8. QED BY <1>5, <1>7 DEF StoreInv

\* The first start loads whatever file there is.
LEMMA StoreInitInv == StoreInit => StoreInv
<1>1. SUFFICES ASSUME StoreInit PROVE StoreInv
  OBVIOUS
<1>2. PICK d \in FirstDisks :
        LET m == LoadState(d, TRUE) IN
        /\ disk = d
        /\ channels = m.channels /\ nets = m.nets /\ contacts = m.contacts /\ roster = m.roster
        /\ own = m.own /\ settings = m.settings /\ overlay = m.overlay /\ scoped = m.scoped
        /\ export = [file |-> NoName] /\ dirty = FALSE
  BY <1>1 DEF StoreInit
<1> DEFINE m == LoadState(d, TRUE)
<1>3. /\ disk = d
      /\ channels = m.channels /\ nets = m.nets /\ contacts = m.contacts /\ roster = m.roster
      /\ own = m.own /\ settings = m.settings /\ overlay = m.overlay /\ scoped = m.scoped
      /\ export = [file |-> NoName] /\ dirty = FALSE
  BY <1>2
<1>4. DiskOK(d)
  BY FilesAssumption DEF DiskOK
<1>5. /\ BodyOK(m.channels, m.nets, m.contacts, m.roster)
      /\ OwnOK(m.own) /\ m.settings \in SettingsSet
      /\ OverlayOK(m.overlay) /\ m.scoped \in ScopeSet
  BY <1>4, LoadedOK
<1> HIDE DEF m
<1>6. StoreTypeOK
  BY <1>3, <1>4, <1>5 DEF StoreTypeOK
<1>7. Synced
  BY <1>3 DEF Synced, m
<1>8. QED BY <1>6, <1>7 DEF StoreInv

\* Every step keeps the types, and the file in step.
LEMMA StoreInvStep == StoreInv /\ [StoreNext]_vars => StoreInv'
<1>1. SUFFICES ASSUME StoreInv, [StoreNext]_vars PROVE StoreInv'
  OBVIOUS
<1>2. ASSUME NEW i \in 0..MaxId, NEW f \in Freqs, NEW o \in {<<0, 0>>, <<1, 0>>, <<0, 1>>},
             AddChannel(Channel(i, f, o[1], o[2]))
      PROVE  StoreInv'
  <2>1. o[1] \in Nat /\ o[2] \in Nat
    OBVIOUS
  <2>2. QED BY <1>1, <1>2, <2>1, AddChannelInv
<1>3. ASSUME NEW i \in 1..MaxId, NEW j \in 1..MaxId, NEW v \in {0, 1}, NEW f,
             DelChannel(f) \/ RenameChannel(i, j) \/ SetChannelOption(i, v)
      PROVE  StoreInv'
  BY <1>1, <1>3, DelChannelInv, RenameChannelInv, SetChannelOptionInv
<1>4. ASSUME NEW n \in NetNames, NEW m \in NetNames,
             ClearChannels \/ AddNet(n) \/ DelNet(n) \/ RenameNet(n, m)
      PROVE  StoreInv'
  BY <1>1, <1>4, ListsInv, RenameNetInv
<1>5. ASSUME NEW n \in NetNames, NEW i \in 1..MaxId, NEW p \in {0, 1},
             AssignChannel(n, i) \/ UnassignChannel(n, i) \/ UpdateNet(n, p)
      PROVE  StoreInv'
  BY <1>1, <1>5, NetInv
<1>6. ASSUME NEW s \in NetNames \union {NoName}, NEW a \in NetNames \union {NoName}, SelectNets(s, a)
      PROVE  StoreInv'
  <2>1. /\ UNCHANGED <<channels, nets, contacts, roster, own, settings, overlay, disk, dirty>>
        /\ UNCHANGED export
        /\ scoped' = [scoped EXCEPT !.scan = s, !.sound = a]
    BY <1>6 DEF SelectNets, Command, body
  <2>2. scoped' \in ScopeSet
    BY <1>1, <2>1 DEF StoreInv, StoreTypeOK, ScopeSet
  <2>3. QED BY <1>1, <2>1, <2>2, UnsavedInv DEF StoreInv, StoreTypeOK
<1>7. ASSUME NEW c \in Calls, AddContact(c) \/ RemoveContact(c)
      PROVE  StoreInv'
  BY <1>1, <1>7, ContactsInv
<1>8. ASSUME NEW c \in Calls, SelectContact(c)
      PROVE  StoreInv'
  BY <1>1, <1>8, SelectInv
<1>9. ASSUME NEW r \in (SUBSET Calls) \union {{NoName}}, EditRoster(r)
      PROVE  StoreInv'
  <2>1. /\ UNCHANGED <<channels, nets, contacts, own, settings, overlay, scoped, export>>
        /\ Save /\ roster' = r
    BY <1>9 DEF EditRoster, Command
  <2>2. r \in SUBSET (Calls \union {NoName})
    OBVIOUS
  <2>3. BodyOK(channels', nets', contacts', roster')
    BY <1>1, <2>1, <2>2 DEF StoreInv, StoreTypeOK, BodyOK
  <2>4. QED BY <1>1, <2>1, <2>3, SaveInv DEF StoreInv, StoreTypeOK
<1>10. ASSUME NEW a \in Addrs, AddSelfAddress(a) \/ RemoveSelfAddress(a) \/ SetPrimaryAddress(a)
       PROVE  StoreInv'
  BY <1>1, <1>10, AddressesInv
<1>11. ASSUME NEW x \in BOOLEAN, NEW v \in {0, 1}, ChangeSetting([exchange |-> x, other |-> v])
       PROVE  StoreInv'
  BY <1>1, <1>11, SettingInv
<1>12. ASSUME NEW f \in DOMAIN Presets, LoadPreset(f)
       PROVE  StoreInv'
  BY <1>1, <1>12, LoadPresetInv
<1>13. CASE ExportSettings \/ ImportSettings \/ Restart
  BY <1>1, <1>13, ExportInv, ImportInv, RestartInv
<1>14. CASE UNCHANGED vars
  <2>1. UNCHANGED <<channels, nets, contacts, roster, own, settings, overlay, disk, dirty, scoped, export>>
    BY <1>14 DEF vars
  <2>2. QED BY <1>1, <2>1, UnsavedInv DEF StoreInv, StoreTypeOK
<1>15. CASE ClearChannels
  <2>1. channels' = <<>> /\ Command /\ Save
        /\ UNCHANGED <<nets, contacts, roster, own, settings, overlay, scoped>>
    BY <1>15 DEF ClearChannels
  <2>2. channels' \in Seq(ChannelSet) /\ nets' \in Seq(NetSet)
    BY <1>1, <2>1 DEF StoreInv, StoreTypeOK, BodyOK
  <2>3. QED BY <1>1, <2>1, <2>2, StationInv
<1>16. ASSUME NEW i \in 1..MaxId, NEW j \in 1..MaxId, RenameChannel(i, j)
       PROVE  StoreInv'
  BY <1>1, <1>16, RenameChannelInv
<1>17. ASSUME NEW i \in 1..MaxId, NEW v \in {0, 1}, SetChannelOption(i, v)
       PROVE  StoreInv'
  BY <1>1, <1>17, SetChannelOptionInv
<1>18. ASSUME NEW f \in Freqs, DelChannel(f)
       PROVE  StoreInv'
  BY <1>1, <1>18, DelChannelInv
<1>19. ASSUME NEW n \in NetNames, NEW i \in 1..MaxId, AssignChannel(n, i) \/ UnassignChannel(n, i)
       PROVE  StoreInv'
  <2>1. 0 \in {0, 1}
    OBVIOUS
  <2>2. QED BY <1>5, <1>19, <2>1
<1>20. ASSUME NEW n \in NetNames, NEW p \in {0, 1}, UpdateNet(n, p)
       PROVE  StoreInv'
  <2>1. 1 \in 1..MaxId
    BY StoreAssumption
  <2>2. QED BY <1>5, <1>20, <2>1
<1>21. QED
  BY <1>1, <1>2, <1>4, <1>6, <1>7, <1>8, <1>9, <1>10, <1>11, <1>12, <1>13, <1>14, <1>15, <1>16,
     <1>17, <1>18, <1>19, <1>20 DEF StoreNext

\* If the entries of each preset have their own ids, a restart brings back what the
\* operator left, whatever was edited on top of whichever preset, saved, exported and
\* imported before (save_state, load_state).
THEOREM RestartHolds ==
  ASSUME DistinctPresets PROVE StoreSpec => []RestartRestores
<1>1. ASSUME StoreInv PROVE RestartRestores
  <2> DEFINE m == LoadState(disk, TRUE)
  <2>1. SUFFICES ASSUME ~dirty, IdsUnique
                 PROVE  /\ ToSet(m.channels) = ToSet(Rows(channels))
                        /\ m.nets = nets /\ m.contacts = contacts /\ m.roster = roster
                        /\ m.own.list = own.list /\ m.settings.other = settings.other
    BY DEF RestartRestores
  <2>2. CASE disk = StateFile(channels, nets, contacts, roster, own, settings, overlay)
    <3>1. /\ BodyOK(channels, nets, contacts, roster) /\ OwnOK(own)
          /\ settings \in SettingsSet /\ OverlayOK(overlay)
      BY <1>1 DEF StoreInv, StoreTypeOK
    <3>2. OneIdEach(channels)
      BY <2>1 DEF IdsUnique, OneIdEach
    <3> HIDE DEF m
    <3>3. Restored(LoadState(disk, TRUE), channels, nets, contacts, roster, own, settings)
      BY <2>2, <3>1, <3>2, RoundTrip
    <3>4. QED BY <3>3 DEF Restored, m
  <2>3. CASE /\ channels = m.channels /\ nets = m.nets /\ contacts = m.contacts /\ roster = m.roster
             /\ own = m.own /\ settings = m.settings
    <3>1. m.channels \in Seq(RowSet)
      BY <1>1, LoadedOK DEF StoreInv, StoreTypeOK
    <3> HIDE DEF m
    <3>2. channels \in Seq(RowSet) /\ channels \in Seq(ChannelSet)
      BY <2>3, <3>1, RowsAreChannels
    <3>3. Rows(channels) = channels
      BY <3>2, RowsOf
    <3>4. QED BY <2>3, <3>3
  <2>4. QED BY <1>1, <2>1, <2>2, <2>3 DEF StoreInv, Synced
<1>2. QED BY <1>1, StoreInitInv, StoreInvStep, PTL DEF StoreSpec

\* No reference is left behind when a channel or a net is renamed (rename_channel,
\* rename_net).
THEOREM RenamesHold == StoreSpec => RenamesFollow
<1>1. ASSUME StoreInv, NEW o \in 1..MaxId, NEW i \in 1..MaxId, RenameChannel(o, i), IdsUnique,
             NEW k \in DOMAIN nets
      PROVE  Scope(nets, channels, k) \subseteq Scope(nets', channels', k)
  <2> DEFINE h == Min({j \in DOMAIN channels : channels[j].id = o})
             x == nets[k]
             y == RenameIn(x, o, i)
             e == [channels[h] EXCEPT !.id = i]
  <2>1. /\ h \in DOMAIN channels /\ channels[h].id = o
        /\ channels' = [channels EXCEPT ![h] = e]
        /\ nets' = [j \in DOMAIN nets |-> RenameIn(nets[j], o, i)]
    BY <1>1, Renamings
  <2> HIDE DEF h
  <2>2. /\ channels \in Seq(ChannelSet) /\ nets \in Seq(NetSet) /\ x \in NetSet /\ o # i
    BY <1>1 DEF StoreInv, StoreTypeOK, BodyOK, RenameChannel
  <2>3. channels[h] \in ChannelSet
    BY <2>1, <2>2
  <2>4. e.id = i /\ e.rx = channels[h].rx
    BY <2>3 DEF ChannelSet
  <2>5. DOMAIN channels' = DOMAIN channels /\ channels'[h] = e
        /\ \A j \in DOMAIN channels : j # h => channels'[j] = channels[j]
    BY <2>1, <2>2
  <2>6. nets'[k] = y
    BY <2>1
  <2> HIDE DEF e, x
  <2>7. /\ y \in NetSet
        /\ \A j \in ToSet(x.ids) : j # o => j \in ToSet(y.ids)
        /\ o \in ToSet(x.ids) => i \in ToSet(y.ids)
    BY <2>2, RenamedIds
  <2> HIDE DEF y
  <2>8. \A z \in NetSet : \A j : Contains(z.ids, j) <=> j \in ToSet(z.ids)
    <3>1. \A z \in NetSet : z.ids \in Seq(1..MaxId)
      BY DEF NetSet
    <3>2. \A z \in NetSet : DOMAIN z.ids = 1..Len(z.ids)
      BY <3>1
    <3>3. QED BY <3>2 DEF Contains, ToSet
  <2>9. ASSUME NEW j \in DOMAIN channels, Contains(x.ids, channels[j].id)
        PROVE  Contains(y.ids, channels'[j].id) /\ channels'[j].rx = channels[j].rx
    <3>1. channels[j].id \in ToSet(x.ids)
      BY <2>2, <2>8, <2>9
    <3>2. CASE j = h
      BY <2>1, <2>4, <2>5, <2>7, <2>8, <3>1, <3>2
    <3>3. CASE j # h
      <4>1. channels[j].id # o
        BY <1>1, <2>1, <3>3 DEF IdsUnique
      <4>2. QED BY <2>5, <2>7, <2>8, <3>1, <3>3, <4>1
    <3>4. QED BY <3>2, <3>3
  <2>10. QED BY <2>5, <2>6, <2>9 DEF Scope, x
<1>2. ASSUME StoreInv, NEW o \in NetNames, NEW n \in NetNames, RenameNet(o, n)
      PROVE  Dangling' \subseteq Dangling
  <2> DEFINE h == Min(Named(o))
             e == [nets[h] EXCEPT !.name = n]
  <2>1. /\ h \in DOMAIN nets /\ nets[h].name = o
        /\ nets' = [nets EXCEPT ![h] = e]
        /\ scoped' = Renamed(o, n)
        /\ contacts' = [k \in DOMAIN contacts |-> [contacts[k] EXCEPT !.nets = Replace(@, o, n)]]
    BY <1>2, NetRenamed
  <2> HIDE DEF h
  <2>2. nets \in Seq(NetSet) /\ contacts \in Seq(ContactSet) /\ scoped \in ScopeSet
    BY <1>2 DEF StoreInv, StoreTypeOK, BodyOK
  <2>3. e.name = n
    <3>1. nets[h] \in NetSet
      BY <2>1, <2>2
    <3>2. QED BY <3>1 DEF NetSet
  <2> HIDE DEF e
  <2>4. DOMAIN nets' = DOMAIN nets /\ nets'[h] = e /\ \A k \in DOMAIN nets : k # h => nets'[k] = nets[k]
    BY <2>1, <2>2
  <2>5. n \in NamesOf(nets')
    BY <2>1, <2>3, <2>4 DEF NamesOf
  <2>6. \A z \in NamesOf(nets) : z # o => z \in NamesOf(nets')
    BY <2>1, <2>4 DEF NamesOf
  <2>7. /\ scoped'.scan = IF scoped.scan = o THEN n ELSE scoped.scan
        /\ scoped'.sound = IF scoped.sound = o THEN n ELSE scoped.sound
    BY <2>1, <2>2 DEF Renamed, ScopeSet
  <2>8. ASSUME NEW k \in DOMAIN contacts
        PROVE  ToSet(contacts'[k].nets) \subseteq (ToSet(contacts[k].nets) \ {o}) \union {n}
    <3> DEFINE x == contacts[k]
    <3>1. x \in ContactSet
      BY <2>2
    <3>2. contacts'[k] = [x EXCEPT !.nets = Replace(x.nets, o, n)]
      BY <2>1
    <3> HIDE DEF x
    <3>3. x.nets \in Seq(NetNames) /\ contacts'[k].nets = Replace(x.nets, o, n)
      BY <3>1, <3>2 DEF ContactSet
    <3>4. QED BY <3>3, Replaced DEF x
  <2>9. DOMAIN contacts' = DOMAIN contacts
    BY <2>1
  <2>10. \A z \in References' : z = n \/ (z \in References /\ z # o)
    BY <2>7, <2>8, <2>9 DEF References
  <2>11. QED BY <2>5, <2>6, <2>10 DEF Dangling
<1>3. StoreInv /\ [StoreNext]_vars =>
        [/\ \A o, i \in 1..MaxId : RenameChannel(o, i) /\ IdsUnique =>
              \A k \in DOMAIN nets : Scope(nets, channels, k) \subseteq Scope(nets', channels', k)
         /\ \A o, n \in NetNames : RenameNet(o, n) => Dangling' \subseteq Dangling]_vars
  BY <1>1, <1>2
<1>4. QED BY <1>3, StoreInitInv, StoreInvStep, PTL DEF StoreSpec, RenamesFollow
=============================================================================
