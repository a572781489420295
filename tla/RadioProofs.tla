----------------------------- MODULE RadioProofs -----------------------------
(***************************************************************************)
(* The transmitter is never keyed on a frequency other than the one it was *)
(* keyed for.  The queue has two classes of commands and the radio is not  *)
(* asked where it is, so the inductive invariant follows a request through *)
(* the queue: the frequency a PTT command was given is the one that will   *)
(* be in force when the worker comes to that command.                      *)
(***************************************************************************)
EXTENDS HamlibWorker, SequenceTheorems, WellFoundedInduction, TLAPS

Retunes(c) == c.op \in {"channel", "frequency"}
FreqOf(c) == IF c.op = "channel" THEN c.ch.f ELSE c.f

\* The commands of q before position i leave the radio on f, which is on `now`.
InForce(q, i, now, f) ==
  \/ (\A j \in 1..(i - 1) : ~Retunes(q[j])) /\ now = f
  \/ \E j \in 1..(i - 1) : /\ Retunes(q[j]) /\ FreqOf(q[j]) = f
                           /\ \A k \in (j + 1)..(i - 1) : ~Retunes(q[k])

\* Where the radio will be when the worker has done what it is at.
Now(b, f) == IF Retunes(b) THEN FreqOf(b) ELSE f

Places == Freqs \cup {Unset}

HamlibTypeOK ==
  /\ running \in BOOLEAN /\ reliable \in BOOLEAN
  /\ queue \in Seq(Commands)
  /\ busy \in Commands \cup {NoCmd}
  /\ asked \in Places
  /\ rig = [f |-> rig.f, m |-> rig.m, p |-> rig.p, split |-> rig.split, keyed |-> rig.keyed]
  /\ current = [f |-> current.f, m |-> current.m, p |-> current.p]
  /\ rig.f \in Places

\* Every command is dropped when the worker is stopped.
StoppedIsEmpty == ~running => queue = <<>> /\ busy = NoCmd

UrgentFirst(q) == \A i, j \in 1..Len(q) : i < j /\ IsUrgent(q[j]) => IsUrgent(q[i])

\* A PTT command on its way meets the frequency it was given with.
PttMeets(q, now) ==
  \A i \in 1..Len(q) : q[i].op = "ptt" /\ q[i].at # Unset => InForce(q, i, now, q[i].at)

\* What the worker believes of the frequency is what the radio is on.
Followed == current.f \in {rig.f, Unset}

Queued ==
  /\ PttMeets(queue, Now(busy, rig.f))
  /\ running /\ asked # Unset => InForce(queue, Len(queue) + 1, Now(busy, rig.f), asked)
  /\ busy.op = "ptt" /\ busy.at # Unset => rig.f = busy.at

HamlibInv == HamlibTypeOK /\ StoppedIsEmpty /\ UrgentFirst(queue) /\ (reliable => Followed /\ Queued)

-----------------------------------------------------------------------------
(* The commands and the queue. *)

\* What a command carries, by its operation.
LEMMA CommandShape ==
  ASSUME NEW c \in Commands \cup {NoCmd}
  PROVE  /\ c.op = "channel" => c.ch \in Channels /\ c.ch.f \in Freqs
         /\ c.op = "frequency" => c.f \in Freqs
         /\ c.op = "ptt" => c.at \in Places
         /\ c = NoCmd => ~Retunes(c)
         /\ c # NoCmd => c \in Commands
         /\ Retunes(c) => IsUrgent(c) /\ FreqOf(c) \in Freqs
         /\ c.op = "ptt" => IsUrgent(c)
BY HamlibAssumption DEF Commands, NoCmd, Retunes, IsUrgent, FreqOf, Tunes, Places

\* A set of positions has a first one.
LEMMA SmallestIndex ==
  ASSUME NEW T \in SUBSET Nat, T # {}
  PROVE  \E m \in T : \A k \in T : m <= k
<1> DEFINE R == {ss \in Nat \X Nat : ss[1] < ss[2]}
<1>1. IsWellFoundedOn(R, Nat)
  BY NatLessThanWellFounded DEF OpToRel
<1> HIDE DEF R
<1>2. PICK m \in T : \A k \in T : <<k, m>> \notin R
  BY <1>1, WFMin
<1>3. \A k \in T : ~(k < m)
  BY <1>2 DEF R
<1>4. QED BY <1>2, <1>3

\* The place of an urgent command: behind all that are urgent.
LEMMA FirstNonUrgentIs ==
  ASSUME NEW q \in Seq(Commands), UrgentFirst(q)
  PROVE  /\ FirstNonUrgent(q) \in 1..(Len(q) + 1)
         /\ \A i \in 1..(FirstNonUrgent(q) - 1) : IsUrgent(q[i])
         /\ \A i \in FirstNonUrgent(q)..Len(q) : ~IsUrgent(q[i])
<1> DEFINE later == {i \in DOMAIN q : ~IsUrgent(q[i])}
<1>0. DOMAIN q = 1..Len(q) /\ Len(q) \in Nat
  OBVIOUS
<1>1. CASE later = {}
  BY <1>0, <1>1 DEF FirstNonUrgent
<1>2. CASE later # {}
  <2>1. \E i \in later : \A j \in later : i <= j
    <3>1. later \in SUBSET Nat
      BY <1>0
    <3>2. QED BY <1>2, <3>1, SmallestIndex
  <2>2. FirstNonUrgent(q) = CHOOSE i \in later : \A j \in later : i <= j
    BY <1>2 DEF FirstNonUrgent
  <2>3. FirstNonUrgent(q) \in later /\ \A j \in later : FirstNonUrgent(q) <= j
    BY <2>1, <2>2
  <2> HIDE DEF later
  <2>4. QED BY <1>0, <2>3 DEF UrgentFirst, later
<1>3. QED BY <1>1, <1>2

\* A command is put in at one place and shifts those behind it.
LEMMA EnqueueIs ==
  ASSUME NEW q \in Seq(Commands), UrgentFirst(q), NEW c \in Commands
  PROVE  /\ Enqueue(q, c) \in Seq(Commands)
         /\ Len(Enqueue(q, c)) = Len(q) + 1
         /\ UrgentFirst(Enqueue(q, c))
         /\ \E n \in 1..(Len(q) + 1) :
              /\ Enqueue(q, c)[n] = c
              /\ \A i \in 1..(n - 1) : Enqueue(q, c)[i] = q[i]
              /\ \A i \in n..Len(q) : Enqueue(q, c)[i + 1] = q[i] /\ ~IsUrgent(q[i])
<1> DEFINE n == IF IsUrgent(c) THEN FirstNonUrgent(q) ELSE Len(q) + 1
           e == Enqueue(q, c)
<1>1. /\ n \in 1..(Len(q) + 1)
      /\ \A i \in 1..(n - 1) : IsUrgent(c) => IsUrgent(q[i])
      /\ \A i \in n..Len(q) : ~IsUrgent(q[i])
  BY FirstNonUrgentIs
<1>2. /\ e \in Seq(Commands) /\ Len(e) = Len(q) + 1 /\ e[n] = c
      /\ \A i \in 1..(n - 1) : e[i] = q[i]
      /\ \A i \in n..Len(q) : e[i + 1] = q[i]
  <2>1. CASE ~IsUrgent(c)
    BY <2>1, AppendProperties DEF Enqueue
  <2>2. CASE IsUrgent(c)
    <3> DEFINE s1 == SubSeq(q, 1, n - 1)
               s2 == SubSeq(q, n, Len(q))
    <3> HIDE DEF n
    <3>1. /\ s1 \in Seq(Commands) /\ Len(s1) = n - 1
          /\ \A i \in 1..(n - 1) : s1[i] = q[i]
      BY <1>1, SubSeqProperties
    <3>2. /\ s2 \in Seq(Commands) /\ Len(s2) = Len(q) - n + 1
          /\ \A i \in 1..(Len(q) - n + 1) : s2[i] = q[n + i - 1]
      BY <1>1, SubSeqProperties
    <3>3. e = s1 \o <<c>> \o s2
      BY <2>2 DEF Enqueue, InsertAt, n
    <3> HIDE DEF s1, s2, e
    <3> DEFINE t == s1 \o <<c>>
    <3>4. /\ t \in Seq(Commands) /\ Len(t) = n
          /\ \A i \in 1..(n - 1) : t[i] = q[i]
          /\ t[n] = c
      <4>1. /\ <<c>> \in Seq(Commands) /\ Len(<<c>>) = 1 /\ <<c>>[1] = c
        OBVIOUS
      <4>2. QED BY <1>1, <3>1, <4>1, ConcatProperties, SMTT(30)
    <3> HIDE DEF t
    <3>5. e = t \o s2
      BY <3>3 DEF t
    <3>6. /\ e \in Seq(Commands) /\ Len(e) = Len(q) + 1
          /\ \A i \in 1..(Len(q) + 1) : e[i] = IF i <= n THEN t[i] ELSE s2[i - n]
      <4>1. /\ e \in Seq(Commands) /\ Len(e) = Len(t) + Len(s2)
            /\ \A i \in 1..(Len(t) + Len(s2)) :
                  e[i] = IF i <= Len(t) THEN t[i] ELSE s2[i - Len(t)]
        BY <3>2, <3>4, <3>5, ConcatProperties
      <4>2. Len(t) = n /\ Len(t) + Len(s2) = Len(q) + 1
        BY <1>1, <3>2, <3>4
      <4>3. QED BY <4>1, <4>2
    <3>7. ASSUME NEW i \in n..Len(q) PROVE e[i + 1] = q[i]
      <4>1. i + 1 \in 1..(Len(q) + 1) /\ ~(i + 1 <= n) /\ (i + 1) - n \in 1..(Len(q) - n + 1)
        BY <1>1
      <4>2. s2[(i + 1) - n] = q[n + ((i + 1) - n) - 1]
        BY <3>2, <4>1
      <4>3. n + ((i + 1) - n) - 1 = i
        BY <1>1
      <4>4. QED BY <3>6, <4>1, <4>2, <4>3
    <3>8. QED BY <1>1, <3>4, <3>6, <3>7
  <2>3. QED BY <2>1, <2>2
<1> HIDE DEF n, e
<1>3. UrgentFirst(e)
  <2> SUFFICES ASSUME NEW i \in 1..(Len(q) + 1), NEW j \in 1..(Len(q) + 1),
                      i < j, IsUrgent(e[j])
               PROVE  IsUrgent(e[i])
    BY <1>2 DEF UrgentFirst
  <2>1. CASE j > n
    <3>1. j - 1 \in n..Len(q) /\ (j - 1) + 1 = j
      BY <1>1, <2>1
    <3>2. QED BY <1>1, <1>2, <3>1
  <2>2. CASE j = n
    BY <1>1, <1>2, <2>2 DEF n
  <2>3. CASE j < n
    <3>1. i \in 1..Len(q) /\ j \in 1..Len(q) /\ e[i] = q[i] /\ e[j] = q[j]
      BY <1>1, <1>2, <2>3
    <3>2. QED BY <3>1 DEF UrgentFirst
  <2>4. QED BY <1>1, <2>1, <2>2, <2>3
<1>4. QED BY <1>1, <1>2, <1>3 DEF e

-----------------------------------------------------------------------------
(* The frequency in force at a position of the queue. *)

\* It depends on the commands before the position only.
LEMMA InForceSame ==
  ASSUME NEW q, NEW e, NEW i \in Nat, NEW now, NEW f,
         \A j \in 1..(i - 1) : e[j] = q[j], InForce(q, i, now, f)
  PROVE  InForce(e, i, now, f)
BY DEF InForce

\* Commands that do not retune leave it.
LEMMA InForceBehind ==
  ASSUME NEW q, NEW i \in Nat, NEW k \in Nat, i <= k, NEW now, NEW f,
         \A j \in i..(k - 1) : ~Retunes(q[j])
  PROVE  InForce(q, i, now, f) <=> InForce(q, k, now, f)
<1>1. InForce(q, i, now, f) => InForce(q, k, now, f)
  BY DEF InForce
<1>2. InForce(q, k, now, f) => InForce(q, i, now, f)
  BY DEF InForce
<1>3. QED BY <1>1, <1>2

\* When the worker takes the first command, the rest is as it was behind it.
LEMMA InForceTaken ==
  ASSUME NEW q \in Seq(Commands), q # <<>>, NEW i \in 1..Len(q), NEW now, NEW f,
         InForce(q, i + 1, now, f)
  PROVE  InForce(Tail(q), i, Now(Head(q), now), f)
<1>1. /\ Len(Tail(q)) = Len(q) - 1 /\ Len(q) \in Nat /\ Head(q) = q[1]
      /\ \A j \in 1..(i - 1) : Tail(q)[j] = q[j + 1]
  BY HeadTailProperties
<1>2. CASE \A j \in 1..i : ~Retunes(q[j])
  <2>1. now = f /\ ~Retunes(Head(q))
    BY <1>1, <1>2 DEF InForce
  <2>2. \A j \in 1..(i - 1) : ~Retunes(Tail(q)[j])
    BY <1>1, <1>2
  <2>3. QED BY <2>1, <2>2 DEF InForce, Now
<1>3. CASE \E j \in 1..i : Retunes(q[j])
  <2>1. PICK j \in 1..i : /\ Retunes(q[j]) /\ FreqOf(q[j]) = f
                          /\ \A k \in (j + 1)..i : ~Retunes(q[k])
    BY <1>3 DEF InForce
  <2>2. CASE j = 1
    <3>1. \A k \in 1..(i - 1) : ~Retunes(Tail(q)[k])
      BY <1>1, <2>1, <2>2
    <3>2. Now(Head(q), now) = f
      BY <1>1, <2>1, <2>2 DEF Now
    <3>3. QED BY <3>1, <3>2 DEF InForce
  <2>3. CASE j # 1
    <3>1. j - 1 \in 1..(i - 1) /\ Tail(q)[j - 1] = q[j]
      BY <1>1, <2>3
    <3>2. \A k \in ((j - 1) + 1)..(i - 1) : ~Retunes(Tail(q)[k])
      BY <1>1, <2>1, <2>3
    <3>3. QED BY <2>1, <3>1, <3>2 DEF InForce
  <2>4. QED BY <2>2, <2>3
<1>4. QED BY <1>2, <1>3

\* A PTT command that is queued is given the frequency asked for last, and
\* finds it in force; the commands that were there keep theirs.
LEMMA EnqueueMeets ==
  ASSUME NEW q \in Seq(Commands), UrgentFirst(q), NEW c \in Commands, NEW now,
         NEW was, NEW is, PttMeets(q, now),
         was # Unset => InForce(q, Len(q) + 1, now, was),
         c.op = "ptt" => c.at = was,
         is = IF Retunes(c) THEN FreqOf(c) ELSE was
  PROVE  /\ PttMeets(Enqueue(q, c), now)
         /\ is # Unset => InForce(Enqueue(q, c), Len(Enqueue(q, c)) + 1, now, is)
<1> DEFINE e == Enqueue(q, c)
<1>1. e \in Seq(Commands) /\ Len(e) = Len(q) + 1 /\ Len(q) \in Nat
  BY EnqueueIs
<1>2. PICK n \in 1..(Len(q) + 1) :
        /\ e[n] = c
        /\ \A i \in 1..(n - 1) : e[i] = q[i]
        /\ \A i \in n..Len(q) : e[i + 1] = q[i] /\ ~IsUrgent(q[i])
  BY EnqueueIs
<1> HIDE DEF e
<1>3. \A i \in n..Len(q) : ~Retunes(q[i]) /\ q[i].op # "ptt"
  BY <1>2 DEF Retunes, IsUrgent, Tunes
<1>4. ASSUME was # Unset PROVE InForce(e, n, now, was)
  <2>1. InForce(q, Len(q) + 1, now, was)
    BY <1>4
  <2>2. InForce(q, n, now, was)
    BY <1>1, <1>3, <2>1, InForceBehind
  <2>3. QED BY <1>2, <2>2, InForceSame
<1>5. ASSUME NEW i \in 1..(Len(q) + 1), e[i].op = "ptt", e[i].at # Unset
      PROVE  InForce(e, i, now, e[i].at)
  <2>1. CASE i < n
    <3>0. i \in 1..Len(q) /\ i \in Nat /\ i \in 1..(n - 1) /\ 1..(i - 1) \subseteq 1..(n - 1)
      BY <1>1, <2>1
    <3>1. e[i] = q[i] /\ \A j \in 1..(i - 1) : e[j] = q[j]
      BY <1>2, <3>0
    <3>2. InForce(q, i, now, q[i].at)
      BY <1>5, <3>0, <3>1 DEF PttMeets
    <3>3. QED BY <3>0, <3>1, <3>2, InForceSame
  <2>2. CASE i = n
    BY <1>2, <1>4, <1>5, <2>2
  <2>3. CASE i > n
    <3>1. i - 1 \in n..Len(q) /\ (i - 1) + 1 = i
      BY <1>1, <2>3
    <3>2. QED BY <1>2, <1>3, <1>5, <3>1
  <2>4. QED BY <1>1, <2>1, <2>2, <2>3
<1>6. ASSUME is # Unset PROVE InForce(e, Len(q) + 2, now, is)
  <2>1. \A j \in (n + 1)..(Len(q) + 1) : ~Retunes(e[j])
    <3>1. SUFFICES ASSUME NEW j \in (n + 1)..(Len(q) + 1) PROVE ~Retunes(e[j])
      OBVIOUS
    <3>2. j - 1 \in n..Len(q) /\ (j - 1) + 1 = j
      BY <1>1
    <3>3. QED BY <1>2, <1>3, <3>2
  <2>2. CASE Retunes(c)
    BY <1>1, <1>2, <2>1, <2>2 DEF InForce
  <2>3. CASE ~Retunes(c)
    <3>1. \A j \in n..((Len(q) + 2) - 1) : ~Retunes(e[j])
      BY <1>1, <1>2, <2>1, <2>3
    <3>2. InForce(e, n, now, is)
      BY <1>4, <1>6, <2>3
    <3>3. QED BY <1>1, <3>1, <3>2, InForceBehind
  <2>4. QED BY <2>2, <2>3
<1>7. QED BY <1>1, <1>5, <1>6 DEF PttMeets, e

-----------------------------------------------------------------------------
(* The steps. *)

\* The program starts with the worker stopped.
LEMMA HamlibInvInit == HamlibInit => HamlibInv
<1> SUFFICES ASSUME HamlibInit PROVE HamlibInv
  OBVIOUS
<1>0. <<>> \in Seq(Commands)
  OBVIOUS
<1>1. HamlibTypeOK
  BY <1>0 DEF HamlibInit, HamlibTypeOK, EmptyChannel, Places
<1>2. StoppedIsEmpty /\ UrgentFirst(queue) /\ Followed
  BY DEF HamlibInit, StoppedIsEmpty, UrgentFirst, Followed, EmptyChannel
<1>3. Queued
  BY DEF HamlibInit, Queued, PttMeets, NoCmd
<1>4. QED BY <1>1, <1>2, <1>3 DEF HamlibInv

\* A command of the main thread, which may retune, key or neither.
LEMMA IssueKeeps ==
  ASSUME HamlibInv, NEW c \in Commands, Issue(c),
         c.op = "ptt" => c.at = asked,
         asked' = IF Retunes(c) THEN FreqOf(c) ELSE asked
  PROVE  HamlibInv'
<1>1. /\ UNCHANGED <<running, busy, current, rig, reliable>>
      /\ queue' = IF running THEN Enqueue(queue, c) ELSE queue
  BY DEF Issue
<1>2. queue \in Seq(Commands) /\ UrgentFirst(queue)
  BY DEF HamlibInv, HamlibTypeOK
<1>3. asked' \in Places
  BY CommandShape DEF HamlibInv, HamlibTypeOK, Places
<1>4. CASE running
  <2>1. queue' = Enqueue(queue, c)
    BY <1>1, <1>4
  <2>2. queue' \in Seq(Commands) /\ UrgentFirst(queue')
    BY <1>2, <2>1, EnqueueIs
  <2>3. HamlibTypeOK' /\ StoppedIsEmpty'
    BY <1>1, <1>3, <1>4, <2>2 DEF HamlibInv, HamlibTypeOK, StoppedIsEmpty
  <2>4. ASSUME reliable PROVE Queued'
    <3>1. /\ PttMeets(queue, Now(busy, rig.f))
          /\ asked # Unset => InForce(queue, Len(queue) + 1, Now(busy, rig.f), asked)
      BY <1>4, <2>4 DEF HamlibInv, Queued
    <3>2. /\ PttMeets(queue', Now(busy, rig.f))
          /\ asked' # Unset => InForce(queue', Len(queue') + 1, Now(busy, rig.f), asked')
      BY <1>2, <2>1, <3>1, EnqueueMeets
    <3>3. QED BY <1>1, <2>4, <3>2 DEF Queued, HamlibInv
  <2>5. QED BY <1>1, <2>2, <2>3, <2>4 DEF HamlibInv, Followed
<1>5. CASE ~running
  BY <1>1, <1>3, <1>5 DEF HamlibInv, HamlibTypeOK, StoppedIsEmpty, Followed, Queued
<1>6. QED BY <1>4, <1>5 DEF HamlibInv, HamlibTypeOK

\* The main thread.
LEMMA MainKeeps == HamlibInv /\ HamlibMain => HamlibInv'
<1> SUFFICES ASSUME HamlibInv, HamlibMain PROVE HamlibInv'
  OBVIOUS
<1>1. ASSUME NEW ch \in Channels, SetChannel(ch) PROVE HamlibInv'
  <2> DEFINE c == [op |-> "channel", ch |-> ch]
  <2>1. c \in Commands /\ Retunes(c) /\ FreqOf(c) = ch.f /\ c.op # "ptt"
    BY DEF Commands, Retunes, FreqOf
  <2>2. Issue(c) /\ asked' = ch.f
    BY <1>1 DEF SetChannel
  <2> HIDE DEF c
  <2>3. QED BY <2>1, <2>2, IssueKeeps
<1>2. ASSUME NEW f \in Freqs, SetFrequency(f) PROVE HamlibInv'
  <2> DEFINE c == [op |-> "frequency", f |-> f]
  <2>1. c \in Commands /\ Retunes(c) /\ FreqOf(c) = f /\ c.op # "ptt"
    BY DEF Commands, Retunes, FreqOf
  <2>2. Issue(c) /\ asked' = f
    BY <1>2 DEF SetFrequency
  <2> HIDE DEF c
  <2>3. QED BY <2>1, <2>2, IssueKeeps
<1>3. ASSUME NEW m \in Modes, SetMode(m) PROVE HamlibInv'
  <2> DEFINE c == [op |-> "mode", m |-> m]
  <2>1. c \in Commands /\ ~Retunes(c) /\ c.op # "ptt"
    BY DEF Commands, Retunes
  <2>2. Issue(c) /\ asked' = asked
    BY <1>3 DEF SetMode
  <2> HIDE DEF c
  <2>3. QED BY <2>1, <2>2, IssueKeeps
<1>4. ASSUME NEW p \in Powers, SetPower(p) PROVE HamlibInv'
  <2> DEFINE c == [op |-> "power", p |-> p]
  <2>1. c \in Commands /\ ~Retunes(c) /\ c.op # "ptt"
    BY DEF Commands, Retunes
  <2>2. Issue(c) /\ asked' = asked
    BY <1>4 DEF SetPower
  <2> HIDE DEF c
  <2>3. QED BY <2>1, <2>2, IssueKeeps
<1>5. ASSUME NEW on \in BOOLEAN, SetPtt(on) PROVE HamlibInv'
  <2> DEFINE c == [op |-> "ptt", on |-> on, at |-> asked]
  <2>1. c \in Commands /\ ~Retunes(c) /\ c.at = asked
    BY DEF Commands, Retunes, HamlibInv, HamlibTypeOK, Places
  <2>2. Issue(c) /\ asked' = asked
    BY <1>5 DEF SetPtt
  <2> HIDE DEF c
  <2>3. QED BY <2>1, <2>2, IssueKeeps
<1>6. CASE SyncFromRadio
  <2>1. [op |-> "sync"] \in Commands /\ ~Retunes([op |-> "sync"])
    BY DEF Commands, Retunes
  <2>2. Issue([op |-> "sync"]) /\ asked' = asked
    BY <1>6 DEF SyncFromRadio
  <2>3. QED BY <2>1, <2>2, IssueKeeps
<1>7. CASE Flush
  <2>1. [op |-> "flush"] \in Commands /\ ~Retunes([op |-> "flush"])
    BY DEF Commands, Retunes
  <2>2. Issue([op |-> "flush"]) /\ asked' = asked
    BY <1>7 DEF Flush
  <2>3. QED BY <2>1, <2>2, IssueKeeps
<1>8. CASE Start
  <2>1. /\ running' /\ asked' = Unset /\ current' = EmptyChannel
        /\ UNCHANGED <<queue, busy, rig, reliable>>
        /\ queue = <<>> /\ busy = NoCmd
    BY <1>8 DEF Start, HamlibInv, StoppedIsEmpty
  <2>2. HamlibTypeOK'
    BY <2>1 DEF HamlibInv, HamlibTypeOK, EmptyChannel, Places
  <2>3. StoppedIsEmpty' /\ UrgentFirst(queue)' /\ Followed'
    BY <2>1 DEF StoppedIsEmpty, UrgentFirst, Followed, EmptyChannel
  <2>4. Queued'
    BY <2>1 DEF Queued, PttMeets, NoCmd
  <2>5. QED BY <2>2, <2>3, <2>4 DEF HamlibInv
<1>9. CASE Stop
  <2>1. running' = FALSE /\ queue' = <<>> /\ busy = NoCmd /\ UNCHANGED <<busy, current, rig, reliable, asked>>
    BY <1>9 DEF Stop
  <2>0. <<>> \in Seq(Commands)
    OBVIOUS
  <2>2. HamlibTypeOK'
    BY <2>0, <2>1 DEF HamlibInv, HamlibTypeOK
  <2>3. StoppedIsEmpty' /\ UrgentFirst(queue)' /\ (reliable => Followed')
    BY <2>1 DEF StoppedIsEmpty, UrgentFirst, Followed, HamlibInv
  <2>4. Queued'
    BY <2>1 DEF Queued, PttMeets, NoCmd
  <2>5. QED BY <2>1, <2>2, <2>3, <2>4 DEF HamlibInv
<1>10. QED BY <1>1, <1>2, <1>3, <1>4, <1>5, <1>6, <1>7, <1>8, <1>9 DEF HamlibMain

\* The worker takes a command: what it retunes to is in force for the rest.
LEMMA TakeKeeps == HamlibInv /\ Take => HamlibInv'
<1> SUFFICES ASSUME HamlibInv, Take PROVE HamlibInv'
  OBVIOUS
<1>1. /\ running /\ busy = NoCmd /\ queue # <<>> /\ queue \in Seq(Commands)
      /\ busy' = Head(queue) /\ queue' = Tail(queue)
      /\ UNCHANGED <<running, current, rig, reliable, asked>>
  BY DEF Take, HamlibInv, HamlibTypeOK
<1>2. /\ Head(queue) = queue[1] /\ Head(queue) \in Commands /\ Tail(queue) \in Seq(Commands)
      /\ Len(Tail(queue)) = Len(queue) - 1 /\ Len(queue) \in Nat \ {0}
      /\ \A i \in 1..(Len(queue) - 1) : Tail(queue)[i] = queue[i + 1]
  BY <1>1, HeadTailProperties
<1>3. HamlibTypeOK' /\ StoppedIsEmpty'
  BY <1>1, <1>2 DEF HamlibInv, HamlibTypeOK, StoppedIsEmpty
<1>4. UrgentFirst(queue')
  BY <1>1, <1>2 DEF HamlibInv, UrgentFirst
<1>5. ASSUME reliable PROVE Queued'
  <2>1. /\ Now(busy, rig.f) = rig.f /\ PttMeets(queue, rig.f)
        /\ asked # Unset => InForce(queue, Len(queue) + 1, rig.f, asked)
    BY <1>1, <1>5, CommandShape DEF HamlibInv, Queued, Now
  <2>2. PttMeets(queue', Now(busy', rig'.f))
    <3> SUFFICES ASSUME NEW i \in 1..(Len(queue) - 1), queue'[i].op = "ptt", queue'[i].at # Unset
                 PROVE  InForce(queue', i, Now(busy', rig'.f), queue'[i].at)
      BY <1>1, <1>2 DEF PttMeets
    <3>1. i \in 1..Len(queue) /\ i + 1 \in 1..Len(queue) /\ queue'[i] = queue[i + 1]
      BY <1>1, <1>2
    <3>2. InForce(queue, i + 1, rig.f, queue[i + 1].at)
      BY <2>1, <3>1 DEF PttMeets
    <3>3. QED BY <1>1, <3>1, <3>2, InForceTaken
  <2>3. asked' # Unset => InForce(queue', Len(queue') + 1, Now(busy', rig'.f), asked')
    BY <1>1, <1>2, <2>1, InForceTaken
  <2>4. busy'.op = "ptt" /\ busy'.at # Unset => rig'.f = busy'.at
    BY <1>1, <1>2, <2>1 DEF PttMeets, InForce
  <2>5. QED BY <2>2, <2>3, <2>4 DEF Queued
<1>6. QED BY <1>1, <1>3, <1>4, <1>5 DEF HamlibInv, Followed

\* What a CAT call does to the frequency: all that was asked of a radio that
\* obeys.
LEMMA OutcomesAre ==
  ASSUME reliable, NEW o \in Outcomes
  PROVE  o.ok /\ o.done
BY DEF Outcomes

\* The worker's calls leave an obedient radio on the frequency of the command,
\* or where it was, and the worker knows.
LEMMA DispatchRetunes ==
  ASSUME HamlibInv, Dispatch
  PROVE  /\ rig' = [f |-> rig'.f, m |-> rig'.m, p |-> rig'.p, split |-> rig'.split,
                    keyed |-> rig'.keyed]
         /\ current' = [f |-> current'.f, m |-> current'.m, p |-> current'.p]
         /\ rig'.f \in Places
         /\ reliable => rig'.f = Now(busy, rig.f) /\ current'.f \in {rig'.f, Unset}
<1>1. /\ rig = [f |-> rig.f, m |-> rig.m, p |-> rig.p, split |-> rig.split, keyed |-> rig.keyed]
      /\ current = [f |-> current.f, m |-> current.m, p |-> current.p]
      /\ rig.f \in Places /\ busy \in Commands
      /\ reliable => current.f \in {rig.f, Unset}
  BY CommandShape DEF HamlibInv, HamlibTypeOK, Followed, Dispatch, Finish
<1>2. CASE busy.op = "channel" /\ DoSetChannel(busy.ch)
  <2>0. busy.ch \in Channels /\ busy.ch.f \in Freqs /\ Now(busy, rig.f) = busy.ch.f
    BY <1>1, <1>2, CommandShape DEF Now, Retunes, FreqOf
  <2>1. busy.ch = [f |-> busy.ch.f, m |-> busy.ch.m, p |-> busy.ch.p] /\ busy.ch.f # Unset
    BY <2>0, HamlibAssumption
  <2>2. PICK os \in Outcomes, of \in Outcomes, om \in Outcomes, op \in Outcomes :
          /\ current' = [busy.ch EXCEPT
                 !.p = IF busy.ch.p # current.p /\ ~op.ok THEN current.p ELSE busy.ch.p]
          /\ rig' = [ArmedRig(os) EXCEPT
                 !.f = IF busy.ch.f # current.f THEN Apply(of, busy.ch.f, @) ELSE @,
                 !.m = IF busy.ch.m # lastMode THEN Apply(om, ToRig[busy.ch.m], @) ELSE @,
                 !.p = IF busy.ch.p # current.p THEN Apply(op, busy.ch.p, @) ELSE @]
    BY <1>2, ZenonT(60) DEF DoSetChannel, Apply
  <2> DEFINE armed == ArmedRig(os)
  <2>3. PICK s : armed = [f |-> rig.f, m |-> rig.m, p |-> rig.p, split |-> s, keyed |-> rig.keyed]
    <3>1. PICK s : armed = [rig EXCEPT !.split = s]
      BY DEF ArmedRig
    <3>2. QED BY <1>1, <3>1
  <2> HIDE DEF armed
  <2>4. /\ current' = [f |-> busy.ch.f, m |-> current'.m, p |-> current'.p]
        /\ rig' = [f |-> rig'.f, m |-> rig'.m, p |-> rig'.p, split |-> rig'.split,
                   keyed |-> rig'.keyed]
        /\ rig'.f = IF busy.ch.f # current.f THEN Apply(of, busy.ch.f, rig.f) ELSE rig.f
    <3>1. current' = [f |-> busy.ch.f, m |-> current'.m, p |-> current'.p]
      BY <2>1, <2>2
    <3>2. \E f1, m1, p1 : /\ rig' = [armed EXCEPT !.f = f1, !.m = m1, !.p = p1]
                          /\ f1 = IF busy.ch.f # current.f THEN Apply(of, busy.ch.f, armed.f) ELSE armed.f
      BY <2>2, Zenon DEF armed
    <3>3. QED BY <2>3, <3>1, <3>2
  <2>5. reliable => rig'.f = busy.ch.f
    BY <1>1, <2>1, <2>4, OutcomesAre DEF Apply
  <2>6. rig'.f \in Places
    BY <1>1, <2>0, <2>4 DEF Apply, Places
  <2>7. QED BY <2>0, <2>4, <2>5, <2>6
<1>3. CASE busy.op = "frequency" /\ DoSetFrequency(busy.f)
  <2>0. busy.f \in Freqs /\ Now(busy, rig.f) = busy.f
    BY <1>1, <1>3, CommandShape DEF Now, Retunes, FreqOf
  <2>1. PICK os \in Outcomes, of \in Outcomes :
          /\ current' = [current EXCEPT !.f = busy.f]
          /\ \E m1 : rig' = [ArmedRig(os) EXCEPT !.f = Apply(of, busy.f, @), !.m = m1]
    BY <1>3 DEF DoSetFrequency
  <2>2. PICK s : ArmedRig(os) = [rig EXCEPT !.split = s]
    BY DEF ArmedRig
  <2>3. /\ current' = [f |-> busy.f, m |-> current'.m, p |-> current'.p]
        /\ rig' = [f |-> rig'.f, m |-> rig'.m, p |-> rig'.p, split |-> rig'.split,
                   keyed |-> rig'.keyed]
        /\ rig'.f = Apply(of, busy.f, rig.f)
    BY <1>1, <2>1, <2>2
  <2>4. reliable => rig'.f = busy.f
    BY <2>3, OutcomesAre DEF Apply
  <2>5. rig'.f \in Places
    BY <1>1, <2>0, <2>3 DEF Apply, Places
  <2>6. QED BY <2>0, <2>3, <2>4, <2>5
<1>4. CASE busy.op = "mode" /\ DoSetMode(busy.m)
  <2>1. \E m1 : current' = [current EXCEPT !.m = busy.m] /\ rig' = [rig EXCEPT !.m = m1]
    BY <1>4 DEF DoSetMode
  <2>2. QED BY <1>1, <1>4, <2>1 DEF Now, Retunes
<1>5. CASE busy.op = "power" /\ DoSetPower(busy.p)
  <2>1. /\ current' \in {current, [current EXCEPT !.p = busy.p]}
        /\ \E p1 : rig' = [rig EXCEPT !.p = p1]
    BY <1>5 DEF DoSetPower
  <2>2. QED BY <1>1, <1>5, <2>1 DEF Now, Retunes
<1>6. CASE busy.op = "ptt" /\ DoSetPtt(busy.on)
  <2>1. /\ current' = current
        /\ \E k, s : rig' = [rig EXCEPT !.keyed = k, !.split = s]
    BY <1>6 DEF DoSetPtt
  <2>2. QED BY <1>1, <1>6, <2>1 DEF Now, Retunes
<1>7. CASE busy.op = "sync" /\ DoSync
  <2>1. CASE UNCHANGED <<current, rig>>
    BY <1>1, <1>7, <2>1 DEF Now, Retunes
  <2>2. CASE /\ current' = [current EXCEPT !.f = rig.f, !.p = rig.p]
             /\ rig' = rig \/ \E m1 : rig' = [rig EXCEPT !.m = m1]
    BY <1>1, <1>7, <2>2 DEF Now, Retunes
  <2>3. QED BY <1>7, <2>1, <2>2 DEF DoSync
<1>8. CASE busy.op = "flush" /\ UNCHANGED <<current, rig>>
  BY <1>1, <1>8 DEF Now, Retunes
<1>9. QED BY <1>2, <1>3, <1>4, <1>5, <1>6, <1>7, <1>8 DEF Dispatch

\* The worker is done with a command.
LEMMA DispatchKeeps == HamlibInv /\ Dispatch => HamlibInv'
<1> SUFFICES ASSUME HamlibInv, Dispatch PROVE HamlibInv'
  OBVIOUS
<1>1. busy' = NoCmd /\ UNCHANGED <<running, queue, reliable, asked>>
  BY DEF Dispatch, Finish
<1>2. Now(busy', rig'.f) = rig'.f /\ busy'.op # "ptt"
  BY <1>1 DEF NoCmd, Now, Retunes
<1>3. HamlibTypeOK'
  BY <1>1, DispatchRetunes DEF HamlibInv, HamlibTypeOK
<1>4. StoppedIsEmpty' /\ UrgentFirst(queue)'
  BY <1>1 DEF HamlibInv, StoppedIsEmpty
<1>5. reliable => Followed'
  BY DispatchRetunes DEF Followed
<1>6. reliable => Queued'
  BY <1>1, <1>2, DispatchRetunes DEF HamlibInv, Queued
<1>7. QED BY <1>1, <1>3, <1>4, <1>5, <1>6 DEF HamlibInv

\* The clock, and a hand at the front panel of a radio that is not left alone.
LEMMA WorldKeeps == HamlibInv /\ (WindowExpires \/ FrontPanel \/ UNCHANGED hvars) => HamlibInv'
<1> SUFFICES ASSUME HamlibInv, WindowExpires \/ FrontPanel \/ UNCHANGED hvars
             PROVE  HamlibInv'
  OBVIOUS
<1>1. CASE FrontPanel
  <2>1. /\ UNCHANGED <<running, queue, busy, current, reliable, asked>> /\ ~reliable
        /\ \E f \in Freqs : \E m : rig' = [rig EXCEPT !.f = f, !.m = m]
    BY <1>1 DEF FrontPanel
  <2>2. HamlibTypeOK'
    BY <2>1 DEF HamlibInv, HamlibTypeOK, Places
  <2>3. QED BY <2>1, <2>2 DEF HamlibInv, StoppedIsEmpty
<1>2. CASE WindowExpires \/ UNCHANGED hvars
  <2>1. UNCHANGED <<running, queue, busy, current, reliable, asked, rig>>
    BY <1>2 DEF WindowExpires, hvars
  <2>2. QED BY <2>1 DEF HamlibInv, HamlibTypeOK, StoppedIsEmpty, Followed, Queued
<1>3. QED BY <1>1, <1>2

\* With a radio that obeys and that nobody retunes by hand, set_ptt(true) keys
\* the transmitter on the frequency that was requested before it, whatever is
\* queued before and behind, taken or dropped by a stop.
THEOREM KeysWhereAsked == HamlibSpec => KeyedWhereAsked
<1>1. HamlibInv /\ [HamlibNext]_hvars => HamlibInv'
  BY MainKeeps, TakeKeeps, DispatchKeeps, WorldKeeps DEF HamlibNext
<1>2. HamlibInv => [ (reliable /\ busy.op = "ptt" /\ busy' = NoCmd /\ busy.on /\ busy.at # Unset)
                       => rig.f = busy.at ]_hvars
  BY DEF HamlibInv, Queued
<1>3. QED BY <1>1, <1>2, HamlibInvInit, PTL DEF HamlibSpec, KeyedWhereAsked
=============================================================================
