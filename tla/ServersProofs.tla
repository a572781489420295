---------------------------- MODULE ServersProofs ----------------------------
(***************************************************************************)
(* The two servers of the bridge: what a client asks is answered, in the   *)
(* order it was asked, once and whole, for every number of clients, of     *)
(* places and of lines, whatever the reads and the frames, and whoever     *)
(* comes to the same place later.  Both invariants say of each client      *)
(* that what lies between the two ends of its way is what was put in and   *)
(* not yet taken out (Carries).                                            *)
(*                                                                         *)
(* For the tuner the way is the two queues between the threads; numbers of *)
(* connections are never used again (OldIds), so what is on the way for a  *)
(* client that has left is nobody's.  For the GUI the way begins in the    *)
(* stream of halves of frames, where each message is followed by the next  *)
(* (Between); what is parsed of it is what the fragment holds (Begun).     *)
(***************************************************************************)
EXTENDS TunerServer, GuiServer, SequenceTheorems, TLAPS

-----------------------------------------------------------------------------
(* What is on its way *)

\* Of visitor v, a way carries the lines after h up to e, in their order.
Carries(way, v, h, e) ==
  /\ \A k \in DOMAIN way : way[k][1] = v => way[k] = <<v, v, way[k][3]>> /\ way[k][3] \in (h + 1)..e
  /\ \A n \in (h + 1)..e : \E k \in DOMAIN way : way[k] = <<v, v, n>>
  /\ \A j, k \in DOMAIN way : j < k /\ way[j][1] = v /\ way[k][1] = v => way[j][3] < way[k][3]

\* The head of a way that is another's.
LEMMA CarriesOthers ==
  ASSUME NEW S, NEW way \in Seq(S), way # <<>>, NEW v, NEW h \in Nat, NEW e \in Nat,
         Carries(way, v, h, e), Head(way)[1] # v
  PROVE  Carries(Tail(way), v, h, e)
<1> DEFINE t == Tail(way)
<1>1. /\ t \in Seq(S) /\ Len(t) = Len(way) - 1 /\ Head(way) = way[1]
      /\ \A i \in 1..Len(t) : t[i] = way[i + 1]
  BY HeadTailProperties
<1>2. Len(way) \in Nat /\ Len(t) \in Nat /\ DOMAIN way = 1..Len(way) /\ DOMAIN t = 1..Len(t)
  BY <1>1
<1> HIDE DEF t
<1>3. ASSUME NEW k \in DOMAIN t PROVE k + 1 \in DOMAIN way /\ t[k] = way[k + 1]
  BY <1>1, <1>2
<1>4. \A k \in DOMAIN t : t[k][1] = v => t[k] = <<v, v, t[k][3]>> /\ t[k][3] \in (h + 1)..e
  BY <1>3 DEF Carries
<1>5. ASSUME NEW n \in (h + 1)..e PROVE \E k \in DOMAIN t : t[k] = <<v, v, n>>
  <2>1. PICK k \in DOMAIN way : way[k] = <<v, v, n>>
    BY DEF Carries
  <2>2. way[k][1] = v
    BY <2>1
  <2>3. k # 1
    BY <2>2, <1>1
  <2>4. k - 1 \in DOMAIN t /\ t[k - 1] = way[k]
    BY <2>3, <1>1, <1>2
  <2>5. QED BY <2>1, <2>4
<1>6. ASSUME NEW j \in DOMAIN t, NEW k \in DOMAIN t, j < k, t[j][1] = v, t[k][1] = v
      PROVE  t[j][3] < t[k][3]
  <2>1. j + 1 < k + 1
    BY <1>2, <1>6
  <2>2. QED BY <2>1, <1>3, <1>6 DEF Carries
<1>7. QED BY <1>4, <1>5, <1>6 DEF Carries, t

\* The head of a way that is this visitor's is the next line.
LEMMA CarriesOwn ==
  ASSUME NEW S, NEW way \in Seq(S), way # <<>>, NEW v, NEW h \in Nat, NEW e \in Nat,
         Carries(way, v, h, e), Head(way)[1] = v
  PROVE  Head(way) = <<v, v, h + 1>> /\ h + 1 <= e /\ Carries(Tail(way), v, h + 1, e)
<1> DEFINE t == Tail(way)
<1>1. /\ t \in Seq(S) /\ Len(t) = Len(way) - 1 /\ Head(way) = way[1]
      /\ \A i \in 1..Len(t) : t[i] = way[i + 1]
  BY HeadTailProperties
<1>2. /\ Len(way) \in Nat /\ Len(way) >= 1 /\ Len(t) \in Nat /\ DOMAIN way = 1..Len(way)
      /\ DOMAIN t = 1..Len(t)
  BY <1>1
<1> HIDE DEF t
<1>3. ASSUME NEW k \in DOMAIN t PROVE k + 1 \in DOMAIN way /\ t[k] = way[k + 1] /\ 1 < k + 1
  BY <1>1, <1>2
<1>4. 1 \in DOMAIN way /\ way[1][1] = v
  BY <1>1, <1>2
<1>5. way[1] = <<v, v, way[1][3]>> /\ way[1][3] \in (h + 1)..e
  BY <1>4 DEF Carries
<1>6. way[1][3] = h + 1
  <2>1. h + 1 \in (h + 1)..e
    BY <1>5
  <2>2. PICK k \in DOMAIN way : way[k] = <<v, v, h + 1>>
    BY <2>1 DEF Carries
  <2>3. way[k][1] = v /\ way[k][3] = h + 1
    BY <2>2
  <2>4. k = 1 \/ 1 < k
    BY <1>2
  <2>5. 1 < k => way[1][3] < h + 1
    BY <2>3, <1>4 DEF Carries
  <2>6. QED BY <2>3, <2>4, <2>5, <1>5
<1>7. ASSUME NEW k \in DOMAIN t, t[k][1] = v
      PROVE  t[k] = <<v, v, t[k][3]>> /\ t[k][3] \in (h + 2)..e
  <2>1. way[k + 1] = <<v, v, way[k + 1][3]>> /\ way[k + 1][3] \in (h + 1)..e
    BY <1>3, <1>7 DEF Carries
  <2>2. way[1][3] < way[k + 1][3]
    BY <1>3, <1>4, <1>7 DEF Carries
  <2>3. way[k + 1][3] \in (h + 2)..e
    BY <1>6, <2>1, <2>2
  <2>4. QED BY <1>3, <2>1, <2>3
<1>8. ASSUME NEW n \in (h + 2)..e PROVE \E k \in DOMAIN t : t[k] = <<v, v, n>>
  <2>1. n \in (h + 1)..e
    OBVIOUS
  <2>2. PICK k \in DOMAIN way : way[k] = <<v, v, n>>
    BY <2>1 DEF Carries
  <2>3. way[k][3] = n
    BY <2>2
  <2>4. k # 1
    BY <2>3, <1>6
  <2>5. k - 1 \in DOMAIN t /\ t[k - 1] = way[k]
    BY <2>4, <1>1, <1>2
  <2>6. QED BY <2>2, <2>5
<1>9. ASSUME NEW j \in DOMAIN t, NEW k \in DOMAIN t, j < k, t[j][1] = v, t[k][1] = v
      PROVE  t[j][3] < t[k][3]
  <2>1. j + 1 < k + 1
    BY <1>2, <1>9
  <2>2. QED BY <2>1, <1>3, <1>9, SMTT(30) DEF Carries
<1>10. (h + 1) + 1 = h + 2
  OBVIOUS
<1>11. Carries(t, v, h + 1, e)
  BY <1>7, <1>8, <1>9, <1>10 DEF Carries
<1>12. QED BY <1>1, <1>5, <1>6, <1>11 DEF t

\* Lines of one visitor at the end of a way are nobody else's.
LEMMA CarriesOthersMore ==
  ASSUME NEW S, NEW way \in Seq(S), NEW more \in Seq(S), NEW v, NEW h \in Nat, NEW e \in Nat,
         Carries(way, v, h, e), \A k \in DOMAIN more : more[k][1] # v
  PROVE  Carries(way \o more, v, h, e)
<1> DEFINE all == way \o more
<1>1. /\ all \in Seq(S) /\ Len(all) = Len(way) + Len(more)
      /\ \A i \in 1..(Len(way) + Len(more)) :
           all[i] = IF i <= Len(way) THEN way[i] ELSE more[i - Len(way)]
  BY ConcatProperties
<1>2. /\ Len(way) \in Nat /\ Len(more) \in Nat /\ DOMAIN way = 1..Len(way)
      /\ DOMAIN more = 1..Len(more) /\ DOMAIN all = 1..(Len(way) + Len(more))
  BY <1>1
<1> HIDE DEF all
<1>3. ASSUME NEW k \in DOMAIN all, all[k][1] = v PROVE k \in DOMAIN way /\ all[k] = way[k]
  <2>1. CASE k <= Len(way)
    BY <2>1, <1>1, <1>2
  <2>2. CASE ~(k <= Len(way))
    <3>1. all[k] = more[k - Len(way)] /\ k - Len(way) \in DOMAIN more
      BY <2>2, <1>1, <1>2
    <3>2. QED BY <3>1, <1>3
  <2>3. QED BY <2>1, <2>2
<1>4. ASSUME NEW k \in DOMAIN way PROVE k \in DOMAIN all /\ all[k] = way[k]
  BY <1>1, <1>2
<1>5. \A k \in DOMAIN all : all[k][1] = v =>
         all[k] = <<v, v, all[k][3]>> /\ all[k][3] \in (h + 1)..e
  BY <1>3 DEF Carries
<1>6. \A n \in (h + 1)..e : \E k \in DOMAIN all : all[k] = <<v, v, n>>
  BY <1>4 DEF Carries
<1>7. \A j, k \in DOMAIN all : j < k /\ all[j][1] = v /\ all[k][1] = v => all[j][3] < all[k][3]
  BY <1>3 DEF Carries
<1>8. QED BY <1>5, <1>6, <1>7 DEF Carries, all

\* The next lines of a visitor go to the end of a way.
LEMMA CarriesMore ==
  ASSUME NEW S, NEW way \in Seq(S), NEW more \in Seq(S), NEW v, NEW h \in Nat, NEW e \in Nat,
         Carries(way, v, h, e), h <= e, \A k \in DOMAIN more : more[k] = <<v, v, e + k>>
  PROVE  Carries(way \o more, v, h, e + Len(more))
<1> DEFINE all == way \o more
<1>1. /\ all \in Seq(S) /\ Len(all) = Len(way) + Len(more)
      /\ \A i \in 1..(Len(way) + Len(more)) :
           all[i] = IF i <= Len(way) THEN way[i] ELSE more[i - Len(way)]
  BY ConcatProperties
<1>2. /\ Len(way) \in Nat /\ Len(more) \in Nat /\ DOMAIN way = 1..Len(way)
      /\ DOMAIN more = 1..Len(more) /\ DOMAIN all = 1..(Len(way) + Len(more))
  BY <1>1
<1> HIDE DEF all
<1>3. ASSUME NEW k \in DOMAIN all, k <= Len(way) PROVE k \in DOMAIN way /\ all[k] = way[k]
  BY <1>1, <1>2, <1>3
<1>4. ASSUME NEW k \in DOMAIN all, ~(k <= Len(way))
      PROVE  k - Len(way) \in 1..Len(more) /\ all[k] = <<v, v, e + (k - Len(way))>>
  BY <1>1, <1>2, <1>4, SMTT(30)
<1>5. ASSUME NEW k \in DOMAIN all, all[k][1] = v
      PROVE  all[k] = <<v, v, all[k][3]>> /\ all[k][3] \in (h + 1)..(e + Len(more))
  <2>1. CASE k <= Len(way)
    <3>1. all[k] = <<v, v, all[k][3]>> /\ all[k][3] \in (h + 1)..e
      BY <2>1, <1>3, <1>5 DEF Carries
    <3>2. QED BY <3>1, <1>2
  <2>2. CASE ~(k <= Len(way))
    <3>1. k - Len(way) \in 1..Len(more) /\ all[k] = <<v, v, e + (k - Len(way))>>
      BY <2>2, <1>4
    <3>2. all[k][3] = e + (k - Len(way))
      BY <3>1
    <3>3. QED BY <3>1, <3>2, <1>2, SMTT(30)
  <2>3. QED BY <2>1, <2>2
<1>6. ASSUME NEW n \in (h + 1)..(e + Len(more)) PROVE \E k \in DOMAIN all : all[k] = <<v, v, n>>
  <2>1. CASE n <= e
    <3>1. n \in (h + 1)..e
      BY <2>1
    <3>2. PICK k \in DOMAIN way : way[k] = <<v, v, n>>
      BY <3>1 DEF Carries
    <3>3. k \in DOMAIN all /\ all[k] = way[k]
      BY <1>1, <1>2
    <3>4. QED BY <3>2, <3>3
  <2>2. CASE ~(n <= e)
    <3>1. n - e \in 1..Len(more)
      BY <2>2, <1>2
    <3>2. /\ Len(way) + (n - e) \in DOMAIN all /\ ~(Len(way) + (n - e) <= Len(way))
          /\ (Len(way) + (n - e)) - Len(way) = n - e /\ e + (n - e) = n
      BY <3>1, <1>2
    <3>3. all[Len(way) + (n - e)] = <<v, v, n>>
      BY <3>2, <1>4
    <3>4. QED BY <3>2, <3>3
  <2>3. QED BY <2>1, <2>2
<1>7. ASSUME NEW j \in DOMAIN all, NEW k \in DOMAIN all, j < k, all[j][1] = v, all[k][1] = v
      PROVE  all[j][3] < all[k][3]
  <2>1. CASE k <= Len(way)
    <3>1. j <= Len(way)
      BY <2>1, <1>2, <1>7
    <3>2. QED BY <2>1, <3>1, <1>3, <1>7 DEF Carries
  <2>2. CASE ~(k <= Len(way)) /\ j <= Len(way)
    <3>1. all[j][3] \in (h + 1)..e
      BY <2>2, <1>3, <1>7 DEF Carries
    <3>2. k - Len(way) \in 1..Len(more) /\ all[k][3] = e + (k - Len(way))
      BY <2>2, <1>4
    <3>3. QED BY <3>1, <3>2, <1>2, SMTT(30)
  <2>3. CASE ~(k <= Len(way)) /\ ~(j <= Len(way))
    <3>1. all[k][3] = e + (k - Len(way)) /\ all[j][3] = e + (j - Len(way))
      BY <2>3, <1>4
    <3>2. QED BY <3>1, <1>2, <1>7
  <2>4. QED BY <2>1, <2>2, <2>3
<1>8. QED BY <1>5, <1>6, <1>7 DEF Carries, all

-----------------------------------------------------------------------------
(* The tuner server *)

\* The lines on their way to an answer, the oldest first.
OnTheWay == replies \o questions
\* Those of a visitor that the I/O thread has read.
ReadOf(v) == visitors[v].sent - Len(seats[visitors[v].seat].pipe)

Visitors == [seat : Nat, sent : Nat, heard : Seq(Nat \X Nat)]
TunerTypeOK ==
  /\ serving \in BOOLEAN
  /\ seats \in [1..Places -> [id : Nat, pipe : Seq(Nat \X Nat)]]
  /\ questions \in Seq(Nat \X Nat \X Nat)
  /\ replies \in Seq(Nat \X Nat \X Nat)
  /\ visitors \in Seq(Visitors)
  /\ nextId = Len(visitors) + 1

\* A seated visitor has its seat for itself, and the seat its number.
SeatsMatch ==
  /\ \A v \in DOMAIN visitors : Seated(v) =>
       visitors[v].seat \in 1..Places /\ seats[visitors[v].seat].id = v
  /\ \A i \in 1..Places : seats[i].id # 0 =>
       seats[i].id \in DOMAIN visitors /\ visitors[seats[i].id].seat = i
  /\ \A i \in 1..Places : seats[i].id = 0 => seats[i].pipe = <<>>
  /\ ~serving => \A v \in DOMAIN visitors : ~Seated(v)

\* Nothing on its way is for a connection to come.
OldIds == \A k \in DOMAIN OnTheWay : OnTheWay[k][1] < nextId

\* What a seat has received and not read are the last lines of its visitor.
PipesLast ==
  \A v \in DOMAIN visitors : Seated(v) =>
    LET pipe == seats[visitors[v].seat].pipe IN
    /\ Len(visitors[v].heard) <= ReadOf(v)
    /\ \A k \in DOMAIN pipe : pipe[k] = <<v, ReadOf(v) + k>>

\* The lines on their way are those read and not answered.
WayCarries ==
  \A v \in DOMAIN visitors : Seated(v) => Carries(OnTheWay, v, Len(visitors[v].heard), ReadOf(v))

TunerInv ==
  /\ TunerTypeOK /\ SeatsMatch /\ OldIds /\ PipesLast /\ WayCarries /\ AnsweredInOrder

Asks == Nat \X Nat \X Nat

\* What is on the way is a sequence of lines with the number of a connection.
LEMMA OnTheWayType ==
  ASSUME TunerTypeOK
  PROVE  OnTheWay \in Seq(Asks) /\ questions \in Seq(Asks) /\ replies \in Seq(Asks)
BY ConcatProperties DEF OnTheWay, TunerTypeOK, Asks

\* An answer goes from the end of one queue to the other's.
LEMMA PassedOn ==
  ASSUME NEW r \in Seq(Asks), NEW q \in Seq(Asks), q # <<>>
  PROVE  /\ Append(r, Head(q)) \in Seq(Asks) /\ Tail(q) \in Seq(Asks)
         /\ Append(r, Head(q)) \o Tail(q) = r \o q
<1>1. /\ Head(q) \in Asks /\ Tail(q) \in Seq(Asks) /\ Len(Tail(q)) = Len(q) - 1
      /\ Head(q) = q[1] /\ \A i \in 1..(Len(q) - 1) : Tail(q)[i] = q[i + 1]
  BY HeadTailProperties
<1>2. /\ Append(r, Head(q)) \in Seq(Asks) /\ Len(Append(r, Head(q))) = Len(r) + 1
      /\ \A i \in 1..Len(r) : Append(r, Head(q))[i] = r[i]
      /\ Append(r, Head(q))[Len(r) + 1] = Head(q)
  BY <1>1, AppendProperties
<1> DEFINE a == Append(r, Head(q)) \o Tail(q)
           b == r \o q
<1>3. /\ a \in Seq(Asks) /\ Len(a) = Len(r) + 1 + (Len(q) - 1)
      /\ \A i \in 1..(Len(r) + 1 + (Len(q) - 1)) :
           a[i] = IF i <= Len(r) + 1 THEN Append(r, Head(q))[i] ELSE Tail(q)[i - (Len(r) + 1)]
  BY <1>1, <1>2, ConcatProperties
<1>4. /\ b \in Seq(Asks) /\ Len(b) = Len(r) + Len(q)
      /\ \A i \in 1..(Len(r) + Len(q)) : b[i] = IF i <= Len(r) THEN r[i] ELSE q[i - Len(r)]
  BY ConcatProperties
<1>5. Len(r) \in Nat /\ Len(q) \in Nat /\ Len(q) >= 1
  OBVIOUS
<1> HIDE DEF a, b
<1>6. ASSUME NEW i \in 1..(Len(r) + Len(q)) PROVE a[i] = b[i]
  <2>1. CASE i <= Len(r)
    BY <2>1, <1>2, <1>3, <1>4, <1>5
  <2>2. CASE i = Len(r) + 1
    <3>1. a[i] = q[1] /\ ~(i <= Len(r)) /\ i - Len(r) = 1
      BY <2>2, <1>1, <1>2, <1>3, <1>5
    <3>2. QED BY <3>1, <1>4
  <2>3. CASE i > Len(r) + 1
    <3>1. /\ ~(i <= Len(r) + 1) /\ ~(i <= Len(r)) /\ i - (Len(r) + 1) \in 1..(Len(q) - 1)
          /\ (i - (Len(r) + 1)) + 1 = i - Len(r) /\ i \in 1..(Len(r) + 1 + (Len(q) - 1))
      BY <2>3, <1>5
    <3>2. a[i] = Tail(q)[i - (Len(r) + 1)]
      BY <3>1, <1>3
    <3>3. Tail(q)[i - (Len(r) + 1)] = q[i - Len(r)]
      BY <3>1, <1>1
    <3>4. b[i] = q[i - Len(r)]
      BY <3>1, <1>4
    <3>5. QED BY <3>2, <3>3, <3>4
  <2>4. QED BY <2>1, <2>2, <2>3, <1>5
<1>7. Len(a) = Len(b) /\ Len(a) = Len(r) + Len(q)
  BY <1>3, <1>4, <1>5
<1>8. a = b
  BY <1>3, <1>4, <1>6, <1>7, SeqEqual
<1>9. QED BY <1>1, <1>2, <1>8 DEF a, b

\* The head of the first of two queues is that of both.
LEMMA TailOfBoth ==
  ASSUME NEW r \in Seq(Asks), NEW q \in Seq(Asks), r # <<>>
  PROVE  /\ Tail(r) \o q = Tail(r \o q) /\ r \o q # <<>> /\ Head(r \o q) = Head(r)
<1> DEFINE all == r \o q
           a == Tail(r) \o q
           b == Tail(all)
<1>1. /\ Tail(r) \in Seq(Asks) /\ Len(Tail(r)) = Len(r) - 1 /\ Head(r) = r[1]
      /\ \A i \in 1..(Len(r) - 1) : Tail(r)[i] = r[i + 1]
  BY HeadTailProperties
<1>2. Len(r) \in Nat /\ Len(q) \in Nat /\ Len(r) >= 1
  OBVIOUS
<1>3. /\ all \in Seq(Asks) /\ Len(all) = Len(r) + Len(q)
      /\ \A i \in 1..(Len(r) + Len(q)) : all[i] = IF i <= Len(r) THEN r[i] ELSE q[i - Len(r)]
  BY ConcatProperties
<1>4. /\ a \in Seq(Asks) /\ Len(a) = (Len(r) - 1) + Len(q)
      /\ \A i \in 1..((Len(r) - 1) + Len(q)) :
           a[i] = IF i <= Len(r) - 1 THEN Tail(r)[i] ELSE q[i - (Len(r) - 1)]
  BY <1>1, ConcatProperties
<1> HIDE DEF all
<1>5. all # <<>> /\ Head(all) = all[1] /\ all[1] = r[1]
  BY <1>2, <1>3
<1>6. /\ b \in Seq(Asks) /\ Len(b) = Len(all) - 1
      /\ \A i \in 1..(Len(all) - 1) : b[i] = all[i + 1]
  BY <1>3, <1>5, HeadTailProperties
<1> HIDE DEF a, b
<1>7. ASSUME NEW i \in 1..((Len(r) - 1) + Len(q)) PROVE a[i] = b[i]
  <2>1. i + 1 \in 1..(Len(r) + Len(q)) /\ i \in 1..(Len(all) - 1)
    BY <1>2, <1>3
  <2>2. b[i] = all[i + 1]
    BY <2>1, <1>6
  <2>3. CASE i <= Len(r) - 1
    <3>1. i \in 1..(Len(r) - 1) /\ i + 1 <= Len(r)
      BY <2>3, <1>2
    <3>2. QED BY <3>1, <2>1, <2>2, <2>3, <1>1, <1>3, <1>4
  <2>4. CASE ~(i <= Len(r) - 1)
    <3>1. ~(i + 1 <= Len(r)) /\ (i + 1) - Len(r) = i - (Len(r) - 1)
      BY <2>4, <1>2
    <3>2. QED BY <3>1, <2>1, <2>2, <2>4, <1>3, <1>4
  <2>5. QED BY <2>3, <2>4
<1>8. Len(a) = Len(b) /\ Len(a) = (Len(r) - 1) + Len(q)
  BY <1>2, <1>3, <1>4, <1>6
<1>9. a = b
  BY <1>4, <1>6, <1>7, <1>8, SeqEqual
<1>10. QED BY <1>1, <1>5, <1>9 DEF a, b, all

-----------------------------------------------------------------------------
(* Init and the steps *)

\* Nobody is seated.
LEMMA TunerInitInv == TunerInit => TunerInv
<1> SUFFICES ASSUME TunerInit PROVE TunerInv
  OBVIOUS
<1>1. TunerTypeOK
  BY DEF TunerInit, TunerTypeOK, NoSeat
<1>2. DOMAIN visitors = {} /\ OnTheWay = <<>> /\ DOMAIN OnTheWay = {}
  BY DEF TunerInit, OnTheWay
<1>3. SeatsMatch
  BY <1>2 DEF TunerInit, SeatsMatch, NoSeat
<1>4. QED
  BY <1>1, <1>2, <1>3 DEF TunerInv, OldIds, PipesLast, WayCarries, AnsweredInOrder

\* The visitors are numbered from one.
LEMMA VisitorTypes ==
  ASSUME TunerTypeOK
  PROVE  /\ Len(visitors) \in Nat /\ DOMAIN visitors = 1..Len(visitors)
         /\ \A v \in DOMAIN visitors :
              /\ v \in Nat /\ v # 0 /\ visitors[v] \in Visitors
              /\ Len(visitors[v].heard) \in Nat /\ DOMAIN visitors[v].heard = 1..Len(visitors[v].heard)
         /\ \A i \in 1..Places :
              /\ Len(seats[i].pipe) \in Nat /\ DOMAIN seats[i].pipe = 1..Len(seats[i].pipe)
              /\ seats[i] \in [id : Nat, pipe : Seq(Nat \X Nat)]
<1>1. visitors \in Seq(Visitors) /\ seats \in [1..Places -> [id : Nat, pipe : Seq(Nat \X Nat)]]
  BY DEF TunerTypeOK
<1>2. Len(visitors) \in Nat /\ DOMAIN visitors = 1..Len(visitors)
  BY <1>1
<1>3. ASSUME NEW v \in DOMAIN visitors
      PROVE  /\ v \in Nat /\ v # 0 /\ visitors[v] \in Visitors
             /\ Len(visitors[v].heard) \in Nat /\ DOMAIN visitors[v].heard = 1..Len(visitors[v].heard)
  <2>1. v \in Nat /\ v # 0 /\ visitors[v] \in Visitors
    BY <1>1, <1>2
  <2>2. visitors[v].heard \in Seq(Nat \X Nat)
    BY <2>1 DEF Visitors
  <2>3. QED BY <2>1, <2>2
<1>4. ASSUME NEW i \in 1..Places
      PROVE  /\ Len(seats[i].pipe) \in Nat /\ DOMAIN seats[i].pipe = 1..Len(seats[i].pipe)
             /\ seats[i] \in [id : Nat, pipe : Seq(Nat \X Nat)]
  <2>1. seats[i] \in [id : Nat, pipe : Seq(Nat \X Nat)]
    BY <1>1
  <2>2. seats[i].pipe \in Seq(Nat \X Nat)
    BY <2>1
  <2>3. QED BY <2>1, <2>2
<1>5. QED BY <1>2, <1>3, <1>4

\* What the lines on their way have to do with the seats, in one place.
LEMMA SeatFacts ==
  ASSUME TunerInv, NEW v \in DOMAIN visitors, Seated(v)
  PROVE  /\ visitors[v].seat \in 1..Places /\ seats[visitors[v].seat].id = v /\ serving
         /\ seats[visitors[v].seat].pipe \in Seq(Nat \X Nat)
         /\ visitors[v].sent \in Nat /\ Len(visitors[v].heard) \in Nat /\ v \in Nat
         /\ ReadOf(v) \in Nat /\ Len(visitors[v].heard) <= ReadOf(v)
<1>1. /\ visitors[v].seat \in 1..Places /\ seats[visitors[v].seat].id = v /\ serving
      /\ Len(visitors[v].heard) <= ReadOf(v)
  BY DEF TunerInv, SeatsMatch, PipesLast, TunerTypeOK
<1>2. /\ visitors[v] \in Visitors /\ v \in Nat /\ Len(visitors[v].heard) \in Nat
      /\ seats[visitors[v].seat] \in [id : Nat, pipe : Seq(Nat \X Nat)]
      /\ Len(seats[visitors[v].seat].pipe) \in Nat
  BY <1>1, VisitorTypes DEF TunerInv
<1>3. visitors[v].sent \in Nat /\ seats[visitors[v].seat].pipe \in Seq(Nat \X Nat)
  BY <1>2 DEF Visitors
<1>4. ReadOf(v) \in Nat
  BY <1>1, <1>2, <1>3 DEF ReadOf
<1>5. QED BY <1>1, <1>2, <1>3, <1>4

\* A visitor that sits down has said and heard nothing.
LEMMA ConnectStep ==
  ASSUME TunerInv, Connect
  PROVE  TunerInv'
<1>1. PICK i \in 1..Places :
        /\ seats[i].id = 0
        /\ seats' = [seats EXCEPT ![i] = [id |-> nextId, pipe |-> <<>>]]
        /\ visitors' = Append(visitors, [seat |-> i, sent |-> 0, heard |-> <<>>])
  BY DEF Connect, IdOf
<1>2. UNCHANGED <<serving, questions, replies>> /\ nextId' = nextId + 1 /\ serving
  BY DEF Connect
<1>n. PICK n \in Nat : n = Len(visitors) + 1
  BY VisitorTypes DEF TunerInv
<1> DEFINE new == [seat |-> i, sent |-> 0, heard |-> <<>>]
<1>3. /\ n \in Nat /\ n >= 1 /\ nextId = n /\ i \in Nat /\ i # 0
      /\ new \in Visitors
  BY <1>n, VisitorTypes DEF TunerInv, TunerTypeOK, Visitors
<1>0. visitors \in Seq(Visitors) /\ Len(visitors) \in Nat /\ DOMAIN visitors = 1..Len(visitors)
  BY VisitorTypes DEF TunerInv, TunerTypeOK
<1>4. /\ visitors' \in Seq(Visitors)
      /\ Len(visitors') = n /\ visitors'[n] = new
      /\ DOMAIN visitors' = DOMAIN visitors \union {n} /\ n \notin DOMAIN visitors
      /\ \A v \in DOMAIN visitors : visitors'[v] = visitors[v]
  <2>1. visitors' = Append(visitors, new)
    BY <1>1
  <2> HIDE DEF new
  <2>2. /\ visitors' \in Seq(Visitors) /\ Len(visitors') = n /\ visitors'[n] = new
        /\ \A v \in 1..Len(visitors) : visitors'[v] = visitors[v]
    BY <2>1, <1>n, <1>0, <1>3, AppendProperties
  <2>3. DOMAIN visitors' = 1..n
    BY <2>2
  <2>4. QED BY <2>2, <2>3, <1>n, <1>0
<1>5. seats' \in [1..Places -> [id : Nat, pipe : Seq(Nat \X Nat)]]
  BY <1>1, <1>3 DEF TunerInv, TunerTypeOK
<1>6. seats'[i] = [id |-> n, pipe |-> <<>>] /\ \A j \in 1..Places : j # i => seats'[j] = seats[j]
  BY <1>1, <1>3 DEF TunerInv, TunerTypeOK
<1> HIDE DEF new
<1>7. TunerTypeOK'
  BY <1>2, <1>3, <1>4, <1>5 DEF TunerInv, TunerTypeOK
<1>8. \A v \in DOMAIN visitors : Seated(v) => visitors[v].seat # i
  <2> SUFFICES ASSUME NEW v \in DOMAIN visitors, Seated(v), visitors[v].seat = i PROVE FALSE
    OBVIOUS
  <2>1. seats[i].id = v /\ v \in Nat /\ v # 0
    BY VisitorTypes DEF TunerInv, SeatsMatch
  <2>2. QED BY <2>1, <1>1
<1>9. /\ Seated(n)' /\ ReadOf(n)' = 0
      /\ \A v \in DOMAIN visitors :
           /\ Seated(v)' <=> Seated(v)
           /\ Seated(v) => seats'[visitors'[v].seat] = seats[visitors[v].seat] /\ ReadOf(v)' = ReadOf(v)
  <2>1. Seated(n)' /\ ReadOf(n)' = 0
    <3>1. visitors'[n].seat = i /\ visitors'[n].sent = 0 /\ seats'[i].pipe = <<>>
      BY <1>4, <1>6 DEF new
    <3>2. visitors'[n].seat # 0
      BY <3>1, <1>3
    <3>3. Len(seats'[visitors'[n].seat].pipe) = 0
      BY <3>1
    <3>4. Seated(n)'
      BY <3>2 DEF Seated
    <3>5. ReadOf(n)' = visitors'[n].sent - Len(seats'[visitors'[n].seat].pipe)
      BY DEF ReadOf
    <3>6. ReadOf(n)' = 0 - 0
      BY <3>1, <3>3, <3>5
    <3>7. QED BY <3>4, <3>6
  <2>2. ASSUME NEW v \in DOMAIN visitors PROVE Seated(v)' <=> Seated(v)
    BY <1>4 DEF Seated
  <2>3. ASSUME NEW v \in DOMAIN visitors, Seated(v)
        PROVE  seats'[visitors'[v].seat] = seats[visitors[v].seat] /\ ReadOf(v)' = ReadOf(v)
    <3>1. visitors[v].seat \in 1..Places /\ visitors[v].seat # i
      BY <2>3, <1>8, SeatFacts
    <3>2. QED BY <3>1, <1>4, <1>6 DEF ReadOf
  <2>4. QED BY <2>1, <2>2, <2>3
<1>10. SeatsMatch'
  <2>1. ASSUME NEW v \in DOMAIN visitors', Seated(v)'
        PROVE  visitors'[v].seat \in 1..Places /\ seats'[visitors'[v].seat].id = v
    <3>1. CASE v = n
      BY <3>1, <1>4, <1>6 DEF new
    <3>2. CASE v \in DOMAIN visitors
      BY <2>1, <3>2, <1>4, <1>9, SeatFacts
    <3>3. QED BY <3>1, <3>2, <1>4
  <2>2. ASSUME NEW j \in 1..Places, seats'[j].id # 0
        PROVE  seats'[j].id \in DOMAIN visitors' /\ visitors'[seats'[j].id].seat = j
    <3>1. CASE j = i
      <4>1. seats'[j].id = n /\ visitors'[n].seat = i
        BY <3>1, <1>4, <1>6 DEF new
      <4>2. QED BY <3>1, <4>1, <1>4
    <3>2. CASE j # i
      <4>1. seats'[j] = seats[j]
        BY <3>2, <1>6
      <4>2. seats[j].id \in DOMAIN visitors /\ visitors[seats[j].id].seat = j
        BY <4>1, <2>2 DEF TunerInv, SeatsMatch
      <4>3. QED BY <4>1, <4>2, <1>4
    <3>3. QED BY <3>1, <3>2
  <2>3. ASSUME NEW j \in 1..Places, seats'[j].id = 0 PROVE seats'[j].pipe = <<>>
    BY <2>3, <1>6 DEF TunerInv, SeatsMatch
  <2>4. QED BY <2>1, <2>2, <2>3, <1>2 DEF SeatsMatch
<1>11. OnTheWay' = OnTheWay
  BY <1>2 DEF OnTheWay
<1>12. OldIds'
  <2>1. OnTheWay \in Seq(Asks)
    BY OnTheWayType DEF TunerInv
  <2>2. \A k \in DOMAIN OnTheWay : OnTheWay[k][1] \in Nat
    BY <2>1 DEF Asks
  <2>3. QED BY <2>2, <1>2, <1>3, <1>11 DEF TunerInv, OldIds
<1>13. PipesLast'
  <2> SUFFICES ASSUME NEW v \in DOMAIN visitors', Seated(v)'
               PROVE  /\ Len(visitors'[v].heard) <= ReadOf(v)'
                      /\ \A k \in DOMAIN seats'[visitors'[v].seat].pipe :
                           seats'[visitors'[v].seat].pipe[k] = <<v, ReadOf(v)' + k>>
    BY DEF PipesLast
  <2>1. CASE v = n
    <3>1. visitors'[v].heard = <<>> /\ ReadOf(v)' = 0 /\ seats'[visitors'[v].seat].pipe = <<>>
      BY <2>1, <1>4, <1>6, <1>9 DEF new
    <3>2. QED BY <3>1
  <2>2. CASE v \in DOMAIN visitors
    <3>1. /\ Seated(v) /\ visitors'[v] = visitors[v]
          /\ seats'[visitors'[v].seat] = seats[visitors[v].seat] /\ ReadOf(v)' = ReadOf(v)
      BY <2>2, <1>4, <1>9
    <3>2. /\ Len(visitors[v].heard) <= ReadOf(v)
          /\ \A k \in DOMAIN seats[visitors[v].seat].pipe :
               seats[visitors[v].seat].pipe[k] = <<v, ReadOf(v) + k>>
      BY <2>2, <3>1 DEF TunerInv, PipesLast
    <3>3. QED BY <3>1, <3>2
  <2>3. QED BY <2>1, <2>2, <1>4
<1>14. WayCarries'
  <2> SUFFICES ASSUME NEW v \in DOMAIN visitors', Seated(v)'
               PROVE  Carries(OnTheWay, v, Len(visitors'[v].heard), ReadOf(v)')
    BY <1>11 DEF WayCarries
  <2>1. CASE v = n
    <3>1. Len(visitors'[v].heard) = 0 /\ ReadOf(v)' = 0
      <4>1. visitors'[v].heard = <<>>
        BY <2>1, <1>4 DEF new
      <4>2. QED BY <4>1, <2>1, <1>9
    <3>2. \A k \in DOMAIN OnTheWay : OnTheWay[k][1] # n
      <4>1. OnTheWay \in Seq(Asks)
        BY OnTheWayType DEF TunerInv
      <4>2. \A k \in DOMAIN OnTheWay : OnTheWay[k][1] \in Nat
        BY <4>1 DEF Asks
      <4>3. QED BY <4>2, <1>3 DEF TunerInv, OldIds
    <3>3. (0 + 1)..0 = {}
      OBVIOUS
    <3>4. QED BY <2>1, <3>1, <3>2, <3>3 DEF Carries
  <2>2. CASE v \in DOMAIN visitors
    BY <2>2, <1>4, <1>9 DEF TunerInv, WayCarries
  <2>3. QED BY <2>1, <2>2, <1>4
<1>15. AnsweredInOrder'
  <2> SUFFICES ASSUME NEW v \in DOMAIN visitors'
               PROVE  /\ Len(visitors'[v].heard) <= visitors'[v].sent
                      /\ \A k \in DOMAIN visitors'[v].heard : visitors'[v].heard[k] = <<v, k>>
    BY DEF AnsweredInOrder
  <2>1. CASE v = n
    BY <2>1, <1>4 DEF new
  <2>2. CASE v \in DOMAIN visitors
    BY <2>2, <1>4 DEF TunerInv, AnsweredInOrder
  <2>3. QED BY <2>1, <2>2, <1>4
<1>16. QED BY <1>7, <1>10, <1>12, <1>13, <1>14, <1>15 DEF TunerInv

\* A line that is asked is the last of its visitor's pipe.
LEMMA AskStep ==
  ASSUME TunerInv, NEW v0 \in DOMAIN visitors, Ask(v0)
  PROVE  TunerInv'
<1>1. PICK i : i = visitors[v0].seat
  OBVIOUS
<1>2. PICK m : m = visitors[v0].sent
  OBVIOUS
<1>3. /\ i \in 1..Places /\ seats[i].id = v0 /\ m \in Nat /\ v0 \in Nat /\ serving /\ i # 0
      /\ seats[i].pipe \in Seq(Nat \X Nat) /\ Len(seats[i].pipe) \in Nat
      /\ seats[i] \in [id : Nat, pipe : Seq(Nat \X Nat)] /\ visitors[v0] \in Visitors
  BY <1>1, <1>2, SeatFacts, VisitorTypes DEF Ask, TunerInv, Seated
<1>4. /\ visitors' = [visitors EXCEPT ![v0].sent = m + 1]
      /\ seats' = [seats EXCEPT ![i].pipe = Append(@, <<v0, m + 1>>)]
      /\ UNCHANGED <<nextId, serving, questions, replies>>
  BY <1>1, <1>2 DEF Ask
<1>5. /\ visitors \in Seq(Visitors) /\ seats \in [1..Places -> [id : Nat, pipe : Seq(Nat \X Nat)]]
  BY DEF TunerInv, TunerTypeOK
<1>6. /\ DOMAIN visitors' = DOMAIN visitors /\ Len(visitors') = Len(visitors)
      /\ visitors'[v0] = [visitors[v0] EXCEPT !.sent = m + 1]
      /\ \A v \in DOMAIN visitors : v # v0 => visitors'[v] = visitors[v]
  BY <1>4, <1>5
<1>7. visitors'[v0].seat = i /\ visitors'[v0].sent = m + 1 /\ visitors'[v0].heard = visitors[v0].heard
      /\ visitors'[v0] \in Visitors
  <2>1. PICK x \in Visitors : x = visitors[v0]
    BY <1>3
  <2>2. visitors'[v0] = [x EXCEPT !.sent = m + 1]
    BY <2>1, <1>6
  <2>3. [x EXCEPT !.sent = m + 1] = [seat |-> x.seat, sent |-> m + 1, heard |-> x.heard]
    BY <2>1 DEF Visitors
  <2>4. visitors'[v0] = [seat |-> x.seat, sent |-> m + 1, heard |-> x.heard]
    BY <2>2, <2>3
  <2>5. x.seat \in Nat /\ m + 1 \in Nat /\ x.heard \in Seq(Nat \X Nat)
    BY <1>3, <2>1 DEF Visitors
  <2>6. [seat |-> x.seat, sent |-> m + 1, heard |-> x.heard] \in Visitors
    BY <2>5 DEF Visitors
  <2>7. QED BY <2>1, <2>4, <2>6, <1>1
<1>8. visitors' \in Seq(Visitors)
  BY <1>4, <1>5, <1>6, <1>7, ExceptSeq
<1> DEFINE longer == Append(seats[i].pipe, <<v0, m + 1>>)
<1>9. /\ longer \in Seq(Nat \X Nat) /\ Len(longer) = Len(seats[i].pipe) + 1
      /\ \A k \in 1..Len(seats[i].pipe) : longer[k] = seats[i].pipe[k]
      /\ longer[Len(seats[i].pipe) + 1] = <<v0, m + 1>>
  BY <1>3, AppendProperties
<1>10. /\ seats'[i] = [seats[i] EXCEPT !.pipe = longer]
       /\ \A j \in 1..Places : j # i => seats'[j] = seats[j]
       /\ seats' = [seats EXCEPT ![i] = [seats[i] EXCEPT !.pipe = longer]]
  BY <1>3, <1>4, <1>5
<1> HIDE DEF longer
<1>11. seats'[i].id = v0 /\ seats'[i].pipe = longer /\ seats'[i] \in [id : Nat, pipe : Seq(Nat \X Nat)]
  BY <1>3, <1>9, <1>10
<1>12. seats' \in [1..Places -> [id : Nat, pipe : Seq(Nat \X Nat)]]
  BY <1>5, <1>10, <1>11
<1>13. TunerTypeOK'
  BY <1>4, <1>6, <1>8, <1>12 DEF TunerInv, TunerTypeOK
<1>14. \A v \in DOMAIN visitors : (Seated(v)' <=> Seated(v)) /\ visitors'[v].seat = visitors[v].seat
                                  /\ visitors'[v].heard = visitors[v].heard
  BY <1>1, <1>6, <1>7 DEF Seated
<1>15. \A v \in DOMAIN visitors : Seated(v) /\ v # v0 => visitors[v].seat # i
  BY <1>3, SeatFacts
<1>16. ReadOf(v0)' = ReadOf(v0) /\ ReadOf(v0) + (Len(seats[i].pipe) + 1) = m + 1
  <2>1. ReadOf(v0) = m - Len(seats[i].pipe)
    BY <1>1, <1>2 DEF ReadOf
  <2>2. ReadOf(v0)' = (m + 1) - Len(longer)
    BY <1>7, <1>11 DEF ReadOf
  <2>3. (m + 1) - Len(longer) = m - Len(seats[i].pipe)
    BY <1>3, <1>9
  <2>4. (m - Len(seats[i].pipe)) + (Len(seats[i].pipe) + 1) = m + 1
    <3>1. m \in Nat /\ Len(seats[i].pipe) \in Nat
      BY <1>3
    <3>2. \A b, c \in Nat : (b - c) + (c + 1) = b + 1
      OBVIOUS
    <3>3. QED BY <3>1, <3>2
  <2>5. ReadOf(v0)' = ReadOf(v0)
    BY <2>1, <2>2, <2>3
  <2>6. ReadOf(v0) + (Len(seats[i].pipe) + 1) = m + 1
    BY <2>1, <2>4
  <2>7. QED BY <2>5, <2>6
<1>17. \A v \in DOMAIN visitors : Seated(v) /\ v # v0 =>
         seats'[visitors[v].seat] = seats[visitors[v].seat] /\ ReadOf(v)' = ReadOf(v)
  <2> SUFFICES ASSUME NEW v \in DOMAIN visitors, Seated(v), v # v0
               PROVE  seats'[visitors[v].seat] = seats[visitors[v].seat] /\ ReadOf(v)' = ReadOf(v)
    OBVIOUS
  <2>1. visitors[v].seat \in 1..Places /\ visitors[v].seat # i
    BY <1>15, SeatFacts
  <2>2. QED BY <2>1, <1>6, <1>10 DEF ReadOf
<1>18. SeatsMatch'
  <2>1. \A v \in DOMAIN visitors : Seated(v) =>
          visitors[v].seat \in 1..Places /\ seats'[visitors[v].seat].id = v
    <3> SUFFICES ASSUME NEW v \in DOMAIN visitors, Seated(v)
                 PROVE  visitors[v].seat \in 1..Places /\ seats'[visitors[v].seat].id = v
      OBVIOUS
    <3>1. CASE v = v0
      BY <3>1, <1>1, <1>3, <1>11
    <3>2. CASE v # v0
      BY <3>2, <1>17, SeatFacts
    <3>3. QED BY <3>1, <3>2
  <2>2. \A j \in 1..Places : seats'[j].id = seats[j].id
    BY <1>3, <1>10, <1>11
  <2>3. \A j \in 1..Places : seats'[j].id = 0 => seats'[j].pipe = <<>>
    <3> SUFFICES ASSUME NEW j \in 1..Places, seats'[j].id = 0 PROVE seats'[j].pipe = <<>>
      OBVIOUS
    <3>1. v0 # 0
      BY VisitorTypes DEF TunerInv
    <3>2. j # i
      BY <3>1, <1>11
    <3>3. seats'[j] = seats[j]
      BY <3>2, <1>10
    <3>4. QED BY <3>3 DEF TunerInv, SeatsMatch
  <2>4. serving'
    BY <1>3, <1>4
  <2>5. \A j \in 1..Places : seats[j].id # 0 =>
          seats[j].id \in DOMAIN visitors /\ visitors[seats[j].id].seat = j
    BY DEF TunerInv, SeatsMatch
  <2>6. QED BY <2>1, <2>2, <2>3, <2>4, <2>5, <1>6, <1>14 DEF SeatsMatch
<1>19. OnTheWay' = OnTheWay
  BY <1>4 DEF OnTheWay
<1>20. OldIds'
  BY <1>4, <1>19 DEF TunerInv, OldIds
<1>21. PipesLast'
  <2> SUFFICES ASSUME NEW v \in DOMAIN visitors, Seated(v)
               PROVE  /\ Len(visitors[v].heard) <= ReadOf(v)'
                      /\ \A k \in DOMAIN seats'[visitors[v].seat].pipe :
                           seats'[visitors[v].seat].pipe[k] = <<v, ReadOf(v)' + k>>
    <3> SUFFICES ASSUME NEW v \in DOMAIN visitors', Seated(v)'
                 PROVE  /\ Len(visitors'[v].heard) <= ReadOf(v)'
                        /\ \A k \in DOMAIN seats'[visitors'[v].seat].pipe :
                             seats'[visitors'[v].seat].pipe[k] = <<v, ReadOf(v)' + k>>
      BY DEF PipesLast
    <3>1. /\ v \in DOMAIN visitors /\ Seated(v) /\ visitors'[v].seat = visitors[v].seat
          /\ visitors'[v].heard = visitors[v].heard
      BY <1>6, <1>14
    <3>2. QED BY <3>1
  <2>1. /\ Len(visitors[v].heard) <= ReadOf(v)
        /\ \A k \in DOMAIN seats[visitors[v].seat].pipe :
             seats[visitors[v].seat].pipe[k] = <<v, ReadOf(v) + k>>
    BY DEF TunerInv, PipesLast
  <2>2. CASE v = v0
    <3>1. DOMAIN longer = 1..(Len(seats[i].pipe) + 1) /\ DOMAIN seats[i].pipe = 1..Len(seats[i].pipe)
      BY <1>3, <1>9
    <3>2. ASSUME NEW k \in DOMAIN longer PROVE longer[k] = <<v, ReadOf(v) + k>>
      <4>1. CASE k \in 1..Len(seats[i].pipe)
        BY <4>1, <2>1, <2>2, <3>1, <1>1, <1>9
      <4>2. CASE k = Len(seats[i].pipe) + 1
        BY <4>2, <2>2, <1>9, <1>16
      <4>3. QED BY <4>1, <4>2, <3>1, <1>3
    <3>3. QED BY <2>1, <2>2, <3>2, <1>1, <1>11, <1>16
  <2>3. CASE v # v0
    BY <2>1, <2>3, <1>17
  <2>4. QED BY <2>2, <2>3
<1>22. WayCarries'
  <2> SUFFICES ASSUME NEW v \in DOMAIN visitors, Seated(v)
               PROVE  Carries(OnTheWay, v, Len(visitors[v].heard), ReadOf(v)')
    BY <1>6, <1>14, <1>19 DEF WayCarries
  <2>1. ReadOf(v)' = ReadOf(v)
    BY <1>16, <1>17
  <2>2. QED BY <2>1 DEF TunerInv, WayCarries
<1>23. AnsweredInOrder'
  <2> SUFFICES ASSUME NEW v \in DOMAIN visitors
               PROVE  /\ Len(visitors[v].heard) <= visitors'[v].sent
                      /\ \A k \in DOMAIN visitors[v].heard : visitors[v].heard[k] = <<v, k>>
    BY <1>6, <1>14 DEF AnsweredInOrder
  <2>1. /\ Len(visitors[v].heard) <= visitors[v].sent /\ Len(visitors[v].heard) \in Nat
        /\ \A k \in DOMAIN visitors[v].heard : visitors[v].heard[k] = <<v, k>>
    BY VisitorTypes DEF TunerInv, AnsweredInOrder
  <2>2. CASE v = v0
    BY <2>1, <2>2, <1>2, <1>3, <1>7
  <2>3. CASE v # v0
    BY <2>1, <2>3, <1>6
  <2>4. QED BY <2>2, <2>3
<1>24. QED BY <1>13, <1>18, <1>20, <1>21, <1>22, <1>23 DEF TunerInv

\* What the thread reads goes to the end of the way.
LEMMA ReadStep ==
  ASSUME TunerInv, NEW i \in 1..Places, ReadLines(i)
  PROVE  TunerInv'
<1> DEFINE pipe == seats[i].pipe
           v0 == seats[i].id
<1>1. PICK n \in 1..Len(pipe) :
        /\ questions' = questions \o [k \in 1..n |-> <<v0, pipe[k][1], pipe[k][2]>>]
        /\ seats' = [seats EXCEPT ![i].pipe = SubSeq(@, n + 1, Len(@))]
  BY DEF ReadLines
<1>2. UNCHANGED <<nextId, serving, replies, visitors>> /\ pipe # <<>>
  BY DEF ReadLines
<1>3. /\ pipe \in Seq(Nat \X Nat) /\ Len(pipe) \in Nat /\ DOMAIN pipe = 1..Len(pipe) /\ v0 \in Nat
      /\ seats[i] \in [id : Nat, pipe : Seq(Nat \X Nat)] /\ n \in Nat
  BY VisitorTypes DEF TunerInv
<1>4. v0 # 0 /\ v0 \in DOMAIN visitors /\ visitors[v0].seat = i
  BY <1>2 DEF TunerInv, SeatsMatch
<1>5. Seated(v0)
  <2>1. 1..Places # {} /\ i # 0
    BY DEF TunerInv, TunerTypeOK
  <2>2. QED BY <2>1, <1>4 DEF Seated
<1> DEFINE e == ReadOf(v0)
           more == [k \in 1..n |-> <<v0, pipe[k][1], pipe[k][2]>>]
           rest == SubSeq(pipe, n + 1, Len(pipe))
<1>6. /\ e \in Nat /\ Len(visitors[v0].heard) <= e /\ Len(visitors[v0].heard) \in Nat
      /\ \A k \in 1..Len(pipe) : pipe[k] = <<v0, e + k>>
      /\ e = visitors[v0].sent - Len(pipe) /\ visitors[v0].sent \in Nat
  BY <1>3, <1>4, <1>5, SeatFacts DEF TunerInv, PipesLast, ReadOf
<1>e. e = ReadOf(v0)
  OBVIOUS
<1> HIDE DEF e
<1>7. rest \in Seq(Nat \X Nat) /\ Len(rest) = Len(pipe) - n /\ \A k \in 1..Len(rest) : rest[k] = pipe[n + k]
  <2>1. n + 1 \in Int /\ Len(pipe) \in Int /\ \A k \in (n + 1)..Len(pipe) : pipe[k] \in Nat \X Nat
    <3>1. n \in Nat /\ Len(pipe) \in Nat /\ \A k \in 1..Len(pipe) : pipe[k] \in Nat \X Nat
      BY <1>3
    <3>2. QED BY <3>1
  <2>2. /\ rest \in Seq(Nat \X Nat) /\ Len(rest) = IF n + 1 <= Len(pipe) THEN Len(pipe) - (n + 1) + 1 ELSE 0
        /\ \A k \in 1..(Len(pipe) - (n + 1) + 1) : rest[k] = pipe[(n + 1) + k - 1]
    BY <2>1, SubSeqProperties
  <2>3. Len(rest) = Len(pipe) - n /\ Len(pipe) - (n + 1) + 1 = Len(pipe) - n
    BY <2>2, <1>3
  <2>4. ASSUME NEW k \in 1..Len(rest) PROVE rest[k] = pipe[n + k]
    <3>1. (n + 1) + k - 1 = n + k
      BY <1>3
    <3>2. QED BY <2>2, <2>3, <3>1
  <2>5. QED BY <2>2, <2>3, <2>4
<1>8. /\ more \in Seq(Asks) /\ Len(more) = n /\ DOMAIN more = 1..n
      /\ \A k \in 1..n : more[k] = <<v0, v0, e + k>>
  <2>1. ASSUME NEW k \in 1..n PROVE more[k] = <<v0, v0, e + k>> /\ more[k] \in Asks
    <3>1. k \in 1..Len(pipe) /\ k \in Nat
      BY <1>3
    <3>2. more[k] = <<v0, pipe[k][1], pipe[k][2]>> /\ pipe[k] = <<v0, e + k>>
      BY <3>1, <1>6
    <3>3. v0 \in Nat /\ e + k \in Nat
      <4>1. v0 \in Nat
        BY <1>3
      <4>2. e \in Nat
        BY <1>6
      <4>3. QED BY <3>1, <4>1, <4>2
    <3>4. more[k] = <<v0, v0, e + k>>
      BY <3>2
    <3>5. QED BY <3>3, <3>4 DEF Asks
  <2>2. QED BY <2>1, <1>3
<1>9. seats' = [seats EXCEPT ![i] = [seats[i] EXCEPT !.pipe = rest]]
  BY <1>1
<1>10. seats \in [1..Places -> [id : Nat, pipe : Seq(Nat \X Nat)]]
  BY DEF TunerInv, TunerTypeOK
<1>11. questions' = questions \o more
  BY <1>1
<1> HIDE DEF rest, more
<1>12. /\ seats'[i] = [seats[i] EXCEPT !.pipe = rest]
       /\ \A j \in 1..Places : j # i => seats'[j] = seats[j]
  BY <1>9, <1>10
<1>13. seats'[i].id = v0 /\ seats'[i].pipe = rest /\ seats'[i] \in [id : Nat, pipe : Seq(Nat \X Nat)]
  BY <1>3, <1>7, <1>12
<1>14. seats' \in [1..Places -> [id : Nat, pipe : Seq(Nat \X Nat)]]
  BY <1>9, <1>10, <1>12, <1>13
<1>15. questions' \in Seq(Asks)
  BY <1>8, <1>11, OnTheWayType, ConcatProperties DEF TunerInv
<1>16. TunerTypeOK'
  BY <1>2, <1>14, <1>15 DEF TunerInv, TunerTypeOK, Asks
<1>17. OnTheWay' = OnTheWay \o more /\ OnTheWay \in Seq(Asks)
  <2>1. OnTheWay' = replies \o (questions \o more)
    BY <1>2, <1>11 DEF OnTheWay
  <2>2. replies \in Seq(Asks) /\ questions \in Seq(Asks)
    BY OnTheWayType DEF TunerInv
  <2>3. (replies \o questions) \o more = replies \o (questions \o more)
    <3>1. more \in Seq(Asks)
      BY <1>8
    <3>2. QED BY <2>2, <3>1, ConcatAssociative
  <2>4. QED BY <2>1, <2>3, OnTheWayType DEF OnTheWay, TunerInv
<1>18. \A j \in 1..Places : seats'[j].id = seats[j].id
  BY <1>12, <1>13
<1>19. \A v \in DOMAIN visitors : Seated(v) /\ v # v0 =>
         seats'[visitors[v].seat] = seats[visitors[v].seat] /\ ReadOf(v)' = ReadOf(v)
  <2> SUFFICES ASSUME NEW v \in DOMAIN visitors, Seated(v), v # v0
               PROVE  seats'[visitors[v].seat] = seats[visitors[v].seat] /\ ReadOf(v)' = ReadOf(v)
    OBVIOUS
  <2>1. visitors[v].seat \in 1..Places /\ seats[visitors[v].seat].id = v
    BY SeatFacts
  <2>2. visitors[v].seat # i
    BY <2>1
  <2>3. QED BY <2>1, <2>2, <1>2, <1>12 DEF ReadOf
<1>20. \A v \in DOMAIN visitors : v = v0 => ReadOf(v)' = e + n
  <2> SUFFICES ASSUME NEW v \in DOMAIN visitors, v = v0 PROVE ReadOf(v)' = e + n
    OBVIOUS
  <2>1. ReadOf(v)' = visitors'[v].sent - Len(seats'[visitors'[v].seat].pipe)
    BY DEF ReadOf
  <2>2. ReadOf(v)' = visitors[v].sent - (Len(pipe) - n)
    BY <2>1, <1>2, <1>4, <1>7, <1>13
  <2>3. visitors[v].sent - (Len(pipe) - n) = (visitors[v].sent - Len(pipe)) + n
    <3>1. visitors[v].sent \in Nat /\ Len(pipe) \in Nat /\ n \in Nat
      BY <1>3, <1>6
    <3>2. \A a, b, c \in Nat : a - (b - c) = (a - b) + c
      OBVIOUS
    <3>3. QED BY <3>1, <3>2
  <2>4. visitors[v].sent - Len(pipe) = e
    BY <1>6, SMTT(30)
  <2>5. QED BY <2>2, <2>3, <2>4, Zenon
<1>21. SeatsMatch'
  <2>1. \A j \in 1..Places : seats'[j].id = 0 => seats'[j].pipe = <<>>
    BY <1>4, <1>12, <1>13 DEF TunerInv, SeatsMatch
  <2>2. \A v \in DOMAIN visitors : Seated(v)' <=> Seated(v)
    BY <1>2 DEF Seated
  <2>3. QED BY <2>1, <2>2, <1>2, <1>18 DEF TunerInv, SeatsMatch
<1>22. OldIds'
  <2>1. /\ Len(OnTheWay') = Len(OnTheWay) + n
        /\ \A k \in 1..(Len(OnTheWay) + n) :
             OnTheWay'[k] = IF k <= Len(OnTheWay) THEN OnTheWay[k] ELSE more[k - Len(OnTheWay)]
    BY <1>8, <1>17, ConcatProperties
  <2>2. v0 < nextId
    BY <1>4, VisitorTypes DEF TunerInv, TunerTypeOK
  <2>3. ASSUME NEW k \in 1..(Len(OnTheWay) + n) PROVE OnTheWay'[k][1] < nextId
    <3>1. CASE k <= Len(OnTheWay)
      <4>1. k \in DOMAIN OnTheWay
        BY <3>1, <1>17
      <4>2. QED BY <3>1, <4>1, <2>1 DEF TunerInv, OldIds
    <3>2. CASE ~(k <= Len(OnTheWay))
      <4>1. k - Len(OnTheWay) \in 1..n
        BY <3>2, <1>17, <1>3
      <4>2. OnTheWay'[k] = <<v0, v0, e + (k - Len(OnTheWay))>>
        BY <3>2, <4>1, <2>1, <1>8
      <4>3. QED BY <4>2, <2>2
    <3>3. QED BY <3>1, <3>2
  <2>4. DOMAIN OnTheWay' = 1..(Len(OnTheWay) + n)
    <3>1. OnTheWay' \in Seq(Asks)
      BY <1>8, <1>17, ConcatProperties
    <3>2. QED BY <3>1, <2>1
  <2>5. QED BY <2>3, <2>4, <1>2 DEF OldIds
<1>23. PipesLast'
  <2> SUFFICES ASSUME NEW v \in DOMAIN visitors, Seated(v)
               PROVE  /\ Len(visitors[v].heard) <= ReadOf(v)'
                      /\ \A k \in DOMAIN seats'[visitors[v].seat].pipe :
                           seats'[visitors[v].seat].pipe[k] = <<v, ReadOf(v)' + k>>
    <3> SUFFICES ASSUME NEW v \in DOMAIN visitors', Seated(v)'
                 PROVE  /\ Len(visitors'[v].heard) <= ReadOf(v)'
                        /\ \A k \in DOMAIN seats'[visitors'[v].seat].pipe :
                             seats'[visitors'[v].seat].pipe[k] = <<v, ReadOf(v)' + k>>
      BY DEF PipesLast
    <3>1. v \in DOMAIN visitors /\ Seated(v) /\ visitors'[v] = visitors[v]
      BY <1>2 DEF Seated
    <3>2. QED BY <3>1
  <2>1. /\ Len(visitors[v].heard) <= ReadOf(v)
        /\ \A k \in DOMAIN seats[visitors[v].seat].pipe :
             seats[visitors[v].seat].pipe[k] = <<v, ReadOf(v) + k>>
    BY DEF TunerInv, PipesLast
  <2>2. CASE v = v0
    <3>1. ASSUME NEW k \in DOMAIN rest PROVE rest[k] = <<v, (e + n) + k>>
      <4>1. k \in 1..Len(rest) /\ k \in Nat /\ n + k \in 1..Len(pipe) /\ e + (n + k) = (e + n) + k
        <5>0. Len(pipe) \in Nat /\ n \in Nat
          BY <1>3
        <5>1. e \in Nat /\ Len(rest) = Len(pipe) - n /\ k \in 1..Len(rest)
          <6>1. e \in Nat
            BY <1>6
          <6>2. Len(rest) = Len(pipe) - n /\ rest \in Seq(Nat \X Nat)
            BY <1>7
          <6>3. DOMAIN rest = 1..Len(rest)
            BY <6>2, SMTT(30)
          <6>4. k \in 1..Len(rest)
            BY <6>3, Zenon
          <6>5. QED BY <6>1, <6>2, <6>4, Zenon
        <5>2. k \in 1..(Len(pipe) - n)
          BY <5>1
        <5>3. \A a, b, c \in Nat : \A x \in 1..(a - b) :
                x \in Nat /\ b + x \in 1..a /\ c + (b + x) = (c + b) + x
          OBVIOUS
        <5>4. QED BY <5>0, <5>1, <5>2, <5>3
      <4>2. rest[k] = pipe[n + k] /\ pipe[n + k] = <<v0, e + (n + k)>>
        BY <4>1, <1>6, <1>7
      <4>3. QED BY <4>1, <4>2, <2>2
    <3>2. seats'[visitors[v].seat].pipe = rest /\ ReadOf(v)' = e + n
      BY <2>2, <1>4, <1>13, <1>20
    <3>3. Len(visitors[v].heard) <= e + n
      <4>1. Len(visitors[v].heard) \in Nat /\ e \in Nat /\ n \in Nat /\ Len(visitors[v].heard) <= e
        BY <2>2, <1>3, <1>6
      <4>2. QED BY <4>1
    <3>4. QED BY <3>1, <3>2, <3>3
  <2>3. CASE v # v0
    BY <2>1, <2>3, <1>19
  <2>4. QED BY <2>2, <2>3
<1>24. WayCarries'
  <2> SUFFICES ASSUME NEW v \in DOMAIN visitors, Seated(v)
               PROVE  Carries(OnTheWay \o more, v, Len(visitors[v].heard), ReadOf(v)')
    BY <1>2, <1>17 DEF WayCarries, Seated
  <2>1. Carries(OnTheWay, v, Len(visitors[v].heard), ReadOf(v)) /\ v \in Nat
        /\ Len(visitors[v].heard) \in Nat /\ ReadOf(v) \in Nat /\ Len(visitors[v].heard) <= ReadOf(v)
    BY SeatFacts DEF TunerInv, WayCarries
  <2>2. CASE v = v0
    <3>1. \A k \in DOMAIN more : more[k] = <<v, v, ReadOf(v) + k>>
      BY <2>2, <1>8, <1>e
    <3>2. Carries(OnTheWay \o more, v, Len(visitors[v].heard), ReadOf(v) + Len(more))
      BY <2>1, <3>1, <1>8, <1>17, CarriesMore
    <3>3. QED BY <2>2, <3>2, <1>8, <1>20, <1>e
  <2>3. CASE v # v0
    <3>1. \A k \in DOMAIN more : more[k][1] # v
      BY <2>3, <1>8
    <3>2. Carries(OnTheWay \o more, v, Len(visitors[v].heard), ReadOf(v))
      BY <2>1, <3>1, <1>8, <1>17, CarriesOthersMore
    <3>3. QED BY <2>3, <3>2, <1>19
  <2>4. QED BY <2>2, <2>3
<1>25. AnsweredInOrder'
  BY <1>2 DEF TunerInv, AnsweredInOrder
<1>26. QED BY <1>16, <1>21, <1>22, <1>23, <1>24, <1>25 DEF TunerInv

\* Steps that leave the seats, the visitors and the way to their answers alone.
LEMMA SameWay ==
  ASSUME TunerInv, UNCHANGED <<seats, visitors, nextId>>, OnTheWay' = OnTheWay, TunerTypeOK',
         serving' \/ (serving' = serving)
  PROVE  TunerInv'
<1>1. UNCHANGED seats /\ UNCHANGED visitors /\ UNCHANGED nextId
  OBVIOUS
<1>2. \A v \in DOMAIN visitors : (Seated(v)' <=> Seated(v)) /\ ReadOf(v)' = ReadOf(v)
  BY <1>1 DEF Seated, ReadOf
<1>3. SeatsMatch'
  BY <1>1, <1>2 DEF TunerInv, SeatsMatch
<1>4. OldIds'
  BY <1>1 DEF TunerInv, OldIds
<1>5. PipesLast'
  BY <1>1, <1>2 DEF TunerInv, PipesLast
<1>6. WayCarries'
  BY <1>1, <1>2 DEF TunerInv, WayCarries
<1>7. AnsweredInOrder'
  BY <1>1 DEF TunerInv, AnsweredInOrder
<1>8. QED BY <1>3, <1>4, <1>5, <1>6, <1>7 DEF TunerInv

\* When nobody is seated, only what is on the way to nobody matters.
LEMMA NobodySeated ==
  ASSUME TunerInv, TunerTypeOK', UNCHANGED nextId,
         DOMAIN visitors' = DOMAIN visitors,
         \A v \in DOMAIN visitors : /\ ~Seated(v)' /\ visitors'[v].sent = visitors[v].sent
                                    /\ visitors'[v].heard = visitors[v].heard,
         \A i \in 1..Places : seats'[i].id = 0 /\ seats'[i].pipe = <<>>,
         \A k \in DOMAIN OnTheWay' : \E j \in DOMAIN OnTheWay : OnTheWay'[k] = OnTheWay[j]
  PROVE  TunerInv'
<1>1. SeatsMatch'
  BY DEF SeatsMatch
<1>2. OldIds'
  BY DEF TunerInv, OldIds
<1>3. PipesLast' /\ WayCarries'
  BY DEF PipesLast, WayCarries
<1>4. AnsweredInOrder'
  BY DEF TunerInv, AnsweredInOrder
<1>5. QED BY <1>1, <1>2, <1>3, <1>4 DEF TunerInv

\* A visitor that leaves hears nothing any more.
LEMMA DisconnectStep ==
  ASSUME TunerInv, NEW i \in 1..Places, Disconnect(i)
  PROVE  TunerInv'
<1>1. /\ seats' = [seats EXCEPT ![i] = NoSeat] /\ visitors' = Left(i) /\ serving
      /\ UNCHANGED nextId /\ UNCHANGED serving /\ UNCHANGED questions /\ UNCHANGED replies
  BY DEF Disconnect
<1>2. /\ seats \in [1..Places -> [id : Nat, pipe : Seq(Nat \X Nat)]] /\ visitors \in Seq(Visitors)
      /\ Len(visitors) \in Nat /\ DOMAIN visitors = 1..Len(visitors)
  BY VisitorTypes DEF TunerInv, TunerTypeOK
<1>3. /\ seats'[i] = NoSeat /\ \A j \in 1..Places : j # i => seats'[j] = seats[j]
      /\ seats' \in [1..Places -> [id : Nat, pipe : Seq(Nat \X Nat)]]
  BY <1>1, <1>2 DEF NoSeat
<1>4. /\ DOMAIN visitors' = DOMAIN visitors
      /\ \A v \in DOMAIN visitors :
           visitors'[v] = IF visitors[v].seat = i THEN [visitors[v] EXCEPT !.seat = 0] ELSE visitors[v]
  BY <1>1 DEF Left
<1>5. \A v \in DOMAIN visitors :
        /\ visitors'[v].sent = visitors[v].sent /\ visitors'[v].heard = visitors[v].heard
        /\ visitors'[v].seat = IF visitors[v].seat = i THEN 0 ELSE visitors[v].seat
        /\ visitors'[v] \in Visitors
  <2> SUFFICES ASSUME NEW v \in DOMAIN visitors
               PROVE  /\ visitors'[v].sent = visitors[v].sent /\ visitors'[v].heard = visitors[v].heard
                      /\ visitors'[v].seat = IF visitors[v].seat = i THEN 0 ELSE visitors[v].seat
                      /\ visitors'[v] \in Visitors
    OBVIOUS
  <2>1. PICK x \in Visitors : x = visitors[v]
    BY VisitorTypes DEF TunerInv
  <2>2. [x EXCEPT !.seat = 0] = [seat |-> 0, sent |-> x.sent, heard |-> x.heard]
    BY <2>1 DEF Visitors
  <2>3. [seat |-> 0, sent |-> x.sent, heard |-> x.heard] \in Visitors
    BY <2>1 DEF Visitors
  <2>4. visitors'[v] = IF x.seat = i THEN [seat |-> 0, sent |-> x.sent, heard |-> x.heard] ELSE x
    BY <2>1, <2>2, <1>4
  <2>5. QED BY <2>1, <2>3, <2>4
<1>6. visitors' \in Seq(Visitors) /\ Len(visitors') = Len(visitors)
  <2>1. visitors' = [v \in 1..Len(visitors) |-> visitors'[v]]
    BY <1>1, <1>2, <1>4 DEF Left
  <2>2. \A v \in 1..Len(visitors) : visitors'[v] \in Visitors
    BY <1>2, <1>5
  <2>3. QED BY <2>1, <2>2, <1>2
<1>7. TunerTypeOK'
  BY <1>1, <1>3, <1>6 DEF TunerInv, TunerTypeOK
<1>8. \A v \in DOMAIN visitors : Seated(v)' =>
        /\ Seated(v) /\ visitors'[v].seat = visitors[v].seat /\ visitors[v].seat # i
        /\ visitors[v].seat \in 1..Places /\ seats'[visitors[v].seat] = seats[visitors[v].seat]
        /\ ReadOf(v)' = ReadOf(v)
  <2> SUFFICES ASSUME NEW v \in DOMAIN visitors, Seated(v)'
               PROVE  /\ Seated(v) /\ visitors'[v].seat = visitors[v].seat /\ visitors[v].seat # i
                      /\ visitors[v].seat \in 1..Places
                      /\ seats'[visitors[v].seat] = seats[visitors[v].seat]
                      /\ ReadOf(v)' = ReadOf(v)
    OBVIOUS
  <2>1. visitors'[v].seat # 0
    BY DEF Seated
  <2>2. visitors'[v].seat = visitors[v].seat /\ visitors[v].seat # i
    BY <2>1, <1>5
  <2>3. Seated(v)
    BY <2>1, <2>2 DEF Seated
  <2>4. visitors[v].seat \in 1..Places
    BY <2>3, SeatFacts
  <2>5. seats'[visitors[v].seat] = seats[visitors[v].seat]
    BY <2>2, <2>4, <1>3
  <2>6. QED BY <2>2, <2>3, <2>4, <2>5, <1>5 DEF ReadOf
<1>9. SeatsMatch'
  <2>1. ASSUME NEW v \in DOMAIN visitors', Seated(v)'
        PROVE  visitors'[v].seat \in 1..Places /\ seats'[visitors'[v].seat].id = v
    BY <2>1, <1>4, <1>8, SeatFacts
  <2>2. ASSUME NEW j \in 1..Places, seats'[j].id # 0
        PROVE  seats'[j].id \in DOMAIN visitors' /\ visitors'[seats'[j].id].seat = j
    <3>1. j # i
      BY <2>2, <1>3 DEF NoSeat
    <3>2. seats'[j] = seats[j]
      BY <3>1, <1>3
    <3>3. seats[j].id \in DOMAIN visitors /\ visitors[seats[j].id].seat = j
      BY <2>2, <3>2 DEF TunerInv, SeatsMatch
    <3>4. QED BY <3>1, <3>2, <3>3, <1>4, <1>5
  <2>3. ASSUME NEW j \in 1..Places, seats'[j].id = 0 PROVE seats'[j].pipe = <<>>
    <3>1. CASE j = i
      BY <3>1, <1>3 DEF NoSeat
    <3>2. CASE j # i
      BY <2>3, <3>2, <1>3 DEF TunerInv, SeatsMatch
    <3>3. QED BY <3>1, <3>2
  <2>4. QED BY <2>1, <2>2, <2>3, <1>1 DEF SeatsMatch
<1>10. OnTheWay' = OnTheWay
  BY <1>1 DEF OnTheWay
<1>11. OldIds'
  BY <1>1, <1>10 DEF TunerInv, OldIds
<1>12. PipesLast'
  <2> SUFFICES ASSUME NEW v \in DOMAIN visitors', Seated(v)'
               PROVE  /\ Len(visitors'[v].heard) <= ReadOf(v)'
                      /\ \A k \in DOMAIN seats'[visitors'[v].seat].pipe :
                           seats'[visitors'[v].seat].pipe[k] = <<v, ReadOf(v)' + k>>
    BY DEF PipesLast
  <2>1. v \in DOMAIN visitors
    BY <1>4
  <2>2. /\ Seated(v) /\ visitors'[v].seat = visitors[v].seat
        /\ seats'[visitors'[v].seat] = seats[visitors[v].seat]
        /\ ReadOf(v)' = ReadOf(v) /\ visitors'[v].heard = visitors[v].heard
    BY <2>1, <1>5, <1>8
  <2>3. /\ Len(visitors[v].heard) <= ReadOf(v)
        /\ \A k \in DOMAIN seats[visitors[v].seat].pipe :
             seats[visitors[v].seat].pipe[k] = <<v, ReadOf(v) + k>>
    BY <2>1, <2>2 DEF TunerInv, PipesLast
  <2>4. QED BY <2>2, <2>3
<1>13. WayCarries'
  <2> SUFFICES ASSUME NEW v \in DOMAIN visitors', Seated(v)'
               PROVE  Carries(OnTheWay, v, Len(visitors'[v].heard), ReadOf(v)')
    BY <1>10 DEF WayCarries
  <2>1. v \in DOMAIN visitors
    BY <1>4
  <2>2. QED BY <2>1, <1>5, <1>8 DEF TunerInv, WayCarries
<1>14. AnsweredInOrder'
  BY <1>4, <1>5 DEF TunerInv, AnsweredInOrder
<1>15. QED BY <1>7, <1>9, <1>11, <1>12, <1>13, <1>14 DEF TunerInv

\* The main loop moves the first line to the answers, or drops it when nobody
\* is there to hear it.
LEMMA ReplyStep ==
  ASSUME TunerInv, Reply
  PROVE  TunerInv'
<1>1. /\ questions # <<>> /\ questions' = Tail(questions)
      /\ replies' = IF serving THEN Append(replies, Head(questions)) ELSE replies
      /\ UNCHANGED seats /\ UNCHANGED nextId /\ UNCHANGED serving /\ UNCHANGED visitors
  BY DEF Reply
<1>2. questions \in Seq(Asks) /\ replies \in Seq(Asks) /\ OnTheWay \in Seq(Asks)
  BY OnTheWayType DEF TunerInv
<1>3. /\ Append(replies, Head(questions)) \in Seq(Asks) /\ Tail(questions) \in Seq(Asks)
      /\ Append(replies, Head(questions)) \o Tail(questions) = replies \o questions
  BY <1>1, <1>2, PassedOn
<1>4. TunerTypeOK'
  BY <1>1, <1>2, <1>3 DEF TunerInv, TunerTypeOK, Asks
<1>5. CASE serving
  <2>1. OnTheWay' = OnTheWay
    BY <1>1, <1>3, <1>5 DEF OnTheWay
  <2>2. QED BY <2>1, <1>1, <1>4, SameWay
<1>6. CASE ~serving
  <2>1. \A v \in DOMAIN visitors : ~Seated(v)'
    BY <1>1, <1>6 DEF TunerInv, SeatsMatch, Seated
  <2>2. \A i \in 1..Places : seats[i].id = 0 /\ seats[i].pipe = <<>>
    <3> SUFFICES ASSUME NEW i \in 1..Places PROVE seats[i].id = 0
      BY DEF TunerInv, SeatsMatch
    <3>1. CASE seats[i].id # 0
      <4>1. seats[i].id \in DOMAIN visitors /\ visitors[seats[i].id].seat = i
        BY <3>1 DEF TunerInv, SeatsMatch
      <4>2. i # 0
        BY DEF TunerInv, TunerTypeOK
      <4>3. QED BY <4>1, <4>2, <1>6 DEF TunerInv, SeatsMatch, Seated
    <3>2. QED BY <3>1
  <2>3. OnTheWay' = replies \o Tail(questions)
    BY <1>1, <1>6 DEF OnTheWay
  <2>4. \A k \in DOMAIN OnTheWay' : \E j \in DOMAIN OnTheWay : OnTheWay'[k] = OnTheWay[j]
    <3> DEFINE t == Tail(questions)
    <3>1. t \in Seq(Asks) /\ Len(t) = Len(questions) - 1 /\ \A k \in 1..Len(t) : t[k] = questions[k + 1]
      BY <1>1, <1>2, HeadTailProperties
    <3>2. Len(t) \in Nat /\ Len(questions) \in Nat /\ Len(replies) \in Nat
      BY <1>2, <3>1
    <3> HIDE DEF t
    <3>3. /\ replies \o t \in Seq(Asks) /\ Len(replies \o t) = Len(replies) + Len(t)
          /\ \A k \in 1..(Len(replies) + Len(t)) :
               (replies \o t)[k] = IF k <= Len(replies) THEN replies[k] ELSE t[k - Len(replies)]
      BY <1>2, <3>1, ConcatProperties
    <3>4. /\ OnTheWay \in Seq(Asks) /\ Len(OnTheWay) = Len(replies) + Len(questions)
          /\ \A k \in 1..(Len(replies) + Len(questions)) :
               OnTheWay[k] = IF k <= Len(replies) THEN replies[k] ELSE questions[k - Len(replies)]
      BY <1>2, ConcatProperties DEF OnTheWay
    <3>5. ASSUME NEW k \in 1..(Len(replies) + Len(t))
          PROVE  \E j \in 1..(Len(replies) + Len(questions)) : (replies \o t)[k] = OnTheWay[j]
      <4>1. CASE k <= Len(replies)
        <5>1. k \in 1..(Len(replies) + Len(questions))
          BY <4>1, <3>2
        <5>2. QED BY <4>1, <5>1, <3>3, <3>4
      <4>2. CASE ~(k <= Len(replies))
        <5>1. /\ k - Len(replies) \in 1..Len(t) /\ k + 1 \in 1..(Len(replies) + Len(questions))
              /\ ~(k + 1 <= Len(replies)) /\ (k + 1) - Len(replies) = (k - Len(replies)) + 1
          <6>1. Len(t) = Len(questions) - 1
            BY <3>1
          <6>2. QED BY <4>2, <6>1, <3>2
        <5>2. (replies \o t)[k] = questions[(k - Len(replies)) + 1]
          BY <4>2, <5>1, <3>1, <3>3
        <5>3. QED BY <5>1, <5>2, <3>4
      <4>3. QED BY <4>1, <4>2
    <3>6. DOMAIN (replies \o t) = 1..(Len(replies) + Len(t))
          /\ DOMAIN OnTheWay = 1..(Len(replies) + Len(questions))
      BY <3>3, <3>4
    <3>7. OnTheWay' = replies \o t
      BY <2>3 DEF t
    <3>8. QED BY <3>5, <3>6, <3>7
  <2>5. QED BY <2>1, <2>2, <2>4, <1>1, <1>4, NobodySeated
<1>7. QED BY <1>5, <1>6

\* The answer that is sent is the next of the visitor it is for.
LEMMA SendReplyStep ==
  ASSUME TunerInv, SendReply
  PROVE  TunerInv'
<1>1. PICK r : r = Head(replies)
  OBVIOUS
<1>2. /\ serving /\ replies # <<>> /\ replies' = Tail(replies)
      /\ visitors' = [v \in DOMAIN visitors |->
                        IF Meant(v, r) THEN [visitors[v] EXCEPT !.heard = Append(@, <<r[2], r[3]>>)]
                        ELSE visitors[v]]
      /\ UNCHANGED seats /\ UNCHANGED nextId /\ UNCHANGED serving /\ UNCHANGED questions
  BY <1>1 DEF SendReply
<1>3. questions \in Seq(Asks) /\ replies \in Seq(Asks) /\ OnTheWay \in Seq(Asks)
  BY OnTheWayType DEF TunerInv
<1>4. /\ OnTheWay' = Tail(OnTheWay) /\ OnTheWay # <<>> /\ Head(OnTheWay) = r
      /\ Tail(replies) \in Seq(Asks) /\ r \in Asks
  BY <1>1, <1>2, <1>3, TailOfBoth, HeadTailProperties DEF OnTheWay
<1>5. DOMAIN visitors' = DOMAIN visitors
  BY <1>2
<1>6. ASSUME NEW v \in DOMAIN visitors, Meant(v, r)
      PROVE  /\ Seated(v) /\ r = <<v, v, Len(visitors[v].heard) + 1>>
             /\ Len(visitors[v].heard) + 1 <= ReadOf(v)
             /\ Carries(Tail(OnTheWay), v, Len(visitors[v].heard) + 1, ReadOf(v))
             /\ visitors'[v] = [visitors[v] EXCEPT !.heard =
                                  Append(visitors[v].heard, <<v, Len(visitors[v].heard) + 1>>)]
  <2>1. Seated(v) /\ r[1] = seats[visitors[v].seat].id
    BY <1>6 DEF Meant
  <2>2. r[1] = v /\ v \in Nat /\ Len(visitors[v].heard) \in Nat /\ ReadOf(v) \in Nat
    BY <2>1, SeatFacts
  <2>3. Carries(OnTheWay, v, Len(visitors[v].heard), ReadOf(v))
    BY <2>1 DEF TunerInv, WayCarries
  <2>4. /\ r = <<v, v, Len(visitors[v].heard) + 1>> /\ Len(visitors[v].heard) + 1 <= ReadOf(v)
        /\ Carries(Tail(OnTheWay), v, Len(visitors[v].heard) + 1, ReadOf(v))
    <3>1. Head(OnTheWay)[1] = v
      BY <2>2, <1>4
    <3>2. /\ Head(OnTheWay) = <<v, v, Len(visitors[v].heard) + 1>>
          /\ Len(visitors[v].heard) + 1 <= ReadOf(v)
          /\ Carries(Tail(OnTheWay), v, Len(visitors[v].heard) + 1, ReadOf(v))
      BY <3>1, <2>2, <2>3, <1>3, <1>4, CarriesOwn, ZenonT(60)
    <3>3. QED BY <3>2, <1>4, Zenon
  <2>5. r[2] = v /\ r[3] = Len(visitors[v].heard) + 1
    BY <2>4
  <2>6. visitors'[v] = [visitors[v] EXCEPT !.heard = Append(@, <<r[2], r[3]>>)]
    BY <1>2, <1>6
  <2>7. QED BY <2>1, <2>4, <2>5, <2>6
<1>7. ASSUME NEW v \in DOMAIN visitors, ~Meant(v, r)
      PROVE  /\ visitors'[v] = visitors[v]
             /\ Seated(v) => Carries(Tail(OnTheWay), v, Len(visitors[v].heard), ReadOf(v))
  <2>1. visitors'[v] = visitors[v]
    BY <1>2, <1>7
  <2>2. ASSUME Seated(v) PROVE Carries(Tail(OnTheWay), v, Len(visitors[v].heard), ReadOf(v))
    <3>1. r[1] # v /\ v \in Nat /\ Len(visitors[v].heard) \in Nat /\ ReadOf(v) \in Nat
      BY <2>2, <1>7, SeatFacts DEF Meant
    <3>2. Carries(OnTheWay, v, Len(visitors[v].heard), ReadOf(v))
      BY <2>2 DEF TunerInv, WayCarries
    <3>3. QED BY <3>1, <3>2, <1>3, <1>4, CarriesOthers
  <2>3. QED BY <2>1, <2>2
<1>8. ASSUME NEW v \in DOMAIN visitors, Meant(v, r)
      PROVE  /\ visitors'[v].seat = visitors[v].seat /\ visitors'[v].sent = visitors[v].sent
             /\ visitors'[v] \in Visitors
             /\ Len(visitors'[v].heard) = Len(visitors[v].heard) + 1
             /\ DOMAIN visitors'[v].heard = 1..(Len(visitors[v].heard) + 1)
             /\ visitors'[v].heard[Len(visitors[v].heard) + 1] = <<v, Len(visitors[v].heard) + 1>>
             /\ \A k \in 1..Len(visitors[v].heard) : visitors'[v].heard[k] = visitors[v].heard[k]
  <2>1. PICK x \in Visitors : x = visitors[v]
    BY VisitorTypes DEF TunerInv
  <2>2. x.seat \in Nat /\ x.sent \in Nat /\ x.heard \in Seq(Nat \X Nat) /\ v \in Nat /\ Len(x.heard) \in Nat
    BY <2>1, VisitorTypes DEF Visitors, TunerInv
  <2>3. <<v, Len(x.heard) + 1>> \in Nat \X Nat
    BY <2>2
  <2> DEFINE more == Append(x.heard, <<v, Len(x.heard) + 1>>)
  <2>4. /\ more \in Seq(Nat \X Nat) /\ Len(more) = Len(x.heard) + 1
        /\ \A k \in 1..Len(x.heard) : more[k] = x.heard[k]
        /\ more[Len(x.heard) + 1] = <<v, Len(x.heard) + 1>>
    BY <2>2, <2>3, AppendProperties
  <2>5. DOMAIN more = 1..(Len(x.heard) + 1)
    BY <2>4
  <2>6. visitors'[v] = [x EXCEPT !.heard = more]
    BY <2>1, <1>6, <1>8
  <2> HIDE DEF more
  <2>7. [x EXCEPT !.heard = more] = [seat |-> x.seat, sent |-> x.sent, heard |-> more]
    BY <2>1 DEF Visitors
  <2>8. [seat |-> x.seat, sent |-> x.sent, heard |-> more] \in Visitors
    BY <2>2, <2>4 DEF Visitors
  <2>9. visitors'[v] = [seat |-> x.seat, sent |-> x.sent, heard |-> more]
    BY <2>6, <2>7
  <2>10. visitors'[v].seat = x.seat /\ visitors'[v].sent = x.sent /\ visitors'[v].heard = more
    BY <2>9
  <2>11. QED BY <2>1, <2>4, <2>5, <2>8, <2>9, <2>10
<1>9. \A v \in DOMAIN visitors :
        /\ visitors'[v].seat = visitors[v].seat /\ visitors'[v].sent = visitors[v].sent
        /\ visitors'[v] \in Visitors
        /\ (Seated(v)' <=> Seated(v)) /\ ReadOf(v)' = ReadOf(v)
  <2> SUFFICES ASSUME NEW v \in DOMAIN visitors
               PROVE  /\ visitors'[v].seat = visitors[v].seat /\ visitors'[v].sent = visitors[v].sent
                      /\ visitors'[v] \in Visitors
                      /\ (Seated(v)' <=> Seated(v)) /\ ReadOf(v)' = ReadOf(v)
    OBVIOUS
  <2>1. visitors'[v].seat = visitors[v].seat /\ visitors'[v].sent = visitors[v].sent
        /\ visitors'[v] \in Visitors
    <3>1. CASE Meant(v, r)
      BY <3>1, <1>8
    <3>2. CASE ~Meant(v, r)
      BY <3>2, <1>7, VisitorTypes DEF TunerInv
    <3>3. QED BY <3>1, <3>2
  <2>2. QED BY <2>1, <1>2 DEF Seated, ReadOf
<1>10. visitors' \in Seq(Visitors) /\ Len(visitors') = Len(visitors)
  <2>1. DOMAIN visitors = 1..Len(visitors) /\ Len(visitors) \in Nat
    BY VisitorTypes DEF TunerInv
  <2>2. visitors' = [v \in 1..Len(visitors) |-> visitors'[v]]
    BY <2>1, <1>2
  <2>3. \A v \in 1..Len(visitors) : visitors'[v] \in Visitors
    BY <2>1, <1>9
  <2>4. QED BY <2>1, <2>2, <2>3
<1>11. TunerTypeOK'
  BY <1>2, <1>4, <1>10 DEF TunerInv, TunerTypeOK, Asks
<1>12. SeatsMatch'
  <2>1. ASSUME NEW j \in 1..Places, seats[j].id # 0
        PROVE  seats[j].id \in DOMAIN visitors /\ visitors'[seats[j].id].seat = j
    BY <2>1, <1>9 DEF TunerInv, SeatsMatch
  <2>2. ASSUME NEW v \in DOMAIN visitors', Seated(v)'
        PROVE  visitors'[v].seat \in 1..Places /\ seats'[visitors'[v].seat].id = v
    BY <2>2, <1>2, <1>5, <1>9 DEF TunerInv, SeatsMatch
  <2>3. \A j \in 1..Places : seats[j].id = 0 => seats[j].pipe = <<>>
    BY DEF TunerInv, SeatsMatch
  <2>4. QED BY <2>1, <2>2, <2>3, <1>2, <1>5 DEF SeatsMatch
<1>13. OldIds'
  <2> DEFINE t == Tail(OnTheWay)
  <2>1. /\ t \in Seq(Asks) /\ Len(t) = Len(OnTheWay) - 1 /\ Len(OnTheWay) \in Nat
        /\ \A k \in 1..Len(t) : t[k] = OnTheWay[k + 1]
    BY <1>3, <1>4, HeadTailProperties
  <2>2. DOMAIN t = 1..Len(t) /\ DOMAIN OnTheWay = 1..Len(OnTheWay)
    BY <2>1, <1>3
  <2> HIDE DEF t
  <2>3. ASSUME NEW k \in DOMAIN t PROVE t[k][1] < nextId
    <3>1. k + 1 \in DOMAIN OnTheWay /\ t[k] = OnTheWay[k + 1]
      BY <2>1, <2>2
    <3>2. QED BY <3>1 DEF TunerInv, OldIds
  <2>4. OnTheWay' = t
    BY <1>4 DEF t
  <2>5. QED BY <2>3, <2>4, <1>2 DEF OldIds
<1>14. PipesLast'
  <2> SUFFICES ASSUME NEW v \in DOMAIN visitors', Seated(v)'
               PROVE  /\ Len(visitors'[v].heard) <= ReadOf(v)'
                      /\ \A k \in DOMAIN seats'[visitors'[v].seat].pipe :
                           seats'[visitors'[v].seat].pipe[k] = <<v, ReadOf(v)' + k>>
    BY DEF PipesLast
  <2>1. /\ v \in DOMAIN visitors /\ Seated(v) /\ ReadOf(v)' = ReadOf(v)
        /\ visitors'[v].seat = visitors[v].seat /\ seats' = seats
    BY <1>2, <1>5, <1>9
  <2>2. /\ Len(visitors[v].heard) <= ReadOf(v)
        /\ \A k \in DOMAIN seats[visitors[v].seat].pipe :
             seats[visitors[v].seat].pipe[k] = <<v, ReadOf(v) + k>>
    BY <2>1 DEF TunerInv, PipesLast
  <2>3. Len(visitors'[v].heard) <= ReadOf(v)
    <3>1. CASE Meant(v, r)
      BY <2>1, <3>1, <1>6, <1>8
    <3>2. CASE ~Meant(v, r)
      BY <2>1, <2>2, <3>2, <1>7
    <3>3. QED BY <3>1, <3>2
  <2>4. QED BY <2>1, <2>2, <2>3
<1>15. WayCarries'
  <2> SUFFICES ASSUME NEW v \in DOMAIN visitors, Seated(v)
               PROVE  Carries(Tail(OnTheWay), v, Len(visitors'[v].heard), ReadOf(v))
    BY <1>4, <1>5, <1>9 DEF WayCarries
  <2>1. CASE Meant(v, r)
    BY <2>1, <1>6, <1>8
  <2>2. CASE ~Meant(v, r)
    BY <2>2, <1>7
  <2>3. QED BY <2>1, <2>2
<1>16. AnsweredInOrder'
  <2> SUFFICES ASSUME NEW v \in DOMAIN visitors
               PROVE  /\ Len(visitors'[v].heard) <= visitors'[v].sent
                      /\ \A k \in DOMAIN visitors'[v].heard : visitors'[v].heard[k] = <<v, k>>
    BY <1>5 DEF AnsweredInOrder
  <2>1. /\ Len(visitors[v].heard) <= visitors[v].sent /\ Len(visitors[v].heard) \in Nat
        /\ \A k \in 1..Len(visitors[v].heard) : visitors[v].heard[k] = <<v, k>>
    BY VisitorTypes DEF TunerInv, AnsweredInOrder
  <2>2. CASE Meant(v, r)
    <3>1. Len(visitors[v].heard) + 1 <= visitors[v].sent
      <4>1. Len(visitors[v].heard) + 1 <= ReadOf(v) /\ Seated(v)
        BY <2>2, <1>6
      <4>2. /\ visitors[v].sent \in Nat /\ Len(seats[visitors[v].seat].pipe) \in Nat
            /\ ReadOf(v) = visitors[v].sent - Len(seats[visitors[v].seat].pipe)
        BY <4>1, SeatFacts DEF ReadOf
      <4>3. QED BY <4>1, <4>2, <2>1
    <3>2. ASSUME NEW k \in 1..(Len(visitors[v].heard) + 1) PROVE visitors'[v].heard[k] = <<v, k>>
      <4>1. CASE k = Len(visitors[v].heard) + 1
        BY <4>1, <2>2, <1>8
      <4>2. CASE k # Len(visitors[v].heard) + 1
        <5>1. k \in 1..Len(visitors[v].heard)
          BY <4>2, <2>1
        <5>2. QED BY <5>1, <2>1, <2>2, <1>8
      <4>3. QED BY <4>1, <4>2
    <3>3. QED BY <3>1, <3>2, <2>2, <1>8
  <2>3. CASE ~Meant(v, r)
    <3>1. visitors'[v] = visitors[v]
      BY <2>3, <1>7
    <3>2. QED BY <3>1 DEF TunerInv, AnsweredInOrder
  <2>4. QED BY <2>2, <2>3
<1>17. QED BY <1>11, <1>12, <1>13, <1>14, <1>15, <1>16 DEF TunerInv

\* The server goes away from everybody.
LEMMA ShutdownStep ==
  ASSUME TunerInv, Shutdown
  PROVE  TunerInv'
<1>1. /\ serving' = FALSE /\ seats' = [i \in 1..Places |-> NoSeat]
      /\ visitors' = [v \in DOMAIN visitors |-> [visitors[v] EXCEPT !.seat = 0]]
      /\ UNCHANGED nextId /\ UNCHANGED questions /\ UNCHANGED replies
  BY DEF Shutdown
<1>2. ASSUME NEW v \in DOMAIN visitors
      PROVE  /\ visitors'[v].seat = 0 /\ visitors'[v].sent = visitors[v].sent
             /\ visitors'[v].heard = visitors[v].heard /\ visitors'[v] \in Visitors
  <2>1. PICK x \in Visitors : x = visitors[v]
    BY VisitorTypes DEF TunerInv
  <2>2. [x EXCEPT !.seat = 0] = [seat |-> 0, sent |-> x.sent, heard |-> x.heard]
    BY <2>1 DEF Visitors
  <2>3. [seat |-> 0, sent |-> x.sent, heard |-> x.heard] \in Visitors
    BY <2>1 DEF Visitors
  <2>4. visitors'[v] = [seat |-> 0, sent |-> x.sent, heard |-> x.heard]
    BY <2>1, <2>2, <1>1
  <2>5. QED BY <2>1, <2>3, <2>4
<1>3. DOMAIN visitors' = DOMAIN visitors
  BY <1>1
<1>4. visitors' \in Seq(Visitors) /\ Len(visitors') = Len(visitors)
  <2>1. DOMAIN visitors = 1..Len(visitors) /\ Len(visitors) \in Nat
    BY VisitorTypes DEF TunerInv
  <2>2. visitors' = [v \in 1..Len(visitors) |-> visitors'[v]]
    BY <2>1, <1>1
  <2>3. \A v \in 1..Len(visitors) : visitors'[v] \in Visitors
    BY <2>1, <1>2
  <2>4. QED BY <2>1, <2>2, <2>3
<1>5. seats' \in [1..Places -> [id : Nat, pipe : Seq(Nat \X Nat)]]
      /\ \A i \in 1..Places : seats'[i].id = 0 /\ seats'[i].pipe = <<>>
  BY <1>1 DEF NoSeat
<1>6. TunerTypeOK'
  BY <1>1, <1>4, <1>5 DEF TunerInv, TunerTypeOK
<1>7. \A v \in DOMAIN visitors : ~Seated(v)'
  BY <1>2 DEF Seated
<1>8. OnTheWay' = OnTheWay
  BY <1>1 DEF OnTheWay
<1>9. QED BY <1>1, <1>2, <1>3, <1>5, <1>6, <1>7, <1>8, NobodySeated

\* Each connection of the tuner server hears the answers to its own lines, in
\* their order and without a gap, for any number of connections and lines:
\* identities are never given twice, and a line keeps the identity of the
\* connection it came from through both queues.
THEOREM AnswersInOrder == TunerSpec => []AnsweredInOrder
<1>1. TunerInit => TunerInv
  BY TunerInitInv
<1>2. TunerInv /\ [TunerNext]_tvars => TunerInv'
  <2> SUFFICES ASSUME TunerInv, [TunerNext]_tvars PROVE TunerInv'
    OBVIOUS
  <2>1. CASE Connect
    BY <2>1, ConnectStep
  <2>2. CASE Reply
    BY <2>2, ReplyStep
  <2>3. CASE SendReply
    BY <2>3, SendReplyStep
  <2>4. CASE Shutdown
    BY <2>4, ShutdownStep
  <2>5. CASE Startup \/ UNCHANGED tvars
    <3>1. /\ UNCHANGED seats /\ UNCHANGED nextId /\ UNCHANGED questions /\ UNCHANGED replies
          /\ UNCHANGED visitors /\ (serving' \/ serving' = serving) /\ serving' \in BOOLEAN
      BY <2>5 DEF Startup, tvars, TunerInv, TunerTypeOK
    <3>2. OnTheWay' = OnTheWay
      BY <3>1 DEF OnTheWay
    <3>3. TunerTypeOK'
      BY <3>1 DEF TunerInv, TunerTypeOK
    <3>4. QED BY <3>1, <3>2, <3>3, SameWay
  <2>6. CASE \E v \in DOMAIN visitors : Ask(v)
    BY <2>6, AskStep
  <2>7. CASE \E i \in 1..Places : ReadLines(i) \/ Disconnect(i)
    BY <2>7, ReadStep, DisconnectStep
  <2>8. QED BY <2>1, <2>2, <2>3, <2>4, <2>5, <2>6, <2>7 DEF TunerNext
<1>3. TunerInv => AnsweredInOrder
  BY DEF TunerInv
<1>4. QED BY <1>1, <1>2, <1>3, PTL DEF TunerSpec

-----------------------------------------------------------------------------
(* The server of the GUI *)

\* The body of a message in one frame, and of one in two.
One(g, n) == <<<<g, n, 1, 1>>, <<g, n, 1, 2>>>>
Two(g, n) == <<<<g, n, 1, 1>>, <<g, n, 1, 2>>, <<g, n, 2, 1>>, <<g, n, 2, 2>>>>

\* What the session has yet to parse.
Stream == (buf \o inner) \o wire

\* Whose and which message a command is.
WhichOf(m) == <<m[1][1], m[1][1], m[1][2]>>
Which(q) == [k \in DOMAIN q |-> WhichOf(q[k])]

\* The frames of a session.
First(g, n) == Halves("text", FALSE, g, n, 1)
Ping(g) == Halves("ping", TRUE, g, 0, 1)
Second(g, n) == Halves("cont", TRUE, g, n, 2)
Close(g) == Halves("close", TRUE, g, 0, 1)
\* A frame is at p of the stream.
FrameAt(s, p, f) == p + 1 <= Len(s) /\ s[p] = f[1] /\ s[p + 1] = f[2]

\* What follows message n of a session whose tab is x: nothing if it is the last
\* one sent, the goodbye, or the frames of the next.
Between(s, p, g, n, x) ==
  \/ p = Len(s) + 1 /\ n = x.sent
  \/ FrameAt(s, p, Close(g)) /\ x.at = "gone"
  \/ FrameAt(s, p, InOneFrame(g, n + 1))
  \/ /\ FrameAt(s, p, First(g, n + 1))
     /\ FrameAt(s, p + 2, Ping(g)) /\ FrameAt(s, p + 4, Second(g, n + 1))
EndsMessage(h) == h.op \in {"text", "cont"} /\ h.fin = TRUE /\ h.part[4] = 2
Continued(s, g, x) ==
  \A p \in DOMAIN s : EndsMessage(s[p]) =>
    s[p].part[2] <= x.sent /\ Between(s, p + 1, g, s[p].part[2], x)

\* e messages of the session are parsed; the next may have begun.
Begun(s, f, g, e, x) ==
  \/ f.on = FALSE /\ Between(s, 1, g, e, x)
  \/ /\ f = [on |-> TRUE, acc |-> One(g, e + 1)]
     /\ FrameAt(s, 1, Ping(g)) /\ FrameAt(s, 3, Second(g, e + 1))
  \/ f = [on |-> TRUE, acc |-> One(g, e + 1)] /\ FrameAt(s, 1, Second(g, e + 1))

\* Of each GUI, as many commands are handled as are no longer on their way from
\* the parser, and what the session has yet to parse goes on from there.
CommandsOK ==
  \A g \in Guis : \E e \in 0..tab[g].sent :
    /\ Len(handled[g]) <= e /\ Carries(Which(recv), g, Len(handled[g]), e)
    /\ client = g => Continued(Stream, g, tab[g]) /\ Begun(Stream, frag, g, e, tab[g])

\* Whole commands were handled, in their order.
WholeBodies == \A g \in Guis : \A n \in DOMAIN handled[g] : handled[g][n] \in {One(g, n), Two(g, n)}

\* A GUI has one connection and one session.
OnceEach ==
  /\ \A i \in 1..Slots : slots[i] \in Guis =>
       tab[slots[i]].at = "asking" /\ \A j \in 1..Slots : slots[j] = slots[i] => j = i
  /\ \A g \in Guis : tab[g].at \in {"away", "asking"} => tab[g].sent = 0 /\ client # g
  /\ client = Free => wire = <<>> /\ inner = <<>> /\ buf = <<>>

HalfSet == [op : {"text", "cont", "ping", "close"}, fin : BOOLEAN, part : Guis \X Nat \X Nat \X Nat]
Commands == {One(g, n) : g \in Guis, n \in Nat} \union {Two(g, n) : g \in Guis, n \in Nat}
GuiTypeOK ==
  /\ tab = [g \in Guis |-> [at |-> tab[g].at, sent |-> tab[g].sent, answers |-> tab[g].answers]]
  /\ \A g \in Guis : tab[g].sent \in Nat
  /\ slots = [i \in 1..Slots |-> slots[i]]
  /\ \A i \in 1..Slots : slots[i] \in Guis \union {Free, Page}
  /\ client \in Guis \union {Free}
  /\ buf \in Seq(HalfSet) /\ inner \in Seq(HalfSet) /\ wire \in Seq(HalfSet)
  /\ recv \in Seq(Commands) /\ handled \in [Guis -> Seq(Commands)]

GuiInv == GuiTypeOK /\ OnceEach /\ WholeBodies /\ CommandsOK

-----------------------------------------------------------------------------
(* Streams of halves of frames *)

\* Two sequences, one after the other.
LEMMA ConcatOf ==
  ASSUME NEW S, NEW s \in Seq(S), NEW t \in Seq(S)
  PROVE  /\ s \o t \in Seq(S) /\ Len(s \o t) = Len(s) + Len(t)
         /\ Len(s) \in Nat /\ Len(t) \in Nat
         /\ \A i \in 1..Len(s) : (s \o t)[i] = s[i]
         /\ \A i \in 1..Len(t) : (s \o t)[Len(s) + i] = t[i]
<1>1. /\ s \o t \in Seq(S) /\ Len(s \o t) = Len(s) + Len(t)
      /\ \A i \in 1..(Len(s) + Len(t)) : (s \o t)[i] = IF i <= Len(s) THEN s[i] ELSE t[i - Len(s)]
  BY ConcatProperties
<1>0. Len(s) \in Nat /\ Len(t) \in Nat
  OBVIOUS
<1>2. ASSUME NEW i \in 1..Len(s) PROVE (s \o t)[i] = s[i]
  BY <1>0, <1>1
<1>3. ASSUME NEW i \in 1..Len(t) PROVE (s \o t)[Len(s) + i] = t[i]
  <2>1. Len(s) + i \in 1..(Len(s) + Len(t)) /\ ~(Len(s) + i <= Len(s)) /\ (Len(s) + i) - Len(s) = i
    BY <1>0
  <2>2. QED BY <2>1, <1>1
<1>4. QED BY <1>0, <1>1, <1>2, <1>3

\* The two halves of a frame that is the last of its message.
LEMMA LastHalves ==
  ASSUME NEW g \in Guis, NEW op \in {"text", "cont", "ping", "close"}, NEW n \in Nat, NEW k \in Nat
  PROVE  /\ Halves(op, TRUE, g, n, k) \in Seq(HalfSet) /\ Len(Halves(op, TRUE, g, n, k)) = 2
         /\ Halves(op, TRUE, g, n, k)[1] = [op |-> op, fin |-> TRUE, part |-> <<g, n, k, 1>>]
         /\ Halves(op, TRUE, g, n, k)[2] = [op |-> op, fin |-> TRUE, part |-> <<g, n, k, 2>>]
<1> DEFINE f(h) == [op |-> op, fin |-> TRUE, part |-> <<g, n, k, h>>]
<1>1. ASSUME NEW h \in 1..2 PROVE f(h) \in HalfSet
  <2>1. <<g, n, k, h>> \in Guis \X Nat \X Nat \X Nat
    OBVIOUS
  <2>2. QED BY <2>1 DEF HalfSet
<1>2. Halves(op, TRUE, g, n, k) = [h \in 1..2 |-> f(h)]
  BY DEF Halves
<1> HIDE DEF f
<1>3. /\ [h \in 1..2 |-> f(h)] \in Seq(HalfSet) /\ Len([h \in 1..2 |-> f(h)]) = 2
      /\ [h \in 1..2 |-> f(h)][1] = f(1) /\ [h \in 1..2 |-> f(h)][2] = f(2)
  BY <1>1
<1>4. QED BY <1>2, <1>3 DEF f

\* The frames of a session, half by half.
LEMMA FramesAre ==
  ASSUME NEW g \in Guis, NEW n \in Nat
  PROVE  /\ InOneFrame(g, n) \in Seq(HalfSet) /\ Len(InOneFrame(g, n)) = 2
         /\ InOneFrame(g, n)[1] = [op |-> "text", fin |-> TRUE, part |-> <<g, n, 1, 1>>]
         /\ InOneFrame(g, n)[2] = [op |-> "text", fin |-> TRUE, part |-> <<g, n, 1, 2>>]
         /\ First(g, n) \in Seq(HalfSet) /\ Len(First(g, n)) = 2
         /\ First(g, n)[1] = [op |-> "text", fin |-> FALSE, part |-> <<g, n, 1, 1>>]
         /\ First(g, n)[2] = [op |-> "text", fin |-> FALSE, part |-> <<g, n, 1, 2>>]
         /\ Ping(g) \in Seq(HalfSet) /\ Len(Ping(g)) = 2
         /\ Ping(g)[1] = [op |-> "ping", fin |-> TRUE, part |-> <<g, 0, 1, 1>>]
         /\ Ping(g)[2] = [op |-> "ping", fin |-> TRUE, part |-> <<g, 0, 1, 2>>]
         /\ Second(g, n) \in Seq(HalfSet) /\ Len(Second(g, n)) = 2
         /\ Second(g, n)[1] = [op |-> "cont", fin |-> TRUE, part |-> <<g, n, 2, 1>>]
         /\ Second(g, n)[2] = [op |-> "cont", fin |-> TRUE, part |-> <<g, n, 2, 2>>]
         /\ Close(g) \in Seq(HalfSet) /\ Len(Close(g)) = 2
         /\ Close(g)[1] = [op |-> "close", fin |-> TRUE, part |-> <<g, 0, 1, 1>>]
         /\ Close(g)[2] = [op |-> "close", fin |-> TRUE, part |-> <<g, 0, 1, 2>>]
<1>0. /\ "text" \in {"text", "cont", "ping", "close"} /\ "cont" \in {"text", "cont", "ping", "close"}
      /\ "ping" \in {"text", "cont", "ping", "close"} /\ "close" \in {"text", "cont", "ping", "close"}
      /\ 0 \in Nat /\ 1 \in Nat /\ 2 \in Nat
  OBVIOUS
<1>1. /\ InOneFrame(g, n) \in Seq(HalfSet) /\ Len(InOneFrame(g, n)) = 2
      /\ InOneFrame(g, n)[1] = [op |-> "text", fin |-> TRUE, part |-> <<g, n, 1, 1>>]
      /\ InOneFrame(g, n)[2] = [op |-> "text", fin |-> TRUE, part |-> <<g, n, 1, 2>>]
  BY <1>0, LastHalves, ZenonT(60) DEF InOneFrame
<1>2. /\ Ping(g) \in Seq(HalfSet) /\ Len(Ping(g)) = 2
      /\ Ping(g)[1] = [op |-> "ping", fin |-> TRUE, part |-> <<g, 0, 1, 1>>]
      /\ Ping(g)[2] = [op |-> "ping", fin |-> TRUE, part |-> <<g, 0, 1, 2>>]
  BY <1>0, LastHalves, ZenonT(60) DEF Ping
<1>3. /\ Second(g, n) \in Seq(HalfSet) /\ Len(Second(g, n)) = 2
      /\ Second(g, n)[1] = [op |-> "cont", fin |-> TRUE, part |-> <<g, n, 2, 1>>]
      /\ Second(g, n)[2] = [op |-> "cont", fin |-> TRUE, part |-> <<g, n, 2, 2>>]
  BY <1>0, LastHalves, ZenonT(60) DEF Second
<1>4. /\ Close(g) \in Seq(HalfSet) /\ Len(Close(g)) = 2
      /\ Close(g)[1] = [op |-> "close", fin |-> TRUE, part |-> <<g, 0, 1, 1>>]
      /\ Close(g)[2] = [op |-> "close", fin |-> TRUE, part |-> <<g, 0, 1, 2>>]
  BY <1>0, LastHalves, ZenonT(60) DEF Close
<1> DEFINE f(h) == [op |-> "text", fin |-> FALSE, part |-> <<g, n, 1, h>>]
<1>5. ASSUME NEW h \in 1..2 PROVE f(h) \in HalfSet
  <2>1. <<g, n, 1, h>> \in Guis \X Nat \X Nat \X Nat
    OBVIOUS
  <2>2. QED BY <2>1 DEF HalfSet
<1>6. First(g, n) = [h \in 1..2 |-> f(h)]
  BY DEF First, Halves
<1> HIDE DEF f
<1>7. /\ [h \in 1..2 |-> f(h)] \in Seq(HalfSet) /\ Len([h \in 1..2 |-> f(h)]) = 2
      /\ [h \in 1..2 |-> f(h)][1] = f(1) /\ [h \in 1..2 |-> f(h)][2] = f(2)
  BY <1>5
<1>8. /\ First(g, n) \in Seq(HalfSet) /\ Len(First(g, n)) = 2
      /\ First(g, n)[1] = [op |-> "text", fin |-> FALSE, part |-> <<g, n, 1, 1>>]
      /\ First(g, n)[2] = [op |-> "text", fin |-> FALSE, part |-> <<g, n, 1, 2>>]
  BY <1>6, <1>7 DEF f
<1>9. QED BY <1>1, <1>2, <1>3, <1>4, <1>8, Zenon

\* A frame stays where it is when more follows.
LEMMA FrameStays ==
  ASSUME NEW s \in Seq(HalfSet), NEW t \in Seq(HalfSet), NEW p \in Nat, p >= 1,
         NEW f, FrameAt(s, p, f)
  PROVE  FrameAt(s \o t, p, f)
<1>1. /\ Len(s \o t) = Len(s) + Len(t) /\ Len(s) \in Nat /\ Len(t) \in Nat
      /\ \A i \in 1..Len(s) : (s \o t)[i] = s[i]
  BY ConcatOf
<1>2. p + 1 <= Len(s) /\ s[p] = f[1] /\ s[p + 1] = f[2]
  BY DEF FrameAt
<1>3. p \in 1..Len(s) /\ p + 1 \in 1..Len(s) /\ p + 1 <= Len(s) + Len(t)
  BY <1>1, <1>2
<1>4. QED BY <1>1, <1>2, <1>3 DEF FrameAt

\* A frame is further on when something comes before.
LEMMA FrameMoves ==
  ASSUME NEW s \in Seq(HalfSet), NEW t \in Seq(HalfSet), NEW p \in Nat, p >= 1,
         NEW f, FrameAt(t, p, f)
  PROVE  FrameAt(s \o t, Len(s) + p, f)
<1>1. /\ Len(s \o t) = Len(s) + Len(t) /\ Len(s) \in Nat /\ Len(t) \in Nat
      /\ \A i \in 1..Len(t) : (s \o t)[Len(s) + i] = t[i]
  BY ConcatOf
<1>2. p + 1 <= Len(t) /\ t[p] = f[1] /\ t[p + 1] = f[2]
  BY DEF FrameAt
<1>3. /\ p \in 1..Len(t) /\ p + 1 \in 1..Len(t) /\ (Len(s) + p) + 1 <= Len(s) + Len(t)
      /\ (Len(s) + p) + 1 = Len(s) + (p + 1)
  BY <1>1, <1>2
<1>4. QED BY <1>1, <1>2, <1>3 DEF FrameAt

\* Two frames, one after the other.
LEMMA FrameAfter ==
  ASSUME NEW s \in Seq(HalfSet), NEW t \in Seq(HalfSet), NEW f, Len(t) = 2, FrameAt(t, 1, f),
         NEW l \in Nat, Len(s) = l
  PROVE  /\ s \o t \in Seq(HalfSet) /\ Len(s \o t) = l + 2 /\ FrameAt(s \o t, l + 1, f)
<1>1. s \o t \in Seq(HalfSet) /\ Len(s \o t) = Len(s) + Len(t)
  BY ConcatOf
<1>2. 1 \in Nat /\ 1 >= 1
  OBVIOUS
<1>3. FrameAt(s \o t, Len(s) + 1, f)
  BY <1>2, FrameMoves
<1>4. QED BY <1>1, <1>3

\* Frames of two halves each are where they were put.
LEMMA ThreeFrames ==
  ASSUME NEW a \in Seq(HalfSet), NEW b \in Seq(HalfSet), NEW c \in Seq(HalfSet),
         Len(a) = 2, Len(b) = 2, Len(c) = 2
  PROVE  /\ (a \o b) \o c \in Seq(HalfSet) /\ Len((a \o b) \o c) = 6
         /\ FrameAt((a \o b) \o c, 1, a) /\ FrameAt((a \o b) \o c, 3, b)
         /\ FrameAt((a \o b) \o c, 5, c)
<1> DEFINE d == a \o b
<1>1. FrameAt(a, 1, a) /\ FrameAt(b, 1, b) /\ FrameAt(c, 1, c)
  BY DEF FrameAt
<1>2. 1 \in Nat /\ 1 >= 1 /\ 2 \in Nat /\ 3 \in Nat /\ 3 >= 1 /\ 4 \in Nat
      /\ 2 + 2 = 4 /\ 2 + 1 = 3 /\ 4 + 2 = 6 /\ 4 + 1 = 5
  OBVIOUS
<1>3. FrameAt(d, 1, a)
  BY <1>1, <1>2, FrameStays
<1>4. d \in Seq(HalfSet) /\ Len(d) = 2 + 2 /\ FrameAt(d, 2 + 1, b)
  BY <1>1, <1>2, FrameAfter
<1>5. d \in Seq(HalfSet) /\ Len(d) = 4 /\ FrameAt(d, 3, b)
  BY <1>2, <1>4
<1> HIDE DEF d
<1>6. d \o c \in Seq(HalfSet) /\ Len(d \o c) = 4 + 2 /\ FrameAt(d \o c, 4 + 1, c)
  BY <1>1, <1>2, <1>5, FrameAfter
<1>7. FrameAt(d \o c, 1, a)
  BY <1>2, <1>3, <1>5, FrameStays
<1>8. FrameAt(d \o c, 3, b)
  BY <1>2, <1>5, FrameStays
<1>9. d \o c \in Seq(HalfSet) /\ Len(d \o c) = 6 /\ FrameAt(d \o c, 5, c)
  BY <1>2, <1>6
<1>10. QED BY <1>7, <1>8, <1>9 DEF d

\* A message in two frames, with a ping between them.
LEMMA TwoFramesAre ==
  ASSUME NEW g \in Guis, NEW n \in Nat
  PROVE  /\ InTwoFrames(g, n) \in Seq(HalfSet) /\ Len(InTwoFrames(g, n)) = 6
         /\ FrameAt(InTwoFrames(g, n), 1, First(g, n)) /\ FrameAt(InTwoFrames(g, n), 3, Ping(g))
         /\ FrameAt(InTwoFrames(g, n), 5, Second(g, n))
<1>1. InTwoFrames(g, n) = (First(g, n) \o Ping(g)) \o Second(g, n)
  BY DEF InTwoFrames, First, Ping, Second
<1>2. /\ First(g, n) \in Seq(HalfSet) /\ Len(First(g, n)) = 2
      /\ Ping(g) \in Seq(HalfSet) /\ Len(Ping(g)) = 2
      /\ Second(g, n) \in Seq(HalfSet) /\ Len(Second(g, n)) = 2
  BY FramesAre
<1>3. QED BY <1>1, <1>2, ThreeFrames

\* The operations of control frames.
LEMMA ControlFrames ==
  ASSUME NEW g \in Guis
  PROVE  /\ Ping(g)[1].op = "ping" /\ Ping(g)[2].op = "ping"
         /\ Close(g)[1].op = "close" /\ Close(g)[2].op = "close"
         /\ Close(g) \in Seq(HalfSet) /\ Len(Close(g)) = 2
<1>1. PICK n \in Nat : n = 0
  OBVIOUS
<1>2. /\ Ping(g)[1] = [op |-> "ping", fin |-> TRUE, part |-> <<g, 0, 1, 1>>]
      /\ Ping(g)[2] = [op |-> "ping", fin |-> TRUE, part |-> <<g, 0, 1, 2>>]
      /\ Close(g)[1] = [op |-> "close", fin |-> TRUE, part |-> <<g, 0, 1, 1>>]
      /\ Close(g)[2] = [op |-> "close", fin |-> TRUE, part |-> <<g, 0, 1, 2>>]
      /\ Close(g) \in Seq(HalfSet) /\ Len(Close(g)) = 2
  <2>1. InOneFrame(g, n) = InOneFrame(g, n)
    OBVIOUS
  <2>2. QED BY <2>1, FramesAre, Zenon
<1>3. QED BY <1>2

\* Which halves end a message.
LEMMA WhatEnds ==
  ASSUME NEW g \in Guis, NEW n \in Nat
  PROVE  /\ EndsMessage(InOneFrame(g, n)[2]) /\ InOneFrame(g, n)[2].part[2] = n
         /\ EndsMessage(Second(g, n)[2]) /\ Second(g, n)[2].part[2] = n
         /\ ~EndsMessage(InOneFrame(g, n)[1]) /\ ~EndsMessage(Second(g, n)[1])
         /\ ~EndsMessage(First(g, n)[1]) /\ ~EndsMessage(First(g, n)[2])
         /\ ~EndsMessage(Ping(g)[1]) /\ ~EndsMessage(Ping(g)[2])
         /\ ~EndsMessage(Close(g)[1]) /\ ~EndsMessage(Close(g)[2])
<1>0. /\ InOneFrame(g, n)[1] = [op |-> "text", fin |-> TRUE, part |-> <<g, n, 1, 1>>]
      /\ Second(g, n)[1] = [op |-> "cont", fin |-> TRUE, part |-> <<g, n, 2, 1>>]
      /\ First(g, n)[1] = [op |-> "text", fin |-> FALSE, part |-> <<g, n, 1, 1>>]
      /\ First(g, n)[2] = [op |-> "text", fin |-> FALSE, part |-> <<g, n, 1, 2>>]
  BY FramesAre
<1>1. /\ ~EndsMessage(Ping(g)[1]) /\ ~EndsMessage(Ping(g)[2])
      /\ ~EndsMessage(Close(g)[1]) /\ ~EndsMessage(Close(g)[2])
  BY ControlFrames DEF EndsMessage
<1>2. ~EndsMessage(First(g, n)[1]) /\ ~EndsMessage(First(g, n)[2])
  <2>1. First(g, n)[1].fin = FALSE /\ First(g, n)[2].fin = FALSE
    BY <1>0
  <2>2. QED BY <2>1 DEF EndsMessage
<1>3. ~EndsMessage(InOneFrame(g, n)[1]) /\ ~EndsMessage(Second(g, n)[1])
  <2>1. InOneFrame(g, n)[1].part = <<g, n, 1, 1>> /\ Second(g, n)[1].part = <<g, n, 2, 1>>
    BY <1>0
  <2>2. InOneFrame(g, n)[1].part[4] = 1 /\ Second(g, n)[1].part[4] = 1
    BY <2>1
  <2>3. QED BY <2>2 DEF EndsMessage
<1>4. EndsMessage(InOneFrame(g, n)[2]) /\ InOneFrame(g, n)[2].part[2] = n
  <2> DEFINE x == InOneFrame(g, n)[2]
  <2>1. x = [op |-> "text", fin |-> TRUE, part |-> <<g, n, 1, 2>>]
    BY FramesAre
  <2> HIDE DEF x
  <2>2. x.op = "text" /\ x.fin = TRUE /\ x.part[4] = 2 /\ x.part[2] = n
    BY <2>1
  <2>3. QED BY <2>2 DEF EndsMessage, x
<1>5. EndsMessage(Second(g, n)[2]) /\ Second(g, n)[2].part[2] = n
  <2> DEFINE x == Second(g, n)[2]
  <2>1. x = [op |-> "cont", fin |-> TRUE, part |-> <<g, n, 2, 2>>]
    BY FramesAre
  <2> HIDE DEF x
  <2>2. x.op = "cont" /\ x.fin = TRUE /\ x.part[4] = 2 /\ x.part[2] = n
    BY <2>1
  <2>3. QED BY <2>2 DEF EndsMessage, x
<1>6. QED BY <1>1, <1>2, <1>3, <1>4, <1>5

\* A half of a frame that ends a message has its number.
LEMMA NumberOfHalf == ASSUME NEW x \in HalfSet PROVE x.part[2] \in Nat
<1>1. PICK o \in {"text", "cont", "ping", "close"}, f \in BOOLEAN, t \in Guis \X Nat \X Nat \X Nat :
        x = [op |-> o, fin |-> f, part |-> t]
  BY DEF HalfSet
<1>2. x.part = t
  BY <1>1
<1>3. QED BY <1>2

\* What follows a message still follows it when a frame before it is parsed.
LEMMA BetweenMoves ==
  ASSUME NEW s \in Seq(HalfSet), NEW t \in Seq(HalfSet), Len(s) = Len(t) + 2,
         \A i \in 1..Len(t) : t[i] = s[i + 2],
         NEW p \in Nat, p >= 1, NEW q \in Nat, q = p + 2, NEW g, NEW n, NEW x, Between(s, q, g, n, x)
  PROVE  Between(t, p, g, n, x)
<1>0. Len(s) \in Nat /\ Len(t) \in Nat
  OBVIOUS
<1>1. ASSUME NEW r \in Nat, r >= 1, NEW u \in Nat, u = r + 2, NEW f, FrameAt(s, u, f)
      PROVE  FrameAt(t, r, f)
  <2>1. u + 1 <= Len(s) /\ s[u] = f[1] /\ s[u + 1] = f[2]
    BY <1>1 DEF FrameAt
  <2>2. /\ r + 1 <= Len(t) /\ r \in 1..Len(t) /\ r + 1 \in 1..Len(t) /\ r + 2 = u
        /\ (r + 1) + 2 = u + 1
    BY <1>0, <1>1, <2>1
  <2>3. t[r] = s[r + 2] /\ t[r + 1] = s[(r + 1) + 2]
    BY <2>2
  <2>4. QED BY <2>1, <2>2, <2>3 DEF FrameAt
<1>2. p + 2 \in Nat /\ p + 4 \in Nat /\ p + 2 >= 1 /\ p + 4 >= 1
      /\ q + 2 \in Nat /\ q + 4 \in Nat /\ q + 2 = (p + 2) + 2 /\ q + 4 = (p + 4) + 2
  OBVIOUS
<1>3. CASE q = Len(s) + 1 /\ n = x.sent
  <2>1. p = Len(t) + 1
    BY <1>0, <1>3
  <2>2. QED BY <1>3, <2>1 DEF Between
<1>4. CASE FrameAt(s, q, Close(g)) /\ x.at = "gone"
  BY <1>1, <1>4 DEF Between
<1>5. CASE FrameAt(s, q, InOneFrame(g, n + 1))
  BY <1>1, <1>5 DEF Between
<1>6. CASE /\ FrameAt(s, q, First(g, n + 1)) /\ FrameAt(s, q + 2, Ping(g))
           /\ FrameAt(s, q + 4, Second(g, n + 1))
  <2>1. FrameAt(t, p, First(g, n + 1))
    BY <1>1, <1>6
  <2>2. FrameAt(t, p + 2, Ping(g))
    BY <1>1, <1>2, <1>6
  <2>3. FrameAt(t, p + 4, Second(g, n + 1))
    BY <1>1, <1>2, <1>6
  <2>4. QED BY <2>1, <2>2, <2>3 DEF Between
<1>7. QED BY <1>3, <1>4, <1>5, <1>6 DEF Between

\* Nor does it disturb what follows the later ones.
LEMMA ContinuedMoves ==
  ASSUME NEW s \in Seq(HalfSet), NEW t \in Seq(HalfSet), Len(s) = Len(t) + 2,
         \A i \in 1..Len(t) : t[i] = s[i + 2], NEW g, NEW x, Continued(s, g, x)
  PROVE  Continued(t, g, x)
<1>0. Len(s) \in Nat /\ Len(t) \in Nat /\ DOMAIN s = 1..Len(s) /\ DOMAIN t = 1..Len(t)
  OBVIOUS
<1>1. ASSUME NEW p \in DOMAIN t, EndsMessage(t[p])
      PROVE  t[p].part[2] <= x.sent /\ Between(t, p + 1, g, t[p].part[2], x)
  <2>1. p + 2 \in DOMAIN s /\ t[p] = s[p + 2]
    BY <1>0
  <2>2. s[p + 2].part[2] <= x.sent /\ Between(s, (p + 2) + 1, g, s[p + 2].part[2], x)
    BY <1>1, <2>1 DEF Continued
  <2>3. p + 1 \in Nat /\ p + 1 >= 1 /\ (p + 2) + 1 \in Nat /\ (p + 2) + 1 = (p + 1) + 2
    BY <1>0
  <2>4. Between(t, p + 1, g, s[p + 2].part[2], x)
    BY <2>2, <2>3, BetweenMoves, SMTT(60)
  <2>5. QED BY <2>1, <2>2, <2>4
<1>2. QED BY <1>1 DEF Continued

\* What the parser takes from the stream, and what it leaves.
LEMMA Parsing ==
  ASSUME NEW s \in Seq(HalfSet), NEW t \in Seq(HalfSet), Len(s) = Len(t) + 2,
         \A i \in 1..Len(t) : t[i] = s[i + 2], NEW g \in Guis, NEW x, NEW f, NEW e \in Nat,
         Continued(s, g, x), Begun(s, f, g, e, x), s[1].op # "close"
  PROVE  \/ /\ s[1].op = "text" /\ s[1].fin = TRUE /\ <<s[1].part, s[2].part>> = One(g, e + 1)
            /\ f.on = FALSE /\ e + 1 <= x.sent /\ Between(t, 1, g, e + 1, x)
         \/ /\ s[1].op = "text" /\ s[1].fin = FALSE /\ <<s[1].part, s[2].part>> = One(g, e + 1)
            /\ FrameAt(t, 1, Ping(g)) /\ FrameAt(t, 3, Second(g, e + 1))
         \/ /\ s[1].op = "ping" /\ f = [on |-> TRUE, acc |-> One(g, e + 1)]
            /\ FrameAt(t, 1, Second(g, e + 1))
         \/ /\ s[1].op = "cont" /\ s[1].fin = TRUE /\ f = [on |-> TRUE, acc |-> One(g, e + 1)]
            /\ s[1].part = <<g, e + 1, 2, 1>> /\ s[2].part = <<g, e + 1, 2, 2>>
            /\ e + 1 <= x.sent /\ Between(t, 1, g, e + 1, x)
<1>0. Len(s) \in Nat /\ Len(t) \in Nat /\ DOMAIN s = 1..Len(s) /\ Len(s) >= 2 /\ e + 1 \in Nat
      /\ 1 + 1 = 2 /\ 1 + 2 = 3 /\ 1 + 4 = 5 /\ 3 + 1 = 4
  OBVIOUS
<1>1. ASSUME NEW r \in Nat, r >= 1, NEW u \in Nat, u = r + 2, NEW k, FrameAt(s, u, k)
      PROVE  FrameAt(t, r, k)
  <2>1. u + 1 <= Len(s) /\ s[u] = k[1] /\ s[u + 1] = k[2]
    BY <1>1 DEF FrameAt
  <2>2. /\ r + 1 <= Len(t) /\ r \in 1..Len(t) /\ r + 1 \in 1..Len(t) /\ r + 2 = u
        /\ (r + 1) + 2 = u + 1
    BY <1>0, <1>1, <2>1
  <2>3. t[r] = s[r + 2] /\ t[r + 1] = s[(r + 1) + 2]
    BY <2>2
  <2>4. QED BY <2>1, <2>2, <2>3 DEF FrameAt
<1>2. ASSUME EndsMessage(s[2]), s[2].part[2] = e + 1
      PROVE  e + 1 <= x.sent /\ Between(t, 1, g, e + 1, x)
  <2>1. 2 \in DOMAIN s /\ 2 + 1 = 3 /\ 1 \in Nat /\ 1 >= 1 /\ 3 \in Nat /\ 3 = 1 + 2
    BY <1>0
  <2>2. e + 1 <= x.sent /\ Between(s, 2 + 1, g, e + 1, x)
    BY <1>2, <2>1 DEF Continued
  <2>3. Between(s, 3, g, e + 1, x)
    BY <2>1, <2>2
  <2>4. Between(t, 1, g, e + 1, x)
    BY <2>1, <2>3, BetweenMoves
  <2>5. QED BY <2>2, <2>4
<1>3. ASSUME NEW k, FrameAt(s, 1, k) PROVE s[1] = k[1] /\ s[2] = k[2]
  BY <1>0, <1>3 DEF FrameAt
<1>4. 1 \in Nat /\ 3 \in Nat /\ 5 \in Nat /\ 1 >= 1 /\ 3 >= 1 /\ 3 = 1 + 2 /\ 5 = 3 + 2
  OBVIOUS
<1>5. CASE f.on = FALSE /\ Between(s, 1, g, e, x)
  <2>1. 1 # Len(s) + 1
    BY <1>0
  <2>2. ~FrameAt(s, 1, Close(g))
    <3>1. SUFFICES ASSUME FrameAt(s, 1, Close(g)) PROVE FALSE
      OBVIOUS
    <3>2. s[1] = Close(g)[1]
      BY <1>3, <3>1
    <3>3. s[1].op = "close"
      BY <3>2, ControlFrames
    <3>4. QED BY <3>3
  <2>3. CASE FrameAt(s, 1, InOneFrame(g, e + 1))
    <3>1. s[1] = InOneFrame(g, e + 1)[1] /\ s[2] = InOneFrame(g, e + 1)[2]
      BY <1>3, <2>3
    <3>2. /\ s[1] = [op |-> "text", fin |-> TRUE, part |-> <<g, e + 1, 1, 1>>]
          /\ s[2] = [op |-> "text", fin |-> TRUE, part |-> <<g, e + 1, 1, 2>>]
      BY <1>0, <3>1, FramesAre
    <3>3. EndsMessage(s[2]) /\ s[2].part[2] = e + 1
      BY <1>0, <3>1, WhatEnds
    <3>4. /\ s[1].op = "text" /\ s[1].fin = TRUE
          /\ s[1].part = <<g, e + 1, 1, 1>> /\ s[2].part = <<g, e + 1, 1, 2>>
      BY <3>2
    <3>5. <<s[1].part, s[2].part>> = One(g, e + 1)
      BY <3>4 DEF One
    <3>6. QED BY <1>2, <1>5, <3>3, <3>4, <3>5
  <2>4. CASE /\ FrameAt(s, 1, First(g, e + 1)) /\ FrameAt(s, 1 + 2, Ping(g))
             /\ FrameAt(s, 1 + 4, Second(g, e + 1))
    <3>1. s[1] = First(g, e + 1)[1] /\ s[2] = First(g, e + 1)[2]
      BY <1>3, <2>4
    <3>2. /\ s[1] = [op |-> "text", fin |-> FALSE, part |-> <<g, e + 1, 1, 1>>]
          /\ s[2] = [op |-> "text", fin |-> FALSE, part |-> <<g, e + 1, 1, 2>>]
      BY <1>0, <3>1, FramesAre
    <3>3. FrameAt(s, 3, Ping(g)) /\ FrameAt(s, 5, Second(g, e + 1))
      BY <1>0, <2>4
    <3>4. /\ s[1].op = "text" /\ s[1].fin = FALSE
          /\ s[1].part = <<g, e + 1, 1, 1>> /\ s[2].part = <<g, e + 1, 1, 2>>
      BY <3>2
    <3>5. <<s[1].part, s[2].part>> = One(g, e + 1)
      BY <3>4 DEF One
    <3>6. FrameAt(t, 1, Ping(g))
      BY <1>1, <1>4, <3>3
    <3>7. FrameAt(t, 3, Second(g, e + 1))
      BY <1>1, <1>4, <3>3
    <3>8. QED BY <3>4, <3>5, <3>6, <3>7
  <2>5. QED BY <1>5, <2>1, <2>2, <2>3, <2>4 DEF Between
<1>6. CASE /\ f = [on |-> TRUE, acc |-> One(g, e + 1)]
           /\ FrameAt(s, 1, Ping(g)) /\ FrameAt(s, 3, Second(g, e + 1))
  <2>1. s[1] = Ping(g)[1]
    BY <1>3, <1>6
  <2>2. s[1].op = "ping"
    BY <2>1, ControlFrames
  <2>3. FrameAt(t, 1, Second(g, e + 1))
    BY <1>1, <1>4, <1>6
  <2>4. QED BY <1>6, <2>2, <2>3
<1>7. CASE f = [on |-> TRUE, acc |-> One(g, e + 1)] /\ FrameAt(s, 1, Second(g, e + 1))
  <2>1. s[1] = Second(g, e + 1)[1] /\ s[2] = Second(g, e + 1)[2]
    BY <1>3, <1>7
  <2>2. /\ s[1] = [op |-> "cont", fin |-> TRUE, part |-> <<g, e + 1, 2, 1>>]
        /\ s[2] = [op |-> "cont", fin |-> TRUE, part |-> <<g, e + 1, 2, 2>>]
    BY <1>0, <2>1, FramesAre
  <2>3. EndsMessage(s[2]) /\ s[2].part[2] = e + 1
    BY <1>0, <2>1, WhatEnds
  <2>4. /\ s[1].op = "cont" /\ s[1].fin = TRUE
        /\ s[1].part = <<g, e + 1, 2, 1>> /\ s[2].part = <<g, e + 1, 2, 2>>
    BY <2>2
  <2>5. QED BY <1>2, <1>7, <2>3, <2>4
<1>8. QED BY <1>5, <1>6, <1>7 DEF Begun

\* What follows a message still does when the session goes on.
LEMMA BetweenStays ==
  ASSUME NEW s \in Seq(HalfSet), NEW m \in Seq(HalfSet), NEW p \in Nat, p >= 1, NEW g, NEW n,
         NEW x, NEW y, x.at # "gone", Between(s, p, g, n, x),
         Between(s \o m, Len(s) + 1, g, x.sent, y)
  PROVE  Between(s \o m, p, g, n, y)
<1>1. p + 2 \in Nat /\ p + 4 \in Nat /\ p + 2 >= 1 /\ p + 4 >= 1
  OBVIOUS
<1>2. CASE p = Len(s) + 1 /\ n = x.sent
  BY <1>2
<1>3. CASE FrameAt(s, p, InOneFrame(g, n + 1))
  <2>1. FrameAt(s \o m, p, InOneFrame(g, n + 1))
    BY <1>3, FrameStays
  <2>2. QED BY <2>1 DEF Between
<1>4. CASE /\ FrameAt(s, p, First(g, n + 1)) /\ FrameAt(s, p + 2, Ping(g))
           /\ FrameAt(s, p + 4, Second(g, n + 1))
  <2>1. FrameAt(s \o m, p, First(g, n + 1))
    BY <1>4, FrameStays
  <2>2. FrameAt(s \o m, p + 2, Ping(g))
    BY <1>1, <1>4, FrameStays
  <2>3. FrameAt(s \o m, p + 4, Second(g, n + 1))
    BY <1>1, <1>4, FrameStays
  <2>4. QED BY <2>1, <2>2, <2>3 DEF Between
<1>5. QED BY <1>2, <1>3, <1>4 DEF Between

\* So do all of them, and the last of what is added ends the last message.
LEMMA ContinuedStays ==
  ASSUME NEW s \in Seq(HalfSet), NEW m \in Seq(HalfSet), NEW g, NEW x, NEW y,
         x.sent \in Nat, y.sent \in Nat, x.sent <= y.sent, x.at # "gone", Continued(s, g, x),
         Between(s \o m, Len(s) + 1, g, x.sent, y),
         \A i \in 1..Len(m) : EndsMessage(m[i]) => i = Len(m) /\ m[i].part[2] = y.sent
  PROVE  Continued(s \o m, g, y)
<1> DEFINE all == s \o m
<1>1. /\ all \in Seq(HalfSet) /\ Len(all) = Len(s) + Len(m) /\ Len(s) \in Nat /\ Len(m) \in Nat
      /\ \A i \in 1..Len(s) : all[i] = s[i]
      /\ \A i \in 1..Len(m) : all[Len(s) + i] = m[i]
  BY ConcatOf
<1>2. DOMAIN all = 1..Len(all) /\ DOMAIN s = 1..Len(s)
  BY <1>1
<1>3. \A p \in Nat : \A n : p >= 1 /\ Between(s, p, g, n, x) => Between(all, p, g, n, y)
  BY BetweenStays
<1> HIDE DEF all
<1>4. ASSUME NEW p \in DOMAIN all, EndsMessage(all[p])
      PROVE  all[p].part[2] <= y.sent /\ Between(all, p + 1, g, all[p].part[2], y)
  <2>1. CASE p <= Len(s)
    <3>1. p \in DOMAIN s /\ all[p] = s[p]
      BY <1>1, <1>2, <2>1
    <3>2. s[p].part[2] <= x.sent /\ Between(s, p + 1, g, s[p].part[2], x)
      BY <1>4, <3>1 DEF Continued
    <3>3. s[p] \in HalfSet
      BY <3>1
    <3>4. s[p].part[2] \in Nat
      BY <3>3, NumberOfHalf
    <3>5. s[p].part[2] <= y.sent
      BY <3>2, <3>4
    <3>6. p + 1 \in Nat /\ p + 1 >= 1
      BY <1>1, <3>1
    <3>7. Between(all, p + 1, g, s[p].part[2], y)
      BY <1>3, <3>2, <3>6
    <3>8. QED BY <3>1, <3>5, <3>7
  <2>2. CASE ~(p <= Len(s))
    <3>1. PICK i \in 1..Len(m) : p = Len(s) + i
      <4>1. p - Len(s) \in 1..Len(m) /\ p = Len(s) + (p - Len(s))
        BY <1>1, <1>2, <2>2
      <4>2. QED BY <4>1
    <3>2. all[p] = m[i]
      BY <1>1, <3>1
    <3>3. i = Len(m) /\ m[i].part[2] = y.sent
      BY <1>4, <3>2
    <3>4. p + 1 = Len(all) + 1
      BY <1>1, <3>1, <3>3
    <3>5. y.sent <= y.sent
      OBVIOUS
    <3>6. QED BY <3>2, <3>3, <3>4, <3>5 DEF Between
  <2>3. QED BY <2>1, <2>2
<1>5. QED BY <1>2, <1>4 DEF Continued, all

\* And the message that has begun.
LEMMA BegunStays ==
  ASSUME NEW s \in Seq(HalfSet), NEW m \in Seq(HalfSet), NEW g, NEW f, NEW e, NEW x, NEW y,
         x.at # "gone", Begun(s, f, g, e, x), Between(s \o m, Len(s) + 1, g, x.sent, y)
  PROVE  Begun(s \o m, f, g, e, y)
<1>1. 1 \in Nat /\ 1 >= 1 /\ 3 \in Nat /\ 3 >= 1
  OBVIOUS
<1>2. CASE f.on = FALSE /\ Between(s, 1, g, e, x)
  <2>1. Between(s \o m, 1, g, e, y)
    BY <1>1, <1>2, BetweenStays
  <2>2. QED BY <1>2, <2>1 DEF Begun
<1>3. CASE /\ f = [on |-> TRUE, acc |-> One(g, e + 1)]
           /\ FrameAt(s, 1, Ping(g)) /\ FrameAt(s, 3, Second(g, e + 1))
  <2>1. FrameAt(s \o m, 1, Ping(g)) /\ FrameAt(s \o m, 3, Second(g, e + 1))
    BY <1>1, <1>3, FrameStays
  <2>2. QED BY <1>3, <2>1 DEF Begun
<1>4. CASE f = [on |-> TRUE, acc |-> One(g, e + 1)] /\ FrameAt(s, 1, Second(g, e + 1))
  <2>1. FrameAt(s \o m, 1, Second(g, e + 1))
    BY <1>1, <1>4, FrameStays
  <2>2. QED BY <1>4, <2>1 DEF Begun
<1>5. QED BY <1>2, <1>3, <1>4 DEF Begun

\* A command sent keeps the stream in order.
LEMMA SentMore ==
  ASSUME NEW s \in Seq(HalfSet), NEW g \in Guis, NEW f, NEW e, NEW x, NEW y, NEW m,
         x.sent \in Nat, x.at # "gone", y.sent = x.sent + 1,
         m = InOneFrame(g, y.sent) \/ m = InTwoFrames(g, y.sent),
         Continued(s, g, x), Begun(s, f, g, e, x)
  PROVE  m \in Seq(HalfSet) /\ Continued(s \o m, g, y) /\ Begun(s \o m, f, g, e, y)
<1>1. y.sent \in Nat /\ x.sent <= y.sent /\ Len(s) \in Nat
  OBVIOUS
<1>2. 1 \in Nat /\ 3 \in Nat /\ 5 \in Nat /\ 1 >= 1 /\ 3 >= 1 /\ 5 >= 1
  OBVIOUS
<1>3. CASE m = InOneFrame(g, y.sent)
  <2>1. m \in Seq(HalfSet) /\ Len(m) = 2 /\ FrameAt(m, 1, InOneFrame(g, y.sent))
    <3>1. m \in Seq(HalfSet) /\ Len(m) = 2
      BY <1>1, <1>3, FramesAre
    <3>2. FrameAt(m, 1, m)
      BY <3>1 DEF FrameAt
    <3>3. QED BY <1>3, <3>1, <3>2
  <2>2. FrameAt(s \o m, Len(s) + 1, InOneFrame(g, y.sent))
    BY <1>2, <2>1, FrameMoves
  <2>3. Between(s \o m, Len(s) + 1, g, x.sent, y)
    BY <2>2 DEF Between
  <2>4. ASSUME NEW i \in 1..Len(m), EndsMessage(m[i]) PROVE i = Len(m) /\ m[i].part[2] = y.sent
    <3>1. i = 1 \/ i = 2
      BY <2>1
    <3>2. ~EndsMessage(m[1]) /\ m[2].part[2] = y.sent
      BY <1>1, <1>3, WhatEnds
    <3>3. QED BY <2>1, <2>4, <3>1, <3>2
  <2>5. Continued(s \o m, g, y)
    BY <1>1, <2>1, <2>3, <2>4, ContinuedStays
  <2>6. QED BY <2>1, <2>3, <2>5, BegunStays
<1>4. CASE m = InTwoFrames(g, y.sent)
  <2>1. /\ m \in Seq(HalfSet) /\ Len(m) = 6 /\ FrameAt(m, 1, First(g, y.sent))
        /\ FrameAt(m, 3, Ping(g)) /\ FrameAt(m, 5, Second(g, y.sent))
    BY <1>1, <1>4, TwoFramesAre
  <2>2. FrameAt(s \o m, Len(s) + 1, First(g, y.sent))
    BY <1>2, <2>1, FrameMoves
  <2>3. FrameAt(s \o m, Len(s) + 3, Ping(g))
    BY <1>2, <2>1, FrameMoves
  <2>4. FrameAt(s \o m, Len(s) + 5, Second(g, y.sent))
    BY <1>2, <2>1, FrameMoves
  <2>5. (Len(s) + 1) + 2 = Len(s) + 3 /\ (Len(s) + 1) + 4 = Len(s) + 5
    BY <1>1
  <2>6. Between(s \o m, Len(s) + 1, g, x.sent, y)
    BY <2>2, <2>3, <2>4, <2>5 DEF Between
  <2>7. ASSUME NEW i \in 1..Len(m), EndsMessage(m[i]) PROVE i = Len(m) /\ m[i].part[2] = y.sent
    <3>1. i = 1 \/ i = 2 \/ i = 3 \/ i = 4 \/ i = 5 \/ i = 6
      BY <2>1
    <3>2. 1 + 1 = 2 /\ 3 + 1 = 4 /\ 5 + 1 = 6
      OBVIOUS
    <3>3. /\ m[1] = First(g, y.sent)[1] /\ m[2] = First(g, y.sent)[2]
          /\ m[3] = Ping(g)[1] /\ m[4] = Ping(g)[2]
          /\ m[5] = Second(g, y.sent)[1] /\ m[6] = Second(g, y.sent)[2]
      BY <2>1, <3>2 DEF FrameAt
    <3>4. /\ ~EndsMessage(First(g, y.sent)[1]) /\ ~EndsMessage(First(g, y.sent)[2])
          /\ ~EndsMessage(Ping(g)[1]) /\ ~EndsMessage(Ping(g)[2])
          /\ ~EndsMessage(Second(g, y.sent)[1]) /\ Second(g, y.sent)[2].part[2] = y.sent
      BY <1>1, WhatEnds
    <3>5. i = 6
      BY <2>7, <3>1, <3>3, <3>4
    <3>6. QED BY <2>1, <3>3, <3>4, <3>5
  <2>8. Continued(s \o m, g, y)
    BY <1>1, <2>1, <2>6, <2>7, ContinuedStays
  <2>9. QED BY <2>1, <2>6, <2>8, BegunStays
<1>5. QED BY <1>3, <1>4

\* So does the goodbye.
LEMMA LeftMore ==
  ASSUME NEW s \in Seq(HalfSet), NEW g \in Guis, NEW f, NEW e, NEW x, NEW y,
         x.sent \in Nat, x.at # "gone", y.sent = x.sent, y.at = "gone",
         Continued(s, g, x), Begun(s, f, g, e, x)
  PROVE  Close(g) \in Seq(HalfSet) /\ Continued(s \o Close(g), g, y) /\ Begun(s \o Close(g), f, g, e, y)
<1> DEFINE m == Close(g)
<1>0. x.sent <= y.sent /\ y.sent \in Nat
  OBVIOUS
<1>1. m \in Seq(HalfSet) /\ Len(m) = 2 /\ FrameAt(m, 1, Close(g)) /\ ~EndsMessage(m[1]) /\ ~EndsMessage(m[2])
  <2>1. m \in Seq(HalfSet) /\ Len(m) = 2 /\ m[1].op = "close" /\ m[2].op = "close"
    BY ControlFrames
  <2>2. FrameAt(m, 1, m)
    BY <2>1 DEF FrameAt
  <2>3. QED BY <2>1, <2>2 DEF EndsMessage
<1>2. 1 \in Nat /\ 1 >= 1
  OBVIOUS
<1>3. FrameAt(s \o m, Len(s) + 1, Close(g))
  BY <1>1, <1>2, FrameMoves
<1>4. Between(s \o m, Len(s) + 1, g, x.sent, y)
  BY <1>3 DEF Between
<1>5. ASSUME NEW i \in 1..Len(m) PROVE ~EndsMessage(m[i])
  <2>1. i = 1 \/ i = 2
    BY <1>1
  <2>2. QED BY <1>1, <2>1
<1> HIDE DEF m
<1>6. Continued(s \o m, g, y)
  BY <1>0, <1>1, <1>4, <1>5, ContinuedStays
<1>7. Begun(s \o m, f, g, e, y)
  BY <1>1, <1>4, BegunStays
<1>8. QED BY <1>1, <1>6, <1>7 DEF m

-----------------------------------------------------------------------------
(* One connection and one session of each GUI *)

\* The rows of the tabs.
TabRow(x) == [at |-> x.at, sent |-> x.sent, answers |-> x.answers]

\* One field of one tab changes.
LEMMA TabAt ==
  ASSUME GuiTypeOK, NEW g \in Guis, NEW v, tab' = [tab EXCEPT ![g].at = v]
  PROVE  /\ tab' = [h \in Guis |-> [at |-> tab'[h].at, sent |-> tab'[h].sent, answers |-> tab'[h].answers]]
         /\ tab'[g].at = v /\ tab'[g].sent = tab[g].sent /\ \A h \in Guis : h # g => tab'[h] = tab[h]
<1>1. tab = [h \in Guis |-> TabRow(tab[h])]
  BY DEF GuiTypeOK, TabRow
<1>2. DOMAIN tab' = Guis /\ tab'[g] = [tab[g] EXCEPT !.at = v] /\ \A h \in Guis : h # g => tab'[h] = tab[h]
  BY <1>1
<1>3. tab[g] = [at |-> tab[g].at, sent |-> tab[g].sent, answers |-> tab[g].answers]
  BY DEF GuiTypeOK
<1>4. [tab[g] EXCEPT !.at = v] = [at |-> v, sent |-> tab[g].sent, answers |-> tab[g].answers]
  BY <1>3
<1>5. tab'[g] = [at |-> v, sent |-> tab[g].sent, answers |-> tab[g].answers]
  BY <1>2, <1>4
<1>6. \A h \in Guis : tab'[h] = TabRow(tab'[h])
  <2>1. tab'[g] = TabRow(tab'[g])
    BY <1>5 DEF TabRow
  <2>2. \A h \in Guis : tab[h] = TabRow(tab[h])
    BY <1>1
  <2>3. QED BY <1>2, <2>1, <2>2
<1>7. tab' = [h \in Guis |-> tab'[h]]
  BY <1>1
<1>8. tab' = [h \in Guis |-> TabRow(tab'[h])]
  BY <1>6, <1>7
<1>9. QED BY <1>2, <1>5, <1>8 DEF TabRow

\* Likewise of the count of commands.
LEMMA TabSent ==
  ASSUME GuiTypeOK, NEW g \in Guis, tab' = [tab EXCEPT ![g].sent = @ + 1]
  PROVE  /\ tab' = [h \in Guis |-> [at |-> tab'[h].at, sent |-> tab'[h].sent, answers |-> tab'[h].answers]]
         /\ tab'[g].at = tab[g].at /\ tab'[g].sent = tab[g].sent + 1
         /\ \A h \in Guis : h # g => tab'[h] = tab[h]
<1>1. tab = [h \in Guis |-> TabRow(tab[h])]
  BY DEF GuiTypeOK, TabRow
<1>2. DOMAIN tab' = Guis /\ tab'[g] = [tab[g] EXCEPT !.sent = @ + 1] /\ \A h \in Guis : h # g => tab'[h] = tab[h]
  BY <1>1
<1>3. tab[g] = [at |-> tab[g].at, sent |-> tab[g].sent, answers |-> tab[g].answers]
  BY DEF GuiTypeOK
<1>4. [tab[g] EXCEPT !.sent = @ + 1] =
        [at |-> tab[g].at, sent |-> tab[g].sent + 1, answers |-> tab[g].answers]
  BY <1>3
<1>5. tab'[g] = [at |-> tab[g].at, sent |-> tab[g].sent + 1, answers |-> tab[g].answers]
  BY <1>2, <1>4
<1>6. \A h \in Guis : tab'[h] = TabRow(tab'[h])
  <2>1. tab'[g] = TabRow(tab'[g])
    BY <1>5 DEF TabRow
  <2>2. \A h \in Guis : tab[h] = TabRow(tab[h])
    BY <1>1
  <2>3. QED BY <1>2, <2>1, <2>2
<1>7. tab' = [h \in Guis |-> tab'[h]]
  BY <1>1
<1>8. tab' = [h \in Guis |-> TabRow(tab'[h])]
  BY <1>6, <1>7
<1>9. QED BY <1>2, <1>5, <1>8 DEF TabRow

\* And of the answers.
LEMMA TabAnswers ==
  ASSUME GuiTypeOK, NEW g \in Guis, NEW more, tab' = [tab EXCEPT ![g].answers = @ \union more]
  PROVE  /\ tab' = [h \in Guis |-> [at |-> tab'[h].at, sent |-> tab'[h].sent, answers |-> tab'[h].answers]]
         /\ \A h \in Guis : tab'[h].at = tab[h].at /\ tab'[h].sent = tab[h].sent
<1>1. tab = [h \in Guis |-> TabRow(tab[h])]
  BY DEF GuiTypeOK, TabRow
<1>2. /\ DOMAIN tab' = Guis /\ tab'[g] = [tab[g] EXCEPT !.answers = @ \union more]
      /\ \A h \in Guis : h # g => tab'[h] = tab[h]
  BY <1>1
<1>3. tab[g] = [at |-> tab[g].at, sent |-> tab[g].sent, answers |-> tab[g].answers]
  BY DEF GuiTypeOK
<1>4. [tab[g] EXCEPT !.answers = @ \union more] =
        [at |-> tab[g].at, sent |-> tab[g].sent, answers |-> tab[g].answers \union more]
  BY <1>3
<1>5. tab'[g] = [at |-> tab[g].at, sent |-> tab[g].sent, answers |-> tab[g].answers \union more]
  BY <1>2, <1>4
<1>6. \A h \in Guis : tab'[h] = TabRow(tab'[h])
  <2>1. tab'[g] = TabRow(tab'[g])
    BY <1>5 DEF TabRow
  <2>2. \A h \in Guis : tab[h] = TabRow(tab[h])
    BY <1>1
  <2>3. QED BY <1>2, <2>1, <2>2
<1>7. tab' = [h \in Guis |-> tab'[h]]
  BY <1>1
<1>8. tab' = [h \in Guis |-> TabRow(tab'[h])]
  BY <1>6, <1>7
<1>9. \A h \in Guis : tab'[h].at = tab[h].at /\ tab'[h].sent = tab[h].sent
  <2>1. tab'[g].at = tab[g].at /\ tab'[g].sent = tab[g].sent
    BY <1>5
  <2>2. QED BY <1>2, <2>1
<1>10. QED BY <1>8, <1>9 DEF TabRow

\* One slot changes.
LEMMA SlotSet ==
  ASSUME GuiTypeOK, NEW i \in 1..Slots, NEW v, slots' = [slots EXCEPT ![i] = v],
         v \in Guis \union {Free, Page}
  PROVE  /\ slots' = [j \in 1..Slots |-> slots'[j]] /\ slots'[i] = v /\ \A j \in 1..Slots : j # i => slots'[j] = slots[j]
         /\ \A j \in 1..Slots : slots'[j] \in Guis \union {Free, Page}
<1>1. slots = [j \in 1..Slots |-> slots[j]] /\ \A j \in 1..Slots : slots[j] \in Guis \union {Free, Page}
  BY DEF GuiTypeOK
<1>2. DOMAIN slots = 1..Slots
  BY <1>1, Zenon
<1>3. slots' = [j \in 1..Slots |-> IF j = i THEN v ELSE slots[j]]
  BY <1>1, <1>2
<1>4. QED BY <1>1, <1>3

\* A connection is accepted.
LEMMA AcceptOnce ==
  ASSUME GuiInv, NEW by \in Guis \union {Page}, Accept(by)
  PROVE  /\ GuiTypeOK' /\ OnceEach' /\ \A g \in Guis : tab'[g].sent = tab[g].sent
         /\ \A g \in Guis : client = g => tab'[g].at = tab[g].at
<1>1. PICK i \in 1..Slots : slots[i] = Free /\ slots' = [slots EXCEPT ![i] = by]
  BY DEF Accept
<1>2. GuiTypeOK /\ OnceEach /\ Free \notin Guis /\ Page \notin Guis
  BY GuiAssumption DEF GuiInv
<1>3. by \in Guis \union {Free, Page}
  OBVIOUS
<1>4. /\ slots' = [j \in 1..Slots |-> slots'[j]] /\ slots'[i] = by
      /\ \A j \in 1..Slots : j # i => slots'[j] = slots[j]
      /\ \A j \in 1..Slots : slots'[j] \in Guis \union {Free, Page}
  BY <1>1, <1>2, <1>3, SlotSet
<1>5. client' = client /\ wire' = wire /\ inner' = inner /\ buf' = buf /\ recv' = recv /\ handled' = handled
  BY DEF Accept
<1>6. CASE by \in Guis
  <2>1. tab[by].at = "away" /\ tab' = [tab EXCEPT ![by].at = "asking"]
    BY <1>6 DEF Accept
  <2>2. /\ tab' = [h \in Guis |-> [at |-> tab'[h].at, sent |-> tab'[h].sent, answers |-> tab'[h].answers]]
        /\ tab'[by].at = "asking" /\ tab'[by].sent = tab[by].sent
        /\ \A h \in Guis : h # by => tab'[h] = tab[h]
    BY <1>2, <1>6, <2>1, TabAt
  <2>3. GuiTypeOK'
    BY <1>2, <1>4, <1>5, <2>2 DEF GuiTypeOK
  <2>4. tab[by].sent = 0 /\ client # by
    BY <1>2, <1>6, <2>1 DEF OnceEach
  <2>5. \A j \in 1..Slots : slots[j] # by
    BY <1>2, <1>6, <2>1 DEF OnceEach
  <2>6. OnceEach'
    BY <1>2, <1>4, <1>5, <2>2, <2>4, <2>5 DEF OnceEach
  <2>7. QED BY <2>2, <2>3, <2>4, <2>6
<1>7. CASE by = Page
  <2>1. tab' = tab
    BY <1>2, <1>7 DEF Accept
  <2>2. GuiTypeOK'
    BY <1>2, <1>4, <1>5, <2>1 DEF GuiTypeOK
  <2>3. OnceEach'
    BY <1>2, <1>4, <1>5, <1>7, <2>1 DEF OnceEach
  <2>4. QED BY <2>1, <2>2, <2>3
<1>8. QED BY <1>6, <1>7

\* A request is served, or its connection given up.
LEMMA ServeOnce ==
  ASSUME GuiInv, NEW i \in 1..Slots, Serve(i) \/ GiveUpSlot(i)
  PROVE  /\ GuiTypeOK' /\ OnceEach' /\ \A g \in Guis : tab'[g].sent = tab[g].sent
         /\ \A g \in Guis : client = g => tab'[g].at = tab[g].at
<1> DEFINE g == slots[i]
<1>1. GuiTypeOK /\ OnceEach /\ Free \notin Guis /\ Page \notin Guis /\ Free # Page
  BY GuiAssumption DEF GuiInv
<1>2. slots' = [slots EXCEPT ![i] = Free] /\ g # Free
  BY DEF Serve, GiveUpSlot
<1>3. g \in Guis \/ g = Page
  BY <1>1, <1>2 DEF GuiTypeOK
<1>4. Free \in Guis \union {Free, Page}
  OBVIOUS
<1>5. /\ slots' = [j \in 1..Slots |-> slots'[j]] /\ slots'[i] = Free
      /\ \A j \in 1..Slots : j # i => slots'[j] = slots[j]
      /\ \A j \in 1..Slots : slots'[j] \in Guis \union {Free, Page}
  BY <1>1, <1>2, <1>4, SlotSet
<1>6. wire' = wire /\ inner' = inner /\ recv' = recv /\ handled' = handled
  BY DEF Serve, GiveUpSlot
<1>7. CASE g = Page
  <2>1. tab' = tab /\ client' = client /\ buf' = buf
    BY <1>7 DEF Serve, GiveUpSlot
  <2>2. GuiTypeOK'
    BY <1>1, <1>5, <1>6, <2>1 DEF GuiTypeOK
  <2>3. OnceEach'
    BY <1>1, <1>5, <1>6, <2>1 DEF OnceEach
  <2>4. QED BY <2>1, <2>2, <2>3
<1>8. CASE g \in Guis
  <2>1. tab[g].at = "asking" /\ \A j \in 1..Slots : j # i => slots[j] # g
    BY <1>1, <1>8 DEF OnceEach
  <2>2. tab[g].sent = 0 /\ client # g
    BY <1>1, <1>8, <2>1 DEF OnceEach
  <2>3. PICK v \in {"open", "away", "gone"} :
          /\ tab' = [tab EXCEPT ![g].at = v]
          /\ v = "open" => client' = g /\ buf' = <<>>
          /\ v # "open" => client' = client /\ buf' = buf
    <3>1. CASE Serve(i) /\ client = Free
      <4>1. tab' = [tab EXCEPT ![g].at = "open"] /\ client' = g /\ buf' = <<>>
        BY <1>1, <1>8, <3>1 DEF Serve, Leftover
      <4>2. QED BY <4>1
    <3>2. CASE Serve(i) /\ client # Free
      <4>1. tab' = [tab EXCEPT ![g].at = "away"] /\ client' = client /\ buf' = buf
        BY <1>1, <1>8, <3>2 DEF Serve
      <4>2. QED BY <4>1
    <3>3. CASE GiveUpSlot(i)
      <4>1. tab' = [tab EXCEPT ![g].at = "gone"] /\ client' = client /\ buf' = buf
        BY <1>1, <1>8, <3>3 DEF GiveUpSlot
      <4>2. QED BY <4>1
    <3>4. QED BY <3>1, <3>2, <3>3
  <2>4. /\ tab' = [h \in Guis |-> [at |-> tab'[h].at, sent |-> tab'[h].sent, answers |-> tab'[h].answers]]
        /\ tab'[g].at = v /\ tab'[g].sent = tab[g].sent
        /\ \A h \in Guis : h # g => tab'[h] = tab[h]
    BY <1>1, <1>8, <2>3, TabAt
  <2> HIDE DEF g
  <2>5. <<>> \in Seq(HalfSet)
    OBVIOUS
  <2>6. /\ client' \in Guis \union {Free} /\ buf' \in Seq(HalfSet)
        /\ (client' = client /\ buf' = buf) \/ (client' = g /\ tab'[g].at = "open")
    BY <1>1, <1>8, <2>3, <2>4, <2>5 DEF GuiTypeOK
  <2>7. GuiTypeOK'
    BY <1>1, <1>5, <1>6, <2>4, <2>6 DEF GuiTypeOK
  <2>8. OnceEach'
    <3>1. ASSUME NEW j \in 1..Slots, slots'[j] \in Guis
          PROVE  tab'[slots'[j]].at = "asking" /\ \A k \in 1..Slots : slots'[k] = slots'[j] => k = j
      <4>1. j # i /\ slots'[j] = slots[j]
        BY <1>1, <1>5, <3>1
      <4>2. slots[j] # g
        BY <2>1, <4>1
      <4>3. tab'[slots'[j]] = tab[slots[j]]
        BY <2>4, <3>1, <4>1, <4>2
      <4>4. QED BY <1>1, <1>5, <3>1, <4>1, <4>3 DEF OnceEach
    <3>2. ASSUME NEW h \in Guis, tab'[h].at \in {"away", "asking"} PROVE tab'[h].sent = 0 /\ client' # h
      <4>1. CASE h = g
        BY <2>2, <2>4, <2>6, <3>2, <4>1
      <4>2. CASE h # g
        <5>1. tab[h].sent = 0 /\ client # h
          BY <1>1, <2>4, <3>2, <4>2 DEF OnceEach
        <5>2. QED BY <2>4, <2>6, <4>2, <5>1
      <4>3. QED BY <4>1, <4>2
    <3>3. ASSUME client' = Free PROVE wire' = <<>> /\ inner' = <<>> /\ buf' = <<>>
      <4>1. client' = client /\ buf' = buf
        BY <1>1, <1>8, <2>6, <3>3
      <4>2. QED BY <1>1, <1>6, <3>3, <4>1 DEF OnceEach
    <3>4. QED BY <3>1, <3>2, <3>3 DEF OnceEach
  <2>9. QED BY <2>2, <2>4, <2>7, <2>8
<1>9. QED BY <1>3, <1>7, <1>8

-----------------------------------------------------------------------------
(* The commands that wait *)

\* What a command is.
LEMMA CommandIs ==
  ASSUME NEW m \in Commands
  PROVE  \E g \in Guis : \E n \in Nat : /\ m \in {One(g, n), Two(g, n)} /\ m[1][1] = g /\ m[1][2] = n
                                         /\ WhichOf(m) = <<g, g, n>>
<1>1. PICK g \in Guis, n \in Nat : m = One(g, n) \/ m = Two(g, n)
  BY DEF Commands
<1>2. m[1] = <<g, n, 1, 1>>
  BY <1>1 DEF One, Two
<1>3. m[1][1] = g /\ m[1][2] = n
  BY <1>2
<1>4. WhichOf(m) = <<g, g, n>>
  BY <1>3 DEF WhichOf
<1>5. QED BY <1>1, <1>3, <1>4

\* Whose and which commands wait, in a sequence.
WhichSet == Guis \X Guis \X Nat

\* Each of those that wait has its place.
LEMMA WhichTyped ==
  ASSUME NEW q \in Seq(Commands)
  PROVE  /\ Which(q) \in Seq(WhichSet) /\ Len(Which(q)) = Len(q) /\ DOMAIN Which(q) = DOMAIN q
         /\ \A k \in 1..Len(q) : Which(q)[k] = WhichOf(q[k])
<1> DEFINE w(m) == WhichOf(m)
<1>1. ASSUME NEW m \in Commands PROVE w(m) \in WhichSet
  <2>1. PICK g \in Guis, n \in Nat : WhichOf(m) = <<g, g, n>>
    BY CommandIs
  <2>2. QED BY <2>1 DEF WhichSet
<1>2. Which(q) = [k \in 1..Len(q) |-> w(q[k])]
  BY DEF Which
<1> HIDE DEF w
<1>3. Len(q) \in Nat /\ \A k \in 1..Len(q) : w(q[k]) \in WhichSet
  BY <1>1
<1>4. Which(q) \in Seq(WhichSet) /\ Len(Which(q)) = Len(q) /\ DOMAIN Which(q) = 1..Len(q)
  BY <1>2, <1>3
<1>5. \A k \in 1..Len(q) : Which(q)[k] = w(q[k])
  BY <1>2
<1>6. QED BY <1>4, <1>5 DEF w

\* One goes.
LEMMA WhichTail ==
  ASSUME NEW q \in Seq(Commands), q # <<>>
  PROVE  /\ Which(q) # <<>> /\ Head(Which(q)) = WhichOf(Head(q)) /\ Which(Tail(q)) = Tail(Which(q))
         /\ Head(q) \in Commands /\ Tail(q) \in Seq(Commands)
<1>1. /\ Head(q) = q[1] /\ Tail(q) \in Seq(Commands) /\ Len(Tail(q)) = Len(q) - 1
      /\ \A k \in 1..Len(Tail(q)) : Tail(q)[k] = q[k + 1]
  BY HeadTailProperties
<1>2. Len(q) \in Nat /\ Len(q) >= 1 /\ Head(q) \in Commands
  BY <1>1
<1>3. /\ Which(q) \in Seq(WhichSet) /\ Len(Which(q)) = Len(q)
      /\ \A k \in 1..Len(q) : Which(q)[k] = WhichOf(q[k])
  BY WhichTyped
<1>4. Which(q) # <<>>
  BY <1>2, <1>3
<1>5. /\ Head(Which(q)) = Which(q)[1] /\ Tail(Which(q)) \in Seq(WhichSet)
      /\ Len(Tail(Which(q))) = Len(Which(q)) - 1
      /\ \A k \in 1..Len(Tail(Which(q))) : Tail(Which(q))[k] = Which(q)[k + 1]
  BY <1>3, <1>4, HeadTailProperties
<1>6. /\ Which(Tail(q)) \in Seq(WhichSet) /\ Len(Which(Tail(q))) = Len(Tail(q))
      /\ \A k \in 1..Len(Tail(q)) : Which(Tail(q))[k] = WhichOf(Tail(q)[k])
  BY <1>1, WhichTyped
<1>7. Head(Which(q)) = WhichOf(Head(q))
  BY <1>1, <1>2, <1>3, <1>5
<1>8. ASSUME NEW k \in 1..Len(Tail(q)) PROVE Which(Tail(q))[k] = Tail(Which(q))[k]
  <2>1. k + 1 \in 1..Len(q) /\ k \in 1..Len(Tail(Which(q)))
    BY <1>1, <1>2, <1>3, <1>5
  <2>2. Which(Tail(q))[k] = WhichOf(q[k + 1])
    BY <1>1, <1>6
  <2>3. Tail(Which(q))[k] = WhichOf(q[k + 1])
    BY <1>3, <1>5, <2>1
  <2>4. QED BY <2>2, <2>3
<1>9. Len(Which(Tail(q))) = Len(Tail(Which(q)))
  BY <1>1, <1>3, <1>5, <1>6
<1>10. Which(Tail(q)) = Tail(Which(q))
  BY <1>5, <1>6, <1>8, <1>9, SeqEqual
<1>11. QED BY <1>1, <1>2, <1>4, <1>7, <1>10

\* One comes.
LEMMA WhichAppend ==
  ASSUME NEW q \in Seq(Commands), NEW m \in Commands
  PROVE  /\ Append(q, m) \in Seq(Commands) /\ <<WhichOf(m)>> \in Seq(WhichSet)
         /\ Which(Append(q, m)) = Which(q) \o <<WhichOf(m)>>
<1>1. /\ Append(q, m) \in Seq(Commands) /\ Len(Append(q, m)) = Len(q) + 1
      /\ \A k \in 1..Len(q) : Append(q, m)[k] = q[k]
      /\ Append(q, m)[Len(q) + 1] = m
  BY AppendProperties
<1>2. Len(q) \in Nat
  OBVIOUS
<1>3. PICK g \in Guis, n \in Nat : WhichOf(m) = <<g, g, n>>
  BY CommandIs
<1>4. WhichOf(m) \in WhichSet
  BY <1>3 DEF WhichSet
<1>5. <<WhichOf(m)>> \in Seq(WhichSet) /\ Len(<<WhichOf(m)>>) = 1 /\ <<WhichOf(m)>>[1] = WhichOf(m)
  BY <1>4
<1>6. /\ Which(q) \in Seq(WhichSet) /\ Len(Which(q)) = Len(q)
      /\ \A k \in 1..Len(q) : Which(q)[k] = WhichOf(q[k])
  BY WhichTyped
<1>7. /\ Which(Append(q, m)) \in Seq(WhichSet) /\ Len(Which(Append(q, m))) = Len(q) + 1
      /\ \A k \in 1..(Len(q) + 1) : Which(Append(q, m))[k] = WhichOf(Append(q, m)[k])
  BY <1>1, WhichTyped
<1> DEFINE one == <<WhichOf(m)>>
<1> HIDE DEF one
<1>8. /\ Which(q) \o one \in Seq(WhichSet) /\ Len(Which(q) \o one) = Len(Which(q)) + Len(one)
      /\ \A i \in 1..Len(Which(q)) : (Which(q) \o one)[i] = Which(q)[i]
      /\ \A i \in 1..Len(one) : (Which(q) \o one)[Len(Which(q)) + i] = one[i]
  BY <1>5, <1>6, ConcatOf DEF one
<1>9. Len(one) = 1 /\ one[1] = WhichOf(m)
  BY <1>5 DEF one
<1>10. ASSUME NEW k \in 1..(Len(q) + 1) PROVE Which(Append(q, m))[k] = (Which(q) \o one)[k]
  <2>1. CASE k \in 1..Len(q)
    BY <1>1, <1>6, <1>7, <1>8, <2>1
  <2>2. CASE k = Len(q) + 1
    <3>1. (Which(q) \o one)[Len(q) + 1] = WhichOf(m)
      BY <1>6, <1>8, <1>9
    <3>2. QED BY <1>1, <1>7, <2>2, <3>1
  <2>3. k \in 1..Len(q) \/ k = Len(q) + 1
    BY <1>2
  <2>4. QED BY <2>1, <2>2, <2>3
<1>11. Len(Which(q) \o one) = Len(q) + 1
  BY <1>6, <1>8, <1>9
<1>12. Which(Append(q, m)) = Which(q) \o one
  BY <1>7, <1>8, <1>10, <1>11, SeqEqual
<1>13. QED BY <1>1, <1>5, <1>12 DEF one

-----------------------------------------------------------------------------
(* The stream of the session *)

\* Three pieces, however grouped.
LEMMA Regroup ==
  ASSUME NEW b \in Seq(HalfSet), NEW i \in Seq(HalfSet), NEW w \in Seq(HalfSet)
  PROVE  (b \o i) \o w = b \o (i \o w)
BY ConcatAssociative

\* What the session has yet to parse begins with what was read.
LEMMA StreamIs ==
  ASSUME NEW b \in Seq(HalfSet), NEW i \in Seq(HalfSet), NEW w \in Seq(HalfSet)
  PROVE  /\ (b \o i) \o w \in Seq(HalfSet) /\ Len((b \o i) \o w) = (Len(b) + Len(i)) + Len(w)
         /\ \A k \in 1..Len(b) : ((b \o i) \o w)[k] = b[k]
         /\ \A k \in 1..Len(i \o w) : ((b \o i) \o w)[Len(b) + k] = (i \o w)[k]
         /\ Len(i \o w) = Len(i) + Len(w) /\ i \o w \in Seq(HalfSet)
<1>1. i \o w \in Seq(HalfSet) /\ Len(i \o w) = Len(i) + Len(w)
  BY ConcatOf
<1>2. (b \o i) \o w = b \o (i \o w)
  BY ConcatAssociative
<1>3. PICK r \in Seq(HalfSet) : r = i \o w /\ Len(r) = Len(i) + Len(w)
  BY <1>1
<1>4. /\ b \o r \in Seq(HalfSet) /\ Len(b \o r) = Len(b) + Len(r)
      /\ \A k \in 1..Len(b) : (b \o r)[k] = b[k]
      /\ \A k \in 1..Len(r) : (b \o r)[Len(b) + k] = r[k]
  BY <1>3, ConcatOf
<1>5. Len(b) + Len(r) = (Len(b) + Len(i)) + Len(w)
  BY <1>3
<1>6. QED BY <1>1, <1>2, <1>3, <1>4, <1>5

\* A frame is parsed: the stream loses two halves.
LEMMA StreamLoses ==
  ASSUME NEW b \in Seq(HalfSet), NEW i \in Seq(HalfSet), NEW w \in Seq(HalfSet), Len(b) >= 2,
         NEW c, c = SubSeq(b, 3, Len(b))
  PROVE  /\ c \in Seq(HalfSet) /\ (c \o i) \o w \in Seq(HalfSet)
         /\ Len((b \o i) \o w) = Len((c \o i) \o w) + 2
         /\ \A k \in 1..Len((c \o i) \o w) : ((c \o i) \o w)[k] = ((b \o i) \o w)[k + 2]
         /\ ((b \o i) \o w)[1] = b[1] /\ ((b \o i) \o w)[2] = b[2]
<1>0. Len(b) \in Nat /\ Len(i) \in Nat /\ Len(w) \in Nat
  OBVIOUS
<1>1. c \in Seq(HalfSet) /\ Len(c) = Len(b) - 2 /\ \A k \in 1..Len(c) : c[k] = b[k + 2]
  <2>1. \A k \in 3..Len(b) : b[k] \in HalfSet
    BY <1>0
  <2>2. /\ c \in Seq(HalfSet)
        /\ Len(c) = IF 3 <= Len(b) THEN Len(b) - 3 + 1 ELSE 0
        /\ \A k \in 1..(Len(b) - 3 + 1) : c[k] = b[3 + k - 1]
    BY <1>0, <2>1, SubSeqProperties
  <2>3. Len(c) = Len(b) - 2
    <3>1. CASE 3 <= Len(b)
      BY <1>0, <2>2, <3>1
    <3>2. CASE Len(b) = 2
      BY <2>2, <3>2
    <3>3. \A l \in Nat : l >= 2 => 3 <= l \/ l = 2
      OBVIOUS
    <3>4. 3 <= Len(b) \/ Len(b) = 2
      BY <1>0, <3>3
    <3>5. QED BY <3>1, <3>2, <3>4, Zenon
  <2>4. ASSUME NEW k \in 1..Len(c) PROVE c[k] = b[k + 2]
    <3>1. k \in 1..(Len(b) - 3 + 1) /\ 3 + k - 1 = k + 2
      BY <1>0, <2>3
    <3>2. QED BY <2>2, <3>1
  <2>5. QED BY <2>2, <2>3, <2>4
<1> DEFINE x == (b \o i) \o w
           y == (c \o i) \o w
           r == i \o w
<1>2. /\ x \in Seq(HalfSet) /\ Len(x) = (Len(b) + Len(i)) + Len(w)
      /\ \A k \in 1..Len(b) : x[k] = b[k]
      /\ \A k \in 1..Len(r) : x[Len(b) + k] = r[k]
      /\ Len(r) = Len(i) + Len(w)
  BY StreamIs, SMTT(60)
<1>3. /\ y \in Seq(HalfSet) /\ Len(y) = (Len(c) + Len(i)) + Len(w)
      /\ \A k \in 1..Len(c) : y[k] = c[k]
      /\ \A k \in 1..Len(r) : y[Len(c) + k] = r[k]
  BY <1>1, StreamIs, SMTT(60)
<1> HIDE DEF x, y, r
<1>4. Len(x) = Len(y) + 2
  BY <1>0, <1>1, <1>2, <1>3
<1>5. ASSUME NEW k \in 1..Len(y) PROVE y[k] = x[k + 2]
  <2>1. CASE k \in 1..Len(c)
    <3>1. k + 2 \in 1..Len(b)
      BY <1>0, <1>1, <2>1
    <3>2. QED BY <1>1, <1>2, <1>3, <2>1, <3>1
  <2>2. CASE k \notin 1..Len(c)
    <3>1. PICK j \in 1..Len(r) : j = k - Len(c)
      <4>1. k - Len(c) \in 1..Len(r)
        BY <1>0, <1>1, <1>2, <1>3, <2>2
      <4>2. QED BY <4>1
    <3>2. k = Len(c) + j /\ k + 2 = Len(b) + j
      <4>0. Len(c) \in Nat
        BY <1>1
      <4>1. PICK l \in Nat : l = Len(c)
        BY <4>0
      <4>2. PICK m \in Nat : m = Len(b)
        BY <1>0
      <4>3. l = m - 2
        BY <1>1, <4>1, <4>2
      <4>4. j = k - l
        BY <3>1, <4>1
      <4>5. j \in Nat /\ k \in Nat
        BY <3>1
      <4>6. k = l + j /\ k + 2 = m + j
        BY <4>3, <4>4, <4>5
      <4>7. QED BY <4>1, <4>2, <4>6
    <3>3. y[Len(c) + j] = r[j] /\ x[Len(b) + j] = r[j]
      BY <1>2, <1>3
    <3>4. QED BY <3>2, <3>3
  <2>3. QED BY <2>1, <2>2
<1>6. x[1] = b[1] /\ x[2] = b[2]
  <2>1. 1 \in 1..Len(b) /\ 2 \in 1..Len(b)
    BY <1>0
  <2>2. QED BY <1>2, <2>1
<1>7. QED BY <1>1, <1>3, <1>4, <1>5, <1>6 DEF x, y

\* A sequence is its beginning and the rest.
LEMMA SplitAt ==
  ASSUME NEW s \in Seq(HalfSet), NEW n \in Nat, n <= Len(s)
  PROVE  /\ SubSeq(s, 1, n) \in Seq(HalfSet) /\ Rest(s, n) \in Seq(HalfSet)
         /\ SubSeq(s, 1, n) \o Rest(s, n) = s
<1>0. Len(s) \in Nat
  OBVIOUS
<1> DEFINE a == SubSeq(s, 1, n)
           c == Rest(s, n)
<1>1. a \in Seq(HalfSet) /\ Len(a) = n /\ \A k \in 1..n : a[k] = s[k]
  <2>1. \A k \in 1..n : s[k] \in HalfSet
    BY <1>0
  <2>2. /\ a \in Seq(HalfSet) /\ Len(a) = IF 1 <= n THEN n - 1 + 1 ELSE 0
        /\ \A k \in 1..(n - 1 + 1) : a[k] = s[1 + k - 1]
    BY <2>1, SubSeqProperties
  <2>3. \A k \in 1..n : k \in 1..(n - 1 + 1) /\ 1 + k - 1 = k
    OBVIOUS
  <2>4. Len(a) = n
    BY <2>2
  <2>5. QED BY <2>2, <2>3, <2>4
<1>2. c \in Seq(HalfSet) /\ Len(c) = Len(s) - n /\ \A k \in 1..(Len(s) - n) : c[k] = s[n + k]
  <2>1. \A k \in (n + 1)..Len(s) : s[k] \in HalfSet
    BY <1>0
  <2>2. c = SubSeq(s, n + 1, Len(s))
    BY DEF Rest
  <2>3. /\ SubSeq(s, n + 1, Len(s)) \in Seq(HalfSet)
        /\ Len(SubSeq(s, n + 1, Len(s))) = IF n + 1 <= Len(s) THEN Len(s) - (n + 1) + 1 ELSE 0
        /\ \A k \in 1..(Len(s) - (n + 1) + 1) : SubSeq(s, n + 1, Len(s))[k] = s[(n + 1) + k - 1]
    BY <1>0, <2>1, SubSeqProperties
  <2>4. \A k \in 1..(Len(s) - n) : k \in 1..(Len(s) - (n + 1) + 1) /\ (n + 1) + k - 1 = n + k
    BY <1>0
  <2>5. Len(c) = Len(s) - n
    BY <1>0, <2>2, <2>3
  <2>6. QED BY <2>2, <2>3, <2>4, <2>5
<1> HIDE DEF a, c
<1>3. /\ a \o c \in Seq(HalfSet) /\ Len(a \o c) = Len(a) + Len(c)
      /\ \A k \in 1..Len(a) : (a \o c)[k] = a[k]
      /\ \A k \in 1..Len(c) : (a \o c)[Len(a) + k] = c[k]
  BY <1>1, <1>2, ConcatOf
<1>4. Len(a \o c) = Len(s)
  BY <1>0, <1>1, <1>2, <1>3
<1>5. ASSUME NEW k \in 1..Len(s) PROVE (a \o c)[k] = s[k]
  <2>1. CASE k <= n
    BY <1>0, <1>1, <1>3, <2>1
  <2>2. CASE ~(k <= n)
    <3>1. PICK j \in 1..Len(c) : k = n + j
      <4>1. k - n \in 1..Len(c) /\ k = n + (k - n)
        BY <1>0, <1>2, <2>2
      <4>2. QED BY <4>1
    <3>2. (a \o c)[n + j] = c[j] /\ c[j] = s[n + j]
      BY <1>1, <1>2, <1>3
    <3>3. QED BY <3>1, <3>2
  <2>3. QED BY <2>1, <2>2
<1>6. a \o c = s
  BY <1>3, <1>4, <1>5, SeqEqual
<1>7. QED BY <1>1, <1>2, <1>6 DEF a, c

\* A read changes only how far the stream has come.
LEMMA StreamRead ==
  ASSUME GuiInv, Read
  PROVE  Stream' = Stream /\ buf' \in Seq(HalfSet) /\ inner' \in Seq(HalfSet) /\ wire' \in Seq(HalfSet)
<1>1. buf \in Seq(HalfSet) /\ inner \in Seq(HalfSet) /\ wire \in Seq(HalfSet)
  BY DEF GuiInv, GuiTypeOK
<1>2. PICK r \in Records : \E n \in IF Tls THEN 1..Len(r) ELSE {Len(r)} :
         /\ buf' = buf \o SubSeq(r, 1, n) /\ inner' = Rest(r, n)
         /\ wire' = IF inner # <<>> THEN wire ELSE Rest(wire, Len(r))
  BY DEF Read
<1>3. r \in Seq(HalfSet) /\ wire' \in Seq(HalfSet) /\ inner \o wire = r \o wire'
  <2>1. CASE inner # <<>>
    BY <1>1, <1>2, <2>1 DEF Records
  <2>2. CASE inner = <<>>
    <3>1. PICK n \in 1..Len(wire) : r = SubSeq(wire, 1, n)
      BY <1>2, <2>2 DEF Records
    <3>2. n \in Nat /\ n <= Len(wire)
      BY <1>1, <3>1
    <3>3. /\ SubSeq(wire, 1, n) \in Seq(HalfSet) /\ Rest(wire, n) \in Seq(HalfSet)
          /\ SubSeq(wire, 1, n) \o Rest(wire, n) = wire
      BY <1>1, <3>2, SplitAt
    <3>4. Len(r) = n
      <4>1. \A k \in 1..n : wire[k] \in HalfSet
        BY <1>1, <3>2
      <4>2. Len(SubSeq(wire, 1, n)) = IF 1 <= n THEN n - 1 + 1 ELSE 0
        BY <3>2, <4>1, SubSeqProperties
      <4>3. QED BY <3>1, <3>2, <4>2
    <3>5. wire' = Rest(wire, n)
      BY <1>2, <2>2, <3>4
    <3>6. inner \o wire = wire
      BY <1>1, <2>2, ConcatEmptySeq
    <3>7. QED BY <3>1, <3>3, <3>5, <3>6
  <2>3. QED BY <2>1, <2>2
<1>4. PICK n \in Nat : n <= Len(r) /\ buf' = buf \o SubSeq(r, 1, n) /\ inner' = Rest(r, n)
  <2>1. Len(r) \in Nat
    BY <1>3
  <2>2. PICK n \in IF Tls THEN 1..Len(r) ELSE {Len(r)} :
          buf' = buf \o SubSeq(r, 1, n) /\ inner' = Rest(r, n)
    BY <1>2
  <2>3. n \in Nat /\ n <= Len(r)
    BY <2>1, <2>2
  <2>4. QED BY <2>2, <2>3
<1>5. /\ SubSeq(r, 1, n) \in Seq(HalfSet) /\ Rest(r, n) \in Seq(HalfSet)
      /\ SubSeq(r, 1, n) \o Rest(r, n) = r
  BY <1>3, <1>4, SplitAt
<1>6. PICK a \in Seq(HalfSet), c \in Seq(HalfSet) : buf' = buf \o a /\ inner' = c /\ a \o c = r
  BY <1>4, <1>5
<1>7. buf' \in Seq(HalfSet)
  BY <1>1, <1>6, ConcatOf
<1>8. (buf \o a) \o c = buf \o (a \o c)
  BY <1>1, <1>6, Regroup, ZenonT(60)
<1>9. Stream' = (buf \o r) \o wire'
  BY <1>6, <1>8 DEF Stream
<1>10. (buf \o r) \o wire' = buf \o (r \o wire')
  <2>1. PICK u \in Seq(HalfSet) : u = wire'
    BY <1>3
  <2>0. buf \in Seq(HalfSet) /\ r \in Seq(HalfSet)
    BY <1>1, <1>3
  <2>2. (buf \o r) \o u = buf \o (r \o u)
    BY <2>0, Regroup, SMTT(60)
  <2>3. QED BY <2>1, <2>2
<1>11. (buf \o inner) \o wire = buf \o (inner \o wire)
  BY <1>1, Regroup, ZenonT(60)
<1>12. Stream' = Stream
  BY <1>3, <1>9, <1>10, <1>11 DEF Stream
<1>13. QED BY <1>3, <1>6, <1>7, <1>12

-----------------------------------------------------------------------------
(* The steps *)

\* Steps of others, and the end of the session.
LEMMA Kept ==
  ASSUME GuiInv, handled' = handled, recv' = recv,
         \A g \in Guis : tab'[g].sent = tab[g].sent,
         \A g \in Guis : client' = g =>
           client = g /\ Stream' = Stream /\ frag' = frag /\ tab'[g].at = tab[g].at
  PROVE  CommandsOK' /\ WholeBodies'
<1>1. ASSUME NEW g \in Guis
      PROVE  \E e \in 0..tab'[g].sent :
               /\ Len(handled'[g]) <= e /\ Carries(Which(recv'), g, Len(handled'[g]), e)
               /\ client' = g => Continued(Stream', g, tab'[g]) /\ Begun(Stream', frag', g, e, tab'[g])
  <2>1. PICK e \in 0..tab[g].sent :
          /\ Len(handled[g]) <= e /\ Carries(Which(recv), g, Len(handled[g]), e)
          /\ client = g => Continued(Stream, g, tab[g]) /\ Begun(Stream, frag, g, e, tab[g])
    BY DEF GuiInv, CommandsOK
  <2>2. ASSUME client' = g
        PROVE  Continued(Stream', g, tab'[g]) /\ Begun(Stream', frag', g, e, tab'[g])
    <3>1. /\ client = g /\ Stream' = Stream /\ frag' = frag
          /\ tab'[g].at = tab[g].at /\ tab'[g].sent = tab[g].sent
      BY <2>2
    <3>2. Continued(Stream, g, tab[g]) /\ Begun(Stream, frag, g, e, tab[g])
      BY <2>1, <3>1
    <3>3. \A p, n : Between(Stream, p, g, n, tab[g]) => Between(Stream, p, g, n, tab'[g])
      BY <3>1 DEF Between
    <3>4. Continued(Stream, g, tab'[g])
      BY <3>1, <3>2, <3>3 DEF Continued
    <3>5. Begun(Stream, frag, g, e, tab'[g])
      BY <3>2, <3>3 DEF Begun
    <3>6. QED BY <3>1, <3>4, <3>5
  <2>3. e \in 0..tab'[g].sent
    BY <2>1
  <2>4. QED BY <2>1, <2>2, <2>3
<1>2. CommandsOK'
  BY <1>1 DEF CommandsOK
<1>3. WholeBodies'
  BY DEF GuiInv, WholeBodies
<1>4. QED BY <1>2, <1>3

\* Connections come and go.
LEMMA ConnectionsKeep ==
  ASSUME GuiInv, NEW by \in Guis \union {Page}, NEW i \in 1..Slots, Accept(by) \/ GiveUpSlot(i)
  PROVE  GuiInv'
<1>1. /\ GuiTypeOK' /\ OnceEach' /\ \A g \in Guis : tab'[g].sent = tab[g].sent
      /\ \A g \in Guis : client = g => tab'[g].at = tab[g].at
  BY AcceptOnce, ServeOnce
<1>2. /\ client' = client /\ wire' = wire /\ inner' = inner /\ buf' = buf /\ frag' = frag
      /\ recv' = recv /\ handled' = handled
  BY DEF Accept, GiveUpSlot
<1>3. Stream' = Stream
  BY <1>2 DEF Stream
<1>4. CommandsOK' /\ WholeBodies'
  BY <1>1, <1>2, <1>3, Kept
<1>5. QED BY <1>1, <1>4 DEF GuiInv

\* A page or a session.
LEMMA ServeKeeps ==
  ASSUME GuiInv, NEW i \in 1..Slots, Serve(i)
  PROVE  GuiInv'
<1>1. /\ GuiTypeOK' /\ OnceEach' /\ \A g \in Guis : tab'[g].sent = tab[g].sent
      /\ \A g \in Guis : client = g => tab'[g].at = tab[g].at
  BY ServeOnce
<1>2. wire' = wire /\ inner' = inner /\ recv' = recv /\ handled' = handled
  BY DEF Serve
<1>3. CASE slots[i] # Page /\ client = Free
  <2>1. /\ client' = slots[i] /\ buf' = <<>> /\ frag' = NoFragment
        /\ tab' = [tab EXCEPT ![slots[i]].at = "open"]
    BY <1>3 DEF Serve, Leftover
  <2>2. slots[i] \in Guis
    BY <1>3 DEF Serve, GuiInv, GuiTypeOK
  <2>3. tab[slots[i]].sent = 0
    <3>1. tab[slots[i]].at = "asking"
      BY <2>2 DEF GuiInv, OnceEach
    <3>2. QED BY <2>2, <3>1 DEF GuiInv, OnceEach
  <2>4. Stream' = <<>>
    <3>1. wire' = <<>> /\ inner' = <<>>
      BY <1>2, <1>3 DEF GuiInv, OnceEach
    <3>2. <<>> \in Seq(HalfSet)
      OBVIOUS
    <3>3. (<<>> \o <<>>) \o <<>> = <<>>
      BY <3>2, ConcatEmptySeq
    <3>4. QED BY <2>1, <3>1, <3>3 DEF Stream
  <2>5. ASSUME NEW g \in Guis
        PROVE  \E e \in 0..tab'[g].sent :
                 /\ Len(handled'[g]) <= e /\ Carries(Which(recv'), g, Len(handled'[g]), e)
                 /\ client' = g => Continued(Stream', g, tab'[g]) /\ Begun(Stream', frag', g, e, tab'[g])
    <3>1. PICK e \in 0..tab[g].sent :
            Len(handled[g]) <= e /\ Carries(Which(recv), g, Len(handled[g]), e)
      BY DEF GuiInv, CommandsOK
    <3>2. e \in 0..tab'[g].sent
      BY <1>1, <3>1
    <3>3. ASSUME client' = g
          PROVE  Continued(Stream', g, tab'[g]) /\ Begun(Stream', frag', g, e, tab'[g])
      <4>1. e = 0 /\ tab'[g].sent = 0
        BY <1>1, <2>1, <2>3, <3>1, <3>3
      <4>2. Continued(<<>>, g, tab'[g])
        BY DEF Continued
      <4>3. Between(<<>>, 1, g, e, tab'[g])
        BY <4>1 DEF Between
      <4>4. frag'.on = FALSE
        BY <2>1 DEF NoFragment
      <4>5. QED BY <2>4, <4>2, <4>3, <4>4 DEF Begun
    <3>4. QED BY <1>2, <3>1, <3>2, <3>3
  <2>6. CommandsOK'
    BY <2>5 DEF CommandsOK
  <2>7. WholeBodies'
    BY <1>2 DEF GuiInv, WholeBodies
  <2>8. QED BY <1>1, <2>6, <2>7 DEF GuiInv
<1>4. CASE ~(slots[i] # Page /\ client = Free)
  <2>1. client' = client /\ buf' = buf /\ frag' = frag
    BY <1>4 DEF Serve
  <2>2. Stream' = Stream
    BY <1>2, <2>1 DEF Stream
  <2>3. CommandsOK' /\ WholeBodies'
    BY <1>1, <1>2, <2>1, <2>2, Kept
  <2>4. QED BY <1>1, <2>3 DEF GuiInv
<1>5. QED BY <1>3, <1>4

\* What the GUI writes is at the end of the stream.
LEMMA StreamMore ==
  ASSUME GuiTypeOK, NEW m \in Seq(HalfSet), buf' = buf, inner' = inner, wire' = wire \o m
  PROVE  Stream' = Stream \o m /\ wire' \in Seq(HalfSet) /\ Stream \in Seq(HalfSet)
<1>1. buf \in Seq(HalfSet) /\ inner \in Seq(HalfSet) /\ wire \in Seq(HalfSet)
  BY DEF GuiTypeOK
<1>2. PICK b \in Seq(HalfSet) : b = buf \o inner
  BY <1>1, ConcatOf
<1>3. PICK w \in Seq(HalfSet) : w = wire
  BY <1>1
<1>4. (b \o w) \o m = b \o (w \o m)
  BY Regroup
<1>5. w \o m \in Seq(HalfSet) /\ b \o w \in Seq(HalfSet)
  BY ConcatOf
<1>6. QED BY <1>2, <1>3, <1>4, <1>5 DEF Stream

\* The GUI sends a command.
LEMMA SendKeeps ==
  ASSUME GuiInv, NEW g \in Guis, SendCommand(g)
  PROVE  GuiInv'
<1>1. /\ client = g /\ tab[g].at = "open" /\ tab' = [tab EXCEPT ![g].sent = @ + 1]
      /\ slots' = slots /\ client' = client /\ inner' = inner /\ buf' = buf /\ frag' = frag
      /\ recv' = recv /\ handled' = handled
  BY DEF SendCommand
<1>2. PICK m : /\ m = InOneFrame(g, tab[g].sent + 1) \/ m = InTwoFrames(g, tab[g].sent + 1)
               /\ wire' = wire \o m
  BY DEF SendCommand
<1>3. GuiTypeOK /\ OnceEach /\ tab[g].sent \in Nat /\ Free \notin Guis
  BY GuiAssumption DEF GuiInv, GuiTypeOK
<1>4. /\ tab' = [h \in Guis |-> [at |-> tab'[h].at, sent |-> tab'[h].sent, answers |-> tab'[h].answers]]
      /\ tab'[g].at = tab[g].at /\ tab'[g].sent = tab[g].sent + 1
      /\ \A h \in Guis : h # g => tab'[h] = tab[h]
  BY <1>1, <1>3, TabSent
<1>5. m \in Seq(HalfSet)
  <2>1. tab[g].sent + 1 \in Nat
    BY <1>3
  <2>2. QED BY <1>2, <2>1, FramesAre, TwoFramesAre
<1>6. Stream' = Stream \o m /\ wire' \in Seq(HalfSet) /\ Stream \in Seq(HalfSet)
  BY <1>1, <1>2, <1>3, <1>5, StreamMore
<1>7. ASSUME NEW h \in Guis PROVE tab'[h].sent \in Nat
  <2>1. CASE h = g
    <3>1. \A n \in Nat : n + 1 \in Nat
      OBVIOUS
    <3>2. QED BY <1>3, <1>4, <2>1, <3>1, Zenon
  <2>2. CASE h # g
    BY <1>3, <1>4, <2>2 DEF GuiTypeOK
  <2>3. QED BY <2>1, <2>2
<1>8. GuiTypeOK'
  BY <1>1, <1>3, <1>4, <1>6, <1>7 DEF GuiTypeOK
<1>9. OnceEach'
  <2>1. \A h \in Guis : tab'[h].at = tab[h].at
    BY <1>4
  <2>2. ASSUME NEW h \in Guis, tab'[h].at \in {"away", "asking"} PROVE tab'[h].sent = 0 /\ client' # h
    <3>1. h # g
      BY <1>1, <1>4, <2>2
    <3>2. QED BY <1>1, <1>3, <1>4, <2>2, <3>1 DEF OnceEach
  <2>3. client' # Free
    BY <1>1, <1>3
  <2>4. \A i \in 1..Slots : slots'[i] \in Guis =>
          tab'[slots'[i]].at = "asking" /\ \A j \in 1..Slots : slots'[j] = slots'[i] => j = i
    BY <1>1, <1>3, <2>1 DEF OnceEach
  <2>5. QED BY <2>2, <2>3, <2>4 DEF OnceEach
<1>10. ASSUME NEW h \in Guis
       PROVE  \E e \in 0..tab'[h].sent :
                /\ Len(handled'[h]) <= e /\ Carries(Which(recv'), h, Len(handled'[h]), e)
                /\ client' = h => Continued(Stream', h, tab'[h]) /\ Begun(Stream', frag', h, e, tab'[h])
  <2>1. PICK e \in 0..tab[h].sent :
          /\ Len(handled[h]) <= e /\ Carries(Which(recv), h, Len(handled[h]), e)
          /\ client = h => Continued(Stream, h, tab[h]) /\ Begun(Stream, frag, h, e, tab[h])
    BY DEF GuiInv, CommandsOK
  <2>2. CASE h # g
    BY <1>1, <1>4, <2>1, <2>2
  <2>3. CASE h = g
    <3>1. e \in 0..tab'[h].sent
      BY <1>3, <1>4, <2>1, <2>3
    <3>2. Continued(Stream, g, tab[g]) /\ Begun(Stream, frag, g, e, tab[g])
      BY <1>1, <2>1, <2>3
    <3>3. tab[g].at # "gone"
      BY <1>1
    <3>4. m = InOneFrame(g, tab'[g].sent) \/ m = InTwoFrames(g, tab'[g].sent)
      BY <1>2, <1>4
    <3>5. Continued(Stream \o m, g, tab'[g]) /\ Begun(Stream \o m, frag, g, e, tab'[g])
      BY <1>3, <1>4, <1>6, <3>2, <3>3, <3>4, SentMore
    <3>6. QED BY <1>1, <1>6, <2>1, <2>3, <3>1, <3>5
  <2>4. QED BY <2>2, <2>3
<1>11. CommandsOK'
  BY <1>10 DEF CommandsOK
<1>12. WholeBodies'
  BY <1>1 DEF GuiInv, WholeBodies
<1>13. QED BY <1>8, <1>9, <1>11, <1>12 DEF GuiInv

\* The GUI says that it leaves.
LEMMA LeaveKeeps ==
  ASSUME GuiInv, NEW g \in Guis, Leave(g)
  PROVE  GuiInv'
<1>1. /\ client = g /\ tab[g].at = "open" /\ tab' = [tab EXCEPT ![g].at = "gone"]
      /\ slots' = slots /\ client' = client /\ inner' = inner /\ buf' = buf /\ frag' = frag
      /\ recv' = recv /\ handled' = handled /\ wire' = wire \o Close(g)
  BY DEF Leave, Close
<1>2. GuiTypeOK /\ OnceEach /\ tab[g].sent \in Nat /\ Free \notin Guis
  BY GuiAssumption DEF GuiInv, GuiTypeOK
<1>3. /\ tab' = [h \in Guis |-> [at |-> tab'[h].at, sent |-> tab'[h].sent, answers |-> tab'[h].answers]]
      /\ tab'[g].at = "gone" /\ tab'[g].sent = tab[g].sent
      /\ \A h \in Guis : h # g => tab'[h] = tab[h]
  BY <1>1, <1>2, TabAt
<1>4. Close(g) \in Seq(HalfSet)
  BY ControlFrames
<1>5. Stream' = Stream \o Close(g) /\ wire' \in Seq(HalfSet) /\ Stream \in Seq(HalfSet)
  BY <1>1, <1>2, <1>4, StreamMore
<1>6. GuiTypeOK'
  BY <1>1, <1>2, <1>3, <1>5 DEF GuiTypeOK
<1>7. OnceEach'
  <2>1. \A i \in 1..Slots : slots[i] # g
    BY <1>1, <1>2 DEF OnceEach
  <2>2. \A i \in 1..Slots : slots'[i] \in Guis =>
          tab'[slots'[i]].at = "asking" /\ \A j \in 1..Slots : slots'[j] = slots'[i] => j = i
    BY <1>1, <1>2, <1>3, <2>1 DEF OnceEach
  <2>3. ASSUME NEW h \in Guis, tab'[h].at \in {"away", "asking"} PROVE tab'[h].sent = 0 /\ client' # h
    <3>1. h # g
      BY <1>3, <2>3
    <3>2. QED BY <1>1, <1>2, <1>3, <2>3, <3>1 DEF OnceEach
  <2>4. client' # Free
    BY <1>1, <1>2
  <2>5. QED BY <2>2, <2>3, <2>4 DEF OnceEach
<1>8. ASSUME NEW h \in Guis
      PROVE  \E e \in 0..tab'[h].sent :
               /\ Len(handled'[h]) <= e /\ Carries(Which(recv'), h, Len(handled'[h]), e)
               /\ client' = h => Continued(Stream', h, tab'[h]) /\ Begun(Stream', frag', h, e, tab'[h])
  <2>1. PICK e \in 0..tab[h].sent :
          /\ Len(handled[h]) <= e /\ Carries(Which(recv), h, Len(handled[h]), e)
          /\ client = h => Continued(Stream, h, tab[h]) /\ Begun(Stream, frag, h, e, tab[h])
    BY DEF GuiInv, CommandsOK
  <2>2. CASE h # g
    BY <1>1, <1>3, <2>1, <2>2
  <2>3. CASE h = g
    <3>1. Continued(Stream, g, tab[g]) /\ Begun(Stream, frag, g, e, tab[g]) /\ tab[g].at # "gone"
      BY <1>1, <2>1, <2>3
    <3>2. /\ Continued(Stream \o Close(g), g, tab'[g])
          /\ Begun(Stream \o Close(g), frag, g, e, tab'[g])
      BY <1>2, <1>3, <1>5, <3>1, LeftMore
    <3>3. QED BY <1>1, <1>3, <1>5, <2>1, <2>3, <3>2
  <2>4. QED BY <2>2, <2>3
<1>9. CommandsOK'
  BY <1>8 DEF CommandsOK
<1>10. WholeBodies'
  BY <1>1 DEF GuiInv, WholeBodies
<1>11. QED BY <1>6, <1>7, <1>9, <1>10 DEF GuiInv

\* A read changes nothing that was handled.
LEMMA ReadKeeps == ASSUME GuiInv, Read PROVE GuiInv'
<1>1. Stream' = Stream /\ buf' \in Seq(HalfSet) /\ inner' \in Seq(HalfSet) /\ wire' \in Seq(HalfSet)
  BY StreamRead
<1>2. /\ client # Free /\ tab' = tab /\ slots' = slots /\ client' = client /\ frag' = frag
      /\ recv' = recv /\ handled' = handled
  BY DEF Read
<1>3. GuiTypeOK' /\ OnceEach'
  BY <1>1, <1>2 DEF GuiInv, GuiTypeOK, OnceEach
<1>4. CommandsOK' /\ WholeBodies'
  BY <1>1, <1>2, Kept
<1>5. QED BY <1>3, <1>4 DEF GuiInv

\* So does a connection that breaks.
LEMMA BreakKeeps == ASSUME GuiInv, Break PROVE GuiInv'
<1>1. /\ client # Free /\ tab' = [tab EXCEPT ![client].at = "gone"] /\ slots' = slots
      /\ client' = Free /\ wire' = <<>> /\ inner' = <<>> /\ buf' = <<>>
      /\ recv' = recv /\ handled' = handled
  BY DEF Break, Over, Leftover
<1>2. GuiTypeOK /\ OnceEach /\ Free \notin Guis
  BY GuiAssumption DEF GuiInv
<1>3. PICK g \in Guis : g = client
  BY <1>1, <1>2 DEF GuiTypeOK
<1>4. /\ tab' = [h \in Guis |-> [at |-> tab'[h].at, sent |-> tab'[h].sent, answers |-> tab'[h].answers]]
      /\ tab'[g].at = "gone" /\ tab'[g].sent = tab[g].sent
      /\ \A h \in Guis : h # g => tab'[h] = tab[h]
  BY <1>1, <1>2, <1>3, TabAt
<1>5. <<>> \in Seq(HalfSet)
  OBVIOUS
<1>6. GuiTypeOK'
  BY <1>1, <1>2, <1>4, <1>5 DEF GuiTypeOK
<1>7. OnceEach'
  <2>1. \A i \in 1..Slots : slots[i] # g
    BY <1>2, <1>3 DEF OnceEach
  <2>2. \A i \in 1..Slots : slots'[i] \in Guis =>
          tab'[slots'[i]].at = "asking" /\ \A j \in 1..Slots : slots'[j] = slots'[i] => j = i
    BY <1>1, <1>2, <1>4, <2>1 DEF OnceEach
  <2>3. ASSUME NEW h \in Guis, tab'[h].at \in {"away", "asking"} PROVE tab'[h].sent = 0 /\ client' # h
    <3>1. h # g
      BY <1>4, <2>3
    <3>2. QED BY <1>1, <1>2, <1>4, <2>3, <3>1 DEF OnceEach
  <2>4. QED BY <1>1, <2>2, <2>3 DEF OnceEach
<1>8. \A h \in Guis : tab'[h].sent = tab[h].sent
  BY <1>4
<1>9. CommandsOK' /\ WholeBodies'
  BY <1>1, <1>2, <1>8, Kept
<1>10. QED BY <1>6, <1>7, <1>9 DEF GuiInv

\* The queue of answers is beside the commands.
LEMMA QueueKeeps == ASSUME GuiInv, SendQueued \/ Push PROVE GuiInv'
<1>1. /\ client # Free /\ slots' = slots /\ client' = client /\ wire' = wire /\ inner' = inner
      /\ buf' = buf /\ frag' = frag /\ recv' = recv /\ handled' = handled
  BY DEF SendQueued, Push
<1>2. GuiTypeOK /\ OnceEach
  BY DEF GuiInv
<1>3. PICK g \in Guis : g = client
  BY <1>1, <1>2 DEF GuiTypeOK
<1>4. /\ tab' = [h \in Guis |-> [at |-> tab'[h].at, sent |-> tab'[h].sent, answers |-> tab'[h].answers]]
      /\ \A h \in Guis : tab'[h].at = tab[h].at /\ tab'[h].sent = tab[h].sent
  <2>1. CASE SendQueued
    <3>1. PICK more : tab' = [tab EXCEPT ![g].answers = @ \union more]
      BY <1>3, <2>1 DEF SendQueued
    <3>2. QED BY <1>2, <3>1, TabAnswers
  <2>2. CASE Push
    BY <1>2, <2>2 DEF Push, GuiTypeOK
  <2>3. QED BY <2>1, <2>2
<1>5. GuiTypeOK'
  BY <1>1, <1>2, <1>4 DEF GuiTypeOK
<1>6. OnceEach'
  BY <1>1, <1>2, <1>4 DEF OnceEach
<1>7. Stream' = Stream
  BY <1>1 DEF Stream
<1>8. CommandsOK' /\ WholeBodies'
  BY <1>1, <1>4, <1>7, Kept
<1>9. QED BY <1>5, <1>6, <1>8 DEF GuiInv

\* The main loop handles the next command.
LEMMA AnswerKeeps == ASSUME GuiInv, Answer PROVE GuiInv'
<1>1. /\ recv # <<>> /\ handled' = [handled EXCEPT ![Head(recv)[1][1]] = Append(@, Head(recv))]
      /\ recv' = Tail(recv)
  BY DEF Answer
<1>2. /\ tab' = tab /\ slots' = slots /\ client' = client /\ wire' = wire /\ inner' = inner
      /\ buf' = buf /\ frag' = frag
  BY DEF Answer
<1>3. recv \in Seq(Commands) /\ handled \in [Guis -> Seq(Commands)] /\ GuiTypeOK
  BY DEF GuiInv, GuiTypeOK
<1>4. /\ Which(recv) # <<>> /\ Head(Which(recv)) = WhichOf(Head(recv))
      /\ Which(Tail(recv)) = Tail(Which(recv))
      /\ Head(recv) \in Commands /\ Tail(recv) \in Seq(Commands) /\ Which(recv) \in Seq(WhichSet)
  BY <1>1, <1>3, WhichTail, WhichTyped
<1>5. PICK m \in Commands : m = Head(recv)
  BY <1>4
<1>6. PICK g \in Guis, n \in Nat : m \in {One(g, n), Two(g, n)} /\ m[1][1] = g /\ WhichOf(m) = <<g, g, n>>
  BY CommandIs
<1>7. handled' = [handled EXCEPT ![g] = Append(@, m)]
  BY <1>1, <1>5, <1>6
<1>8. PICK q \in Seq(Commands) : q = handled[g]
  BY <1>3
<1>9. handled'[g] = Append(q, m) /\ \A h \in Guis : h # g => handled'[h] = handled[h]
  BY <1>3, <1>7, <1>8
<1>10. /\ Append(q, m) \in Seq(Commands) /\ Len(Append(q, m)) = Len(q) + 1
       /\ \A k \in 1..Len(q) : Append(q, m)[k] = q[k]
       /\ Append(q, m)[Len(q) + 1] = m
  BY AppendProperties
<1>11. Head(Which(recv)) = <<g, g, n>>
  BY <1>4, <1>5, <1>6
<1>12. PICK e \in 0..tab[g].sent :
         /\ Len(handled[g]) <= e /\ Carries(Which(recv), g, Len(handled[g]), e)
         /\ client = g => Continued(Stream, g, tab[g]) /\ Begun(Stream, frag, g, e, tab[g])
  BY DEF GuiInv, CommandsOK
<1>13. /\ Head(Which(recv)) = <<g, g, Len(q) + 1>> /\ Len(q) + 1 <= e
       /\ Carries(Tail(Which(recv)), g, Len(q) + 1, e)
  <2>1. Head(Which(recv))[1] = g
    BY <1>11
  <2>2. tab[g].sent \in Nat
    BY <1>3 DEF GuiTypeOK
  <2>3. e \in Nat /\ Len(q) \in Nat
    BY <1>12, <2>2
  <2>4. Carries(Which(recv), g, Len(q), e)
    BY <1>8, <1>12
  <2>5. QED BY <1>4, <2>1, <2>3, <2>4, CarriesOwn
<1>14. n = Len(q) + 1
  BY <1>11, <1>13
<1>15. Stream' = Stream
  BY <1>2 DEF Stream
<1>16. GuiTypeOK'
  <2>1. handled' \in [Guis -> Seq(Commands)]
    BY <1>3, <1>7, <1>8, <1>10
  <2>2. recv' \in Seq(Commands)
    BY <1>1, <1>4
  <2>3. QED BY <1>2, <1>3, <2>1, <2>2 DEF GuiTypeOK
<1>17. OnceEach'
  BY <1>2 DEF GuiInv, OnceEach
<1>18. WholeBodies'
  <2>1. ASSUME NEW h \in Guis, NEW k \in DOMAIN handled'[h] PROVE handled'[h][k] \in {One(h, k), Two(h, k)}
    <3>1. CASE h # g
      BY <1>9, <2>1, <3>1 DEF GuiInv, WholeBodies
    <3>2. CASE h = g
      <4>1. k \in 1..(Len(q) + 1) /\ Len(q) \in Nat
        BY <1>9, <1>10, <2>1, <3>2
      <4>2. CASE k = Len(q) + 1
        BY <1>6, <1>9, <1>10, <1>14, <3>2, <4>2
      <4>3. CASE k # Len(q) + 1
        <5>1. k \in 1..Len(q)
          BY <4>1, <4>3
        <5>2. q[k] \in {One(g, k), Two(g, k)}
          BY <1>8, <5>1 DEF GuiInv, WholeBodies
        <5>3. QED BY <1>9, <1>10, <3>2, <5>1, <5>2
      <4>4. QED BY <4>2, <4>3
    <3>3. QED BY <3>1, <3>2
  <2>2. QED BY <2>1 DEF WholeBodies
<1>19. ASSUME NEW h \in Guis
       PROVE  \E d \in 0..tab'[h].sent :
                /\ Len(handled'[h]) <= d /\ Carries(Which(recv'), h, Len(handled'[h]), d)
                /\ client' = h => Continued(Stream', h, tab'[h]) /\ Begun(Stream', frag', h, d, tab'[h])
  <2>1. CASE h = g
    <3>1. Len(handled'[g]) = Len(q) + 1
      BY <1>9, <1>10
    <3>2. Carries(Which(recv'), g, Len(q) + 1, e)
      BY <1>1, <1>4, <1>13
    <3>3. QED BY <1>2, <1>12, <1>13, <1>15, <2>1, <3>1, <3>2
  <2>2. CASE h # g
    <3>1. PICK d \in 0..tab[h].sent :
            /\ Len(handled[h]) <= d /\ Carries(Which(recv), h, Len(handled[h]), d)
            /\ client = h => Continued(Stream, h, tab[h]) /\ Begun(Stream, frag, h, d, tab[h])
      BY DEF GuiInv, CommandsOK
    <3>2. tab[h].sent \in Nat /\ handled[h] \in Seq(Commands)
      BY <1>3 DEF GuiTypeOK
    <3>3. d \in Nat /\ Len(handled[h]) \in Nat
      BY <3>1, <3>2
    <3>4. Head(Which(recv))[1] # h
      BY <1>11, <2>2
    <3>5. Carries(Tail(Which(recv)), h, Len(handled[h]), d)
      BY <1>4, <3>1, <3>3, <3>4, CarriesOthers
    <3>6. Carries(Which(recv'), h, Len(handled'[h]), d)
      BY <1>1, <1>4, <1>9, <2>2, <3>5
    <3>7. QED BY <1>2, <1>9, <1>15, <2>2, <3>1, <3>6
  <2>3. QED BY <2>1, <2>2
<1>20. CommandsOK'
  BY <1>19 DEF CommandsOK
<1>21. QED BY <1>16, <1>17, <1>18, <1>20 DEF GuiInv

\* Four values in a row.
LEMMA FourInARow == ASSUME NEW a, NEW b, NEW c, NEW d PROVE <<a, b>> \o <<c, d>> = <<a, b, c, d>>
<1> DEFINE S == {a, b, c, d}
<1>1. PICK x \in Seq(S), y \in Seq(S), z \in Seq(S) : x = <<a, b>> /\ y = <<c, d>> /\ z = <<a, b, c, d>>
  <2>1. <<a, b>> \in Seq(S) /\ <<c, d>> \in Seq(S) /\ <<a, b, c, d>> \in Seq(S)
    OBVIOUS
  <2>2. QED BY <2>1
<1>2. /\ Len(x) = 2 /\ Len(y) = 2 /\ Len(z) = 4 /\ x[1] = a /\ x[2] = b /\ y[1] = c /\ y[2] = d
      /\ z[1] = a /\ z[2] = b /\ z[3] = c /\ z[4] = d
  BY <1>1
<1> HIDE DEF S
<1>3. /\ x \o y \in Seq(S) /\ Len(x \o y) = Len(x) + Len(y)
      /\ \A i \in 1..Len(x) : (x \o y)[i] = x[i]
      /\ \A i \in 1..Len(y) : (x \o y)[Len(x) + i] = y[i]
  BY ConcatOf
<1>4. PICK w \in Seq(S) : w = x \o y
  BY <1>3
<1>5. /\ Len(w) = 4 /\ \A i \in 1..2 : w[i] = x[i]
      /\ \A i \in 1..2 : w[2 + i] = y[i]
  BY <1>2, <1>3, <1>4
<1>6. w[1] = a /\ w[2] = b /\ w[3] = c /\ w[4] = d
  <2>1. w[1] = x[1] /\ w[2] = x[2] /\ w[2 + 1] = y[1] /\ w[2 + 2] = y[2]
    BY <1>5
  <2>2. 2 + 1 = 3 /\ 2 + 2 = 4
    OBVIOUS
  <2>3. QED BY <1>2, <2>1, <2>2
<1>7. ASSUME NEW i \in 1..4 PROVE w[i] = z[i]
  <2>1. i = 1 \/ i = 2 \/ i = 3 \/ i = 4
    OBVIOUS
  <2>2. QED BY <1>2, <1>6, <2>1
<1>8. w = z
  BY <1>2, <1>5, <1>7, SeqEqual
<1>9. QED BY <1>1, <1>4, <1>8

\* The two parts of a command in two frames.
LEMMA TwoIs ==
  ASSUME NEW g, NEW n
  PROVE  One(g, n) \o <<<<g, n, 2, 1>>, <<g, n, 2, 2>>>> = Two(g, n)
BY FourInARow DEF One, Two

\* The goodbye is parsed.
LEMMA CloseKeeps ==
  ASSUME GuiInv, Parse, buf[1].op = "close"
  PROVE  GuiInv'
<1>1. /\ client' = Free /\ wire' = <<>> /\ inner' = <<>> /\ buf' = <<>>
      /\ recv' = recv /\ tab' = tab /\ slots' = slots /\ handled' = handled
  BY DEF Parse, Over, Leftover
<1>2. Free \notin Guis /\ <<>> \in Seq(HalfSet)
  BY GuiAssumption
<1>3. GuiTypeOK'
  BY <1>1, <1>2 DEF GuiInv, GuiTypeOK
<1>4. OnceEach'
  BY <1>1, <1>2 DEF GuiInv, OnceEach
<1>5. CommandsOK' /\ WholeBodies'
  BY <1>1, <1>2, Kept
<1>6. QED BY <1>3, <1>4, <1>5 DEF GuiInv

\* A command that a frame completes is the next of its GUI.
LEMMA CommandQueued ==
  ASSUME GuiInv, NEW g \in Guis, NEW e \in 0..tab[g].sent, NEW m,
         m \in {One(g, e + 1), Two(g, e + 1)}, e + 1 <= tab[g].sent,
         Len(handled[g]) <= e, Carries(Which(recv), g, Len(handled[g]), e),
         client = g, Continued(Stream', g, tab[g]), Begun(Stream', frag', g, e + 1, tab[g]),
         recv' = Append(recv, m), handled' = handled, tab' = tab, client' = client
  PROVE  recv' \in Seq(Commands) /\ CommandsOK' /\ WholeBodies'
<1>1. recv \in Seq(Commands) /\ handled \in [Guis -> Seq(Commands)] /\ tab[g].sent \in Nat
  BY DEF GuiInv, GuiTypeOK
<1>2. e \in Nat /\ e + 1 \in Nat /\ e + 1 \in 0..tab[g].sent
  BY <1>1
<1>3. m \in Commands
  BY <1>2 DEF Commands
<1>4. WhichOf(m) = <<g, g, e + 1>>
  <2>1. m[1] = <<g, e + 1, 1, 1>>
    BY DEF One, Two
  <2>2. QED BY <2>1 DEF WhichOf
<1>5. /\ recv' \in Seq(Commands) /\ <<WhichOf(m)>> \in Seq(WhichSet)
      /\ Which(recv') = Which(recv) \o <<WhichOf(m)>>
  BY <1>1, <1>3, WhichAppend
<1>6. Which(recv) \in Seq(WhichSet)
  BY <1>1, WhichTyped
<1>7. PICK more \in Seq(WhichSet) : more = <<WhichOf(m)>>
  BY <1>5
<1>8. Len(more) = 1 /\ DOMAIN more = {1} /\ more[1] = <<g, g, e + 1>>
  BY <1>4, <1>7
<1>9. Which(recv') = Which(recv) \o more
  BY <1>5, <1>7
<1>10. ASSUME NEW h \in Guis
       PROVE  \E d \in 0..tab'[h].sent :
                /\ Len(handled'[h]) <= d /\ Carries(Which(recv'), h, Len(handled'[h]), d)
                /\ client' = h => Continued(Stream', h, tab'[h]) /\ Begun(Stream', frag', h, d, tab'[h])
  <2>1. CASE h = g
    <3>1. Len(handled[g]) \in Nat
      BY <1>1
    <3>2. \A k \in DOMAIN more : more[k] = <<g, g, e + k>>
      BY <1>8
    <3>3. Carries(Which(recv) \o more, g, Len(handled[g]), e + Len(more))
      BY <1>2, <1>6, <3>1, <3>2, CarriesMore
    <3>4. Carries(Which(recv'), g, Len(handled'[g]), e + 1)
      BY <1>8, <1>9, <3>3
    <3>5. Len(handled'[g]) <= e + 1
      BY <1>2, <3>1
    <3>6. QED BY <1>2, <2>1, <3>4, <3>5
  <2>2. CASE h # g
    <3>1. PICK d \in 0..tab[h].sent :
            Len(handled[h]) <= d /\ Carries(Which(recv), h, Len(handled[h]), d)
      BY DEF GuiInv, CommandsOK
    <3>2. tab[h].sent \in Nat /\ handled[h] \in Seq(Commands)
      BY <1>1 DEF GuiInv, GuiTypeOK
    <3>3. d \in Nat /\ Len(handled[h]) \in Nat
      BY <3>1, <3>2
    <3>4. \A k \in DOMAIN more : more[k][1] # h
      BY <1>8, <2>2
    <3>5. Carries(Which(recv) \o more, h, Len(handled[h]), d)
      BY <1>6, <3>1, <3>3, <3>4, CarriesOthersMore
    <3>6. QED BY <1>9, <2>2, <3>1, <3>5
  <2>3. QED BY <2>1, <2>2
<1>11. CommandsOK'
  BY <1>10 DEF CommandsOK
<1>12. WholeBodies'
  BY DEF GuiInv, WholeBodies
<1>13. QED BY <1>5, <1>11, <1>12

\* A frame that completes no command.
LEMMA NoCommand ==
  ASSUME GuiInv, NEW g \in Guis, NEW e \in 0..tab[g].sent,
         Len(handled[g]) <= e, Carries(Which(recv), g, Len(handled[g]), e),
         client = g, Continued(Stream', g, tab[g]), Begun(Stream', frag', g, e, tab[g]),
         recv' = recv, handled' = handled, tab' = tab, client' = client
  PROVE  recv' \in Seq(Commands) /\ CommandsOK' /\ WholeBodies'
<1>1. ASSUME NEW h \in Guis
      PROVE  \E d \in 0..tab'[h].sent :
                /\ Len(handled'[h]) <= d /\ Carries(Which(recv'), h, Len(handled'[h]), d)
                /\ client' = h => Continued(Stream', h, tab'[h]) /\ Begun(Stream', frag', h, d, tab'[h])
  <2>1. CASE h = g
    BY <2>1
  <2>2. CASE h # g
    <3>1. PICK d \in 0..tab[h].sent :
            Len(handled[h]) <= d /\ Carries(Which(recv), h, Len(handled[h]), d)
      BY DEF GuiInv, CommandsOK
    <3>2. QED BY <2>2, <3>1
  <2>3. QED BY <2>1, <2>2
<1>2. CommandsOK'
  BY <1>1 DEF CommandsOK
<1>3. QED BY <1>2 DEF GuiInv, GuiTypeOK, WholeBodies

\* A frame is parsed.
LEMMA FrameKeeps ==
  ASSUME GuiInv, Parse, buf[1].op # "close"
  PROVE  GuiInv'
<1>1. /\ Frame(buf[1], <<buf[1].part, buf[2].part>>) /\ buf' = SubSeq(buf, 3, Len(buf))
      /\ client' = client /\ wire' = wire /\ inner' = inner
      /\ tab' = tab /\ slots' = slots /\ handled' = handled /\ ~(Len(buf) < 2)
  BY DEF Parse, Parsed
<1>2. /\ buf \in Seq(HalfSet) /\ inner \in Seq(HalfSet) /\ wire \in Seq(HalfSet)
      /\ GuiTypeOK /\ OnceEach
  BY DEF GuiInv, GuiTypeOK
<1>3. Len(buf) >= 2
  BY <1>1, <1>2
<1>4. client # Free
  BY <1>2, <1>3 DEF OnceEach
<1>5. PICK g \in Guis : g = client
  BY <1>2, <1>4 DEF GuiTypeOK
<1>6. PICK e \in 0..tab[g].sent :
        /\ Len(handled[g]) <= e /\ Carries(Which(recv), g, Len(handled[g]), e)
        /\ client = g => Continued(Stream, g, tab[g]) /\ Begun(Stream, frag, g, e, tab[g])
  BY DEF GuiInv, CommandsOK
<1>7. e \in Nat
  BY <1>2, <1>6 DEF GuiTypeOK
<1> DEFINE c == SubSeq(buf, 3, Len(buf))
<1>8. /\ c \in Seq(HalfSet) /\ (c \o inner) \o wire \in Seq(HalfSet)
      /\ Len((buf \o inner) \o wire) = Len((c \o inner) \o wire) + 2
      /\ \A k \in 1..Len((c \o inner) \o wire) : ((c \o inner) \o wire)[k] = ((buf \o inner) \o wire)[k + 2]
      /\ ((buf \o inner) \o wire)[1] = buf[1] /\ ((buf \o inner) \o wire)[2] = buf[2]
  BY <1>2, <1>3, StreamLoses
<1>9. Stream = (buf \o inner) \o wire /\ Stream' = (c \o inner) \o wire
  BY <1>1 DEF Stream
<1>10. Stream \in Seq(HalfSet)
  BY <1>2, <1>9, StreamIs
<1> HIDE DEF c
<1>11. PICK s \in Seq(HalfSet) : s = Stream
  BY <1>10
<1>12. PICK t \in Seq(HalfSet) : t = Stream'
  BY <1>8, <1>9
<1>13. /\ Len(s) = Len(t) + 2 /\ \A k \in 1..Len(t) : t[k] = s[k + 2]
       /\ s[1] = buf[1] /\ s[2] = buf[2]
  BY <1>8, <1>9, <1>11, <1>12
<1>14. Continued(s, g, tab[g]) /\ Begun(s, frag, g, e, tab[g])
  BY <1>5, <1>6, <1>11
<1>15. Continued(Stream', g, tab[g])
  BY <1>12, <1>13, <1>14, ContinuedMoves
<1>16. s[1].op # "close"
  BY <1>13
<1> DEFINE body == <<buf[1].part, buf[2].part>>
<1>17. \/ /\ s[1].op = "text" /\ s[1].fin = TRUE /\ <<s[1].part, s[2].part>> = One(g, e + 1)
           /\ frag.on = FALSE /\ e + 1 <= tab[g].sent /\ Between(t, 1, g, e + 1, tab[g])
        \/ /\ s[1].op = "text" /\ s[1].fin = FALSE /\ <<s[1].part, s[2].part>> = One(g, e + 1)
           /\ FrameAt(t, 1, Ping(g)) /\ FrameAt(t, 3, Second(g, e + 1))
        \/ /\ s[1].op = "ping" /\ frag = [on |-> TRUE, acc |-> One(g, e + 1)]
           /\ FrameAt(t, 1, Second(g, e + 1))
        \/ /\ s[1].op = "cont" /\ s[1].fin = TRUE /\ frag = [on |-> TRUE, acc |-> One(g, e + 1)]
           /\ s[1].part = <<g, e + 1, 2, 1>> /\ s[2].part = <<g, e + 1, 2, 2>>
           /\ e + 1 <= tab[g].sent /\ Between(t, 1, g, e + 1, tab[g])
  BY <1>7, <1>13, <1>14, <1>16, Parsing
<1>18. recv' \in Seq(Commands) /\ CommandsOK' /\ WholeBodies'
  <2>1. CASE /\ s[1].op = "text" /\ s[1].fin = TRUE /\ <<s[1].part, s[2].part>> = One(g, e + 1)
             /\ frag.on = FALSE /\ e + 1 <= tab[g].sent /\ Between(t, 1, g, e + 1, tab[g])
    <3>1. recv' = Append(recv, One(g, e + 1)) /\ frag' = frag
      BY <1>1, <1>13, <2>1 DEF Frame
    <3>2. Begun(Stream', frag', g, e + 1, tab[g])
      BY <1>12, <2>1, <3>1 DEF Begun
    <3>3. One(g, e + 1) \in {One(g, e + 1), Two(g, e + 1)}
      OBVIOUS
    <3>4. QED BY <1>1, <1>5, <1>6, <1>15, <2>1, <3>1, <3>2, <3>3, CommandQueued
  <2>2. CASE /\ s[1].op = "text" /\ s[1].fin = FALSE /\ <<s[1].part, s[2].part>> = One(g, e + 1)
             /\ FrameAt(t, 1, Ping(g)) /\ FrameAt(t, 3, Second(g, e + 1))
    <3>1. frag' = [on |-> TRUE, acc |-> One(g, e + 1)] /\ recv' = recv
      BY <1>1, <1>13, <2>2 DEF Frame
    <3>2. Begun(Stream', frag', g, e, tab[g])
      BY <1>12, <2>2, <3>1 DEF Begun
    <3>3. QED BY <1>1, <1>5, <1>6, <1>15, <3>1, <3>2, NoCommand
  <2>3. CASE /\ s[1].op = "ping" /\ frag = [on |-> TRUE, acc |-> One(g, e + 1)]
             /\ FrameAt(t, 1, Second(g, e + 1))
    <3>1. frag' = frag /\ recv' = recv
      BY <1>1, <1>13, <2>3 DEF Frame
    <3>2. Begun(Stream', frag', g, e, tab[g])
      BY <1>12, <2>3, <3>1 DEF Begun
    <3>3. QED BY <1>1, <1>5, <1>6, <1>15, <3>1, <3>2, NoCommand
  <2>4. CASE /\ s[1].op = "cont" /\ s[1].fin = TRUE /\ frag = [on |-> TRUE, acc |-> One(g, e + 1)]
             /\ s[1].part = <<g, e + 1, 2, 1>> /\ s[2].part = <<g, e + 1, 2, 2>>
             /\ e + 1 <= tab[g].sent /\ Between(t, 1, g, e + 1, tab[g])
    <3>1. buf[1].op = "cont" /\ buf[1].fin = TRUE /\ body = <<<<g, e + 1, 2, 1>>, <<g, e + 1, 2, 2>>>>
      BY <1>13, <2>4
    <3>2. frag.on = TRUE /\ frag.acc = One(g, e + 1)
      BY <2>4
    <3>3. frag.acc \o body = Two(g, e + 1)
      BY <3>1, <3>2, TwoIs
    <3> HIDE DEF body
    <3>4. recv' = Append(recv, frag.acc \o body) /\ frag' = NoFragment
      BY <1>1, <3>1, <3>2 DEF Frame, body
    <3>5. recv' = Append(recv, Two(g, e + 1))
      BY <3>3, <3>4
    <3>6. frag'.on = FALSE
      BY <3>4 DEF NoFragment
    <3>7. Begun(Stream', frag', g, e + 1, tab[g])
      BY <1>12, <2>4, <3>6 DEF Begun
    <3>8. Two(g, e + 1) \in {One(g, e + 1), Two(g, e + 1)}
      OBVIOUS
    <3>9. QED BY <1>1, <1>5, <1>6, <1>15, <2>4, <3>5, <3>7, <3>8, CommandQueued
  <2>5. QED BY <1>17, <2>1, <2>2, <2>3, <2>4, Zenon
<1>19. buf' \in Seq(HalfSet)
  BY <1>1, <1>8 DEF c
<1>20. GuiTypeOK'
  BY <1>1, <1>2, <1>18, <1>19 DEF GuiTypeOK
<1>21. OnceEach'
  BY <1>1, <1>2, <1>4 DEF OnceEach
<1>22. QED BY <1>18, <1>20, <1>21 DEF GuiInv

\* Every step of the server and of its GUIs.
LEMMA GuiStep == ASSUME GuiInv, [GuiNext]_guivars PROVE GuiInv'
<1>1. CASE \E by \in Guis \union {Page} : Accept(by)
  <2>1. PICK by \in Guis \union {Page} : Accept(by)
    BY <1>1
  <2>2. PICK i \in 1..Slots : slots[i] = Free
    BY <2>1 DEF Accept
  <2>3. QED BY <2>1, <2>2, ConnectionsKeep
<1>2. CASE \E i \in 1..Slots : Serve(i) \/ GiveUpSlot(i)
  <2>1. PICK i \in 1..Slots : Serve(i) \/ GiveUpSlot(i)
    BY <1>2
  <2>2. Page \in Guis \union {Page}
    OBVIOUS
  <2>3. QED BY <2>1, <2>2, ServeKeeps, ConnectionsKeep
<1>3. CASE \E g \in Guis : SendCommand(g) \/ Leave(g)
  BY <1>3, SendKeeps, LeaveKeeps
<1>4. CASE Parse
  BY <1>4, CloseKeeps, FrameKeeps
<1>5. CASE Read \/ Break \/ SendQueued \/ Answer \/ Push
  BY <1>5, ReadKeeps, BreakKeeps, QueueKeeps, AnswerKeeps
<1>6. CASE UNCHANGED guivars
  <2>1. /\ tab' = tab /\ slots' = slots /\ client' = client /\ wire' = wire /\ inner' = inner
        /\ buf' = buf /\ frag' = frag /\ recv' = recv /\ handled' = handled
    BY <1>6 DEF guivars
  <2>2. Stream' = Stream
    BY <2>1 DEF Stream
  <2>3. CommandsOK' /\ WholeBodies'
    BY <2>1, <2>2, Kept
  <2>4. GuiTypeOK' /\ OnceEach'
    BY <2>1 DEF GuiInv, GuiTypeOK, OnceEach
  <2>5. QED BY <2>3, <2>4 DEF GuiInv
<1>7. QED BY <1>1, <1>2, <1>3, <1>4, <1>5, <1>6 DEF GuiNext

\* Nothing has begun.
LEMMA GuiStart == ASSUME GuiInit PROVE GuiInv
<1>1. /\ tab = [g \in Guis |-> [at |-> "away", sent |-> 0, answers |-> {}]]
      /\ slots = [i \in 1..Slots |-> Free]
      /\ client = Free /\ wire = <<>> /\ inner = <<>> /\ buf = <<>>
      /\ recv = <<>> /\ handled = [g \in Guis |-> <<>>] /\ Free \notin Guis
  BY GuiAssumption DEF GuiInit
<1>2. <<>> \in Seq(HalfSet) /\ <<>> \in Seq(Commands) /\ 0 \in Nat
  OBVIOUS
<1>3. GuiTypeOK
  <2>1. tab = [g \in Guis |-> [at |-> tab[g].at, sent |-> tab[g].sent, answers |-> tab[g].answers]]
    BY <1>1
  <2>2. \A g \in Guis : tab[g].sent \in Nat
    BY <1>1
  <2>3. slots = [i \in 1..Slots |-> slots[i]] /\ \A i \in 1..Slots : slots[i] \in Guis \union {Free, Page}
    BY <1>1
  <2>4. handled \in [Guis -> Seq(Commands)]
    BY <1>1, <1>2
  <2>5. QED BY <1>1, <1>2, <2>1, <2>2, <2>3, <2>4 DEF GuiTypeOK
<1>4. OnceEach
  BY <1>1 DEF OnceEach
<1>5. WholeBodies
  BY <1>1 DEF WholeBodies
<1>6. ASSUME NEW g \in Guis
      PROVE  \E e \in 0..tab[g].sent :
               /\ Len(handled[g]) <= e /\ Carries(Which(recv), g, Len(handled[g]), e)
               /\ client = g => Continued(Stream, g, tab[g]) /\ Begun(Stream, frag, g, e, tab[g])
  <2>1. tab[g].sent = 0 /\ Len(handled[g]) = 0 /\ client # g
    BY <1>1
  <2>2. Len(Which(recv)) = 0 /\ DOMAIN Which(recv) = {}
    <3>1. recv \in Seq(Commands) /\ Len(recv) = 0 /\ DOMAIN recv = {}
      BY <1>1, <1>2
    <3>2. QED BY <3>1, WhichTyped
  <2>3. Carries(Which(recv), g, 0, 0)
    BY <2>2 DEF Carries
  <2>4. 0 \in 0..tab[g].sent
    BY <2>1
  <2>5. QED BY <2>1, <2>3, <2>4
<1>7. CommandsOK
  BY <1>6 DEF CommandsOK
<1>8. QED BY <1>3, <1>4, <1>5, <1>7 DEF GuiInv

\* The bodies of a command.
LEMMA BodiesAre ==
  ASSUME NEW g, NEW n
  PROVE  One(g, n) \in Bodies2(g, n) /\ Two(g, n) \in Bodies2(g, n)
<1> DEFINE F(k) == [i \in 1..2 * k |-> <<g, n, (i + 1) \div 2, 2 - (i % 2)>>]
<1>1. \A i \in 1..4 : i = 1 \/ i = 2 \/ i = 3 \/ i = 4
  OBVIOUS
<1>2. \A i \in 1..2 : i = 1 \/ i = 2
  OBVIOUS
<1>3. /\ (1 + 1) \div 2 = 1 /\ (2 + 1) \div 2 = 1 /\ (3 + 1) \div 2 = 2 /\ (4 + 1) \div 2 = 2
      /\ 1 % 2 = 1 /\ 2 % 2 = 0 /\ 3 % 2 = 1 /\ 4 % 2 = 0
      /\ 2 - 1 = 1 /\ 2 - 0 = 2 /\ 2 * 1 = 2 /\ 2 * 2 = 4
  OBVIOUS
<1>4. F(1) = One(g, n)
  <2>1. F(1) = [i \in 1..2 |-> <<g, n, (i + 1) \div 2, 2 - (i % 2)>>]
    BY <1>3
  <2>2. \A i \in 1..2 : <<g, n, (i + 1) \div 2, 2 - (i % 2)>> = One(g, n)[i]
    BY <1>2, <1>3 DEF One
  <2>3. One(g, n) = [i \in 1..2 |-> One(g, n)[i]]
    BY DEF One
  <2>4. QED BY <2>1, <2>2, <2>3
<1>5. F(2) = Two(g, n)
  <2>1. F(2) = [i \in 1..4 |-> <<g, n, (i + 1) \div 2, 2 - (i % 2)>>]
    BY <1>3
  <2>2. \A i \in 1..4 : <<g, n, (i + 1) \div 2, 2 - (i % 2)>> = Two(g, n)[i]
    BY <1>1, <1>3 DEF Two
  <2>3. Two(g, n) = [i \in 1..4 |-> Two(g, n)[i]]
    BY DEF Two
  <2>4. QED BY <2>1, <2>2, <2>3
<1>6. 1 \in 1..2 /\ 2 \in 1..2
  OBVIOUS
<1>7. Bodies2(g, n) = {F(k) : k \in 1..2}
  BY DEF Bodies2
<1> HIDE DEF F
<1>8. F(1) \in {F(k) : k \in 1..2} /\ F(2) \in {F(k) : k \in 1..2}
  BY <1>6
<1>9. QED BY <1>4, <1>5, <1>7, <1>8

\* The main loop handles the commands of every session in the order they were
\* sent, each once and whole, whatever the frames, the reads, the records of
\* TLS and the sessions before: parse_ws_frames_ and pop_message.
THEOREM CommandsInOrder == GuiSpec => []CommandsWhole
<1>1. GuiInit => GuiInv
  BY GuiStart
<1>2. GuiInv /\ [GuiNext]_guivars => GuiInv'
  BY GuiStep
<1>3. ASSUME GuiInv PROVE CommandsWhole
  <2>1. ASSUME NEW g \in Guis, NEW n \in DOMAIN handled[g]
        PROVE  n <= tab[g].sent /\ handled[g][n] \in Bodies2(g, n)
    <3>1. handled[g] \in Seq(Commands) /\ tab[g].sent \in Nat
      BY <1>3 DEF GuiInv, GuiTypeOK
    <3>2. n \in Nat /\ n <= Len(handled[g]) /\ Len(handled[g]) \in Nat
      BY <2>1, <3>1
    <3>3. PICK e \in 0..tab[g].sent : Len(handled[g]) <= e
      BY <1>3 DEF GuiInv, CommandsOK
    <3>4. n <= tab[g].sent
      BY <3>1, <3>2, <3>3
    <3>5. handled[g][n] \in {One(g, n), Two(g, n)}
      BY <1>3 DEF GuiInv, WholeBodies
    <3>6. One(g, n) \in Bodies2(g, n) /\ Two(g, n) \in Bodies2(g, n)
      BY BodiesAre
    <3>7. QED BY <3>4, <3>5, <3>6
  <2>2. QED BY <2>1 DEF CommandsWhole
<1>4. QED BY <1>1, <1>2, <1>3, PTL DEF GuiSpec
=============================================================================
