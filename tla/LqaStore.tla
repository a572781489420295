------------------------------- MODULE LqaStore -------------------------------
(***************************************************************************)
(* What the station remembers of the channels: LQADatabase with its file,  *)
(* the ranking of channels for a call (LQAAnalyzer) and the history of     *)
(* measurements (LQAHistoryStore).                                         *)
(*                                                                         *)
(* Time is counted in units of some hours.  The database keeps the time of *)
(* the day in a 32-bit number of milliseconds, which wraps after Wrap      *)
(* units; some of its callers give it the time since the program started.  *)
(* Quality is a number up to Best in either direction, -1 without any.     *)
(***************************************************************************)
EXTENDS Integers, SequencesExt

CONSTANTS
  Peers,     \* the other stations
  Channels,  \* frequencies
  Best,      \* the best quality
  Capacity,  \* kCapacity
  MaxAge,    \* max_age_ms
  Penalty,   \* handshake_fail_penalty_window_ms
  Retention, \* retention_days, where it is a limit (0 is none)
  Wrap,      \* 2^32 ms
  Boot,      \* the time at the start
  MaxOff,    \* how long the station is switched off at most
  MaxTime,
  MaxOps     \* events of a behaviour

ASSUME LqaAssumption ==
  /\ Retention \in Nat \ {0} /\ Boot \in Nat /\ IsFiniteSet(Channels)
  /\ MaxAge \in Nat /\ Wrap \in Nat /\ MaxAge + 1 < Wrap

All == "all"  \* the channel's own entry, which has no station
Unknown == -1

VARIABLES
  db,     \* entries_: keys to entries
  lqafile,\* the file: << >> or [whole, db]
  hist,   \* LQAHistoryStore: [mem, file, open], times of the samples
  clock,  \* [t, boot, off]: the time, when the program started, how long it is
          \* off; off = -1 while it runs
  ops,    \* events so far
  said,   \* the last sounding of a station on a channel: "TIS", "TWAS" or none
  noted   \* times of the samples given to the history since it was cleared

lvars == <<db, lqafile, hist, clock, ops, said, noted>>

Running == clock.off = -1
Wall == clock.t % Wrap         \* get_current_time_ms
Since == (clock.t - clock.boot) % Wrap  \* now_ms_ and current_time_ms
Stamp(ts) == IF ts = 0 THEN Wall ELSE ts
Age(stamp) == (Wall - stamp) % Wrap

NewEntry == [contact |-> 0, sounding |-> 0, from |-> Unknown, to |-> Unknown, twas |-> FALSE,
             failed |-> 0, score |-> 0, heard |-> Unknown]

Higher(a, b) == IF a >= b THEN a ELSE b
Lower(a, b) == IF a <= b THEN a ELSE b
Activity(e) == Higher(e.contact, e.sounding)

-----------------------------------------------------------------------------
(* Scores *)

\* compute_score: four parts quality and one part recency, as it is now.
Unit == 5 * MaxAge
Quality(e) == IF e.from # Unknown THEN e.from ELSE Higher(e.to, 0)
Score(e) ==
  4 * MaxAge * Quality(e) +
  (IF Activity(e) = 0 THEN 0 ELSE Best * (MaxAge - Lower(Age(Activity(e)), MaxAge)))
Scored(e) == [e EXCEPT !.score = Score(e)]

\* bilateral_channel_score: the mean of both directions (twice of it here).
PathScore(e) ==
  IF e.to = Unknown THEN 2 * e.score
  ELSE (IF e.from = Unknown THEN e.score ELSE Unit * e.from) + Unit * e.to
\* rank_channels_for_station: a channel on which a call failed counts half.
Ranked(e) ==
  IF e.failed > 0 /\ Age(e.failed) < Penalty THEN PathScore(e) \div 2 ELSE PathScore(e)

Entry(f, s) == <<f, s>> \in DOMAIN db
\* compute_channel_aggregate_score, without the channel's own entry.
Aggregate(f) ==
  LET of == {k \in DOMAIN db : k[1] = f /\ k[2] # All} IN
  IF of = {} THEN 0
  ELSE FoldSet(LAMBDA k, sum : sum + PathScore(db[k]), 0, of) \div Cardinality(of)

\* rank_channels_for_call: channels with an entry of the station first.
Precedes(f, g, s) ==
  IF Entry(f, s) /\ Entry(g, s) THEN Ranked(db[<<f, s>>]) > Ranked(db[<<g, s>>])
  ELSE IF Entry(f, s) \/ Entry(g, s) THEN Entry(f, s)
  ELSE Aggregate(f) > Aggregate(g)
\* stable_sort: a channel keeps its place before those that do not precede it.
CallOrder(list, s) ==
  LET rank(i) == Cardinality({j \in DOMAIN list :
                   \/ Precedes(list[j], list[i], s)
                   \/ j < i /\ ~Precedes(list[i], list[j], s)}) + 1
  IN  [n \in DOMAIN list |-> list[CHOOSE i \in DOMAIN list : rank(i) = n]]

-----------------------------------------------------------------------------
(* Updates *)

Minus(d, k) == [x \in DOMAIN d \ {k} |-> d[x]]
Put(d, k, e) == [x \in DOMAIN d \union {k} |-> IF x = k THEN e ELSE d[x]]

\* evict_oldest_if_full, before a new key is put in.
Room(d) ==
  IF Cardinality(DOMAIN d) < Capacity THEN {d}
  ELSE {Minus(d, k) : k \in {x \in DOMAIN d : \A y \in DOMAIN d : Activity(d[x]) <= Activity(d[y])}}

\* update_entry_extended; ts = 0 stands for the time of the day.
Known(d, k) == IF k \in DOMAIN d THEN d[k] ELSE NewEntry
Mean(old, q) == IF old.from = Unknown THEN {q} ELSE Lower(q, old.from)..Higher(q, old.from)
Dated(e, k, ts) ==
  IF k[2] = All THEN [e EXCEPT !.sounding = Stamp(ts)] ELSE [e EXCEPT !.contact = Stamp(ts)]
Noted(e, k, m, ts) == Scored(Dated([e EXCEPT !.from = m, !.heard = clock.t], k, ts))
Measured(d, k, q, ts) ==
  {Put(r, k, Noted(Known(d, k), k, m, ts)) :
     m \in Mean(Known(d, k), q), r \in IF k \in DOMAIN d THEN {d} ELSE Room(d)}

\* The entry of a key, or a new one with the time it is made: the stubs of
\* update_bilateral, mark_bilateral_attempted and record_handshake_fail.
Touched(d, k, ts) ==
  IF k \in DOMAIN d THEN {d} ELSE {Put(r, k, [NewEntry EXCEPT !.contact = Stamp(ts)]) : r \in Room(d)}

\* set_sounding_availability: TIS and TWAS, whichever came last.
Availability(e, twas) == Scored([e EXCEPT !.twas = twas, !.sounding = Wall])

Event == Running /\ ops < MaxOps /\ ops' = ops + 1

\* process_sounding: the channel's entry, the station's and its availability.
SoundingHeard(f, s, q, twas) ==
  /\ Event
  /\ \E d1 \in Measured(db, <<f, All>>, q, 0) : \E d2 \in Measured(d1, <<f, s>>, q, 0) :
       db' = [d2 EXCEPT ![<<f, s>>] = Availability(@, twas)]
  /\ said' = [said EXCEPT ![<<f, s>>] = IF twas THEN "TWAS" ELSE "TIS"]
  /\ UNCHANGED <<lqafile, hist, clock, noted>>

\* update_lqa: each word of the partner, in a handshake and on a link.
WordHeard(f, s, q) ==
  /\ Event
  /\ db' \in Measured(db, <<f, s>>, q, Since)
  /\ UNCHANGED <<lqafile, hist, clock, said, noted>>

\* prune_locked: the samples before the first that is not too old are dropped.
TooOld(x) == clock.t - x > Retention
Drop(times) ==
  CHOOSE n \in 0..Len(times) :
    /\ \A j \in 1..n : TooOld(times[j])
    /\ n < Len(times) => ~TooOld(times[n + 1])
Recent(times) == SubSeq(times, Drop(times) + 1, Len(times))
\* record: one more sample, in memory and in the file.
Recorded(h) ==
  [h EXCEPT !.mem = Recent(Append(@, clock.t)), !.file = IF h.open THEN Append(@, clock.t) ELSE @]

\* The measurement of a frame, when it has settled.
FrameSettled(f, s, q) ==
  /\ Event
  /\ db' \in Measured(db, <<f, s>>, q, 0)
  /\ hist' = Recorded(hist) /\ noted' = Append(noted, clock.t)
  /\ UNCHANGED <<lqafile, clock, said>>

\* apply_pending and on_report_data: what the partner heard of us.
PeerReports(f, s, q) ==
  /\ Event
  /\ \E d \in Touched(db, <<f, s>>, 0) :
       db' = [d EXCEPT ![<<f, s>>] =
                Scored([@ EXCEPT !.to = q, !.contact = Wall, !.heard = clock.t])]
  /\ UNCHANGED <<lqafile, hist, clock, said, noted>>

\* initiate_call.  It fails on every channel, or is concluded, which marks
\* the first one.  (A stub may be evicted by the next.)
TouchedOne(ds, k) == UNION {Touched(d, k, Since) : d \in ds}
TouchedAll(d, list, s) ==
  LET upTo[n \in 0..Len(list)] ==
        IF n = 0 THEN {d} ELSE TouchedOne(upTo[n - 1], <<list[n], s>>)
  IN  upTo[Len(list)]
CallFails(s) ==
  /\ Event
  /\ \E d \in TouchedAll(db, SetToSeq(Channels), s) :
       db' = [k \in DOMAIN d |->
                IF k[2] = s THEN [d[k] EXCEPT !.failed = Stamp(Since)] ELSE d[k]]
  /\ UNCHANGED <<lqafile, hist, clock, said, noted>>
CallConcludes(s) ==
  /\ Event
  /\ \E list \in {l \in [1..Cardinality(Channels) -> Channels] : IsInjective(l)} :
       LET k == <<CallOrder(list, s)[1], s>> IN
       \E d \in Touched(db, k, 0) : db' = [d EXCEPT ![k] = Scored(@)]
  /\ UNCHANGED <<lqafile, hist, clock, said, noted>>

ClearLqa ==
  /\ Event /\ db # << >>
  /\ db' = << >> /\ lqafile' = <<[whole |-> TRUE, db |-> << >>]>>
  /\ UNCHANGED <<hist, clock, said, noted>>

\* clear_and_truncate: the file is opened again to append.
StaysClosed(was) == FALSE
Reopened(was) == was
ClearHistory ==
  /\ Event
  /\ hist' = [mem |-> << >>, file |-> << >>, open |-> Reopened(hist.open)] /\ noted' = << >>
  /\ UNCHANGED <<db, lqafile, clock, said>>

-----------------------------------------------------------------------------
(* Time, the file and restarts *)

\* prune_stale_entries, every second; the age is taken modulo 2^32.
StaleAbsolute(e) == Wall > Activity(e) + MaxAge
Stale(e) == Age(Activity(e)) > MaxAge
Pruned(d) == [k \in {x \in DOMAIN d : ~Stale(d[x])} |-> d[k]]

\* That is often, compared with a unit of time.
Settled == db = Pruned(db)
Later ==
  /\ clock.t < MaxTime /\ (Running => Settled)
  /\ clock' = [clock EXCEPT !.t = @ + 1, !.off = IF Running THEN @ ELSE @ + 1]
  /\ Running \/ clock.off < MaxOff
  /\ UNCHANGED <<db, lqafile, hist, ops, said, noted>>
Prune ==
  /\ Running /\ ~Settled /\ db' = Pruned(db)
  /\ UNCHANGED <<lqafile, hist, clock, ops, said, noted>>

\* save_to_file leaves out the failures and what a sounding said; the file is
\* truncated first, and a crash leaves the beginning of it.
Persistent(d) == [k \in DOMAIN d |-> [d[k] EXCEPT !.failed = 0, !.twas = FALSE]]
Stop ==
  /\ Event /\ Settled
  /\ clock' = [clock EXCEPT !.off = 0]
  /\ \/ lqafile' = <<[whole |-> TRUE, db |-> Persistent(db)]>>
     \/ \E part \in SUBSET DOMAIN db :
          lqafile' = <<[whole |-> FALSE, db |-> [k \in part |-> Persistent(db)[k]]]>>
     \/ UNCHANGED lqafile
  /\ db' = << >> /\ hist' = [hist EXCEPT !.mem = << >>, !.open = FALSE]
  /\ UNCHANGED <<said, noted>>

\* load_from_file: the entries before the torn one stay, although the file is
\* rejected.  load_lqa_history: read, and then open to append.
Start ==
  /\ ~Running
  /\ clock' = [clock EXCEPT !.off = -1, !.boot = clock.t]
  /\ db' = IF lqafile = << >> THEN << >> ELSE lqafile[1].db
  /\ hist' = [hist EXCEPT !.mem = Recent(hist.file), !.open = TRUE]
  /\ UNCHANGED <<lqafile, ops, said, noted>>

LqaInit ==
  /\ db = << >> /\ lqafile = << >> /\ ops = 0 /\ noted = << >>
  /\ hist = [mem |-> << >>, file |-> << >>, open |-> TRUE]
  /\ clock = [t |-> Boot, boot |-> Boot, off |-> -1]
  /\ said = [k \in Channels \X Peers |-> "none"]

LqaNext ==
  \/ \E f \in Channels, s \in Peers, q \in 0..Best :
       \/ \E twas \in BOOLEAN : SoundingHeard(f, s, q, twas)
       \/ WordHeard(f, s, q) \/ FrameSettled(f, s, q) \/ PeerReports(f, s, q)
  \/ \E s \in Peers : CallFails(s) \/ CallConcludes(s)
  \/ ClearLqa \/ ClearHistory \/ Later \/ Prune \/ Stop \/ Start
LqaSpec == LqaInit /\ [][LqaNext]_lvars

-----------------------------------------------------------------------------
(* Properties *)

\* Nothing in the database that survives the next pruning was measured longer
\* ago than the age limit, though the time of the day wraps.
NothingStale ==
  Running => \A k \in DOMAIN Pruned(db) : db[k].heard # Unknown => clock.t - db[k].heard <= MaxAge

\* Neither a crash nor clearing the history costs it a sample noted since.
HistoryKept == Running => Recent(hist.mem) = Recent(noted)

\* A measurement is kept for as long as the age limit says.  (It is not: the
\* words of a link are dated by the time since the start of the program.)
FreshKept ==
  Running => \A k \in DOMAIN db \ DOMAIN Pruned(db) :
    db[k].heard # Unknown => clock.t - db[k].heard > MaxAge

\* A station listed as available has not said otherwise.  (A restart forgets.)
AvailableSaidSo ==
  \A k \in DOMAIN db : k[2] # All /\ db[k].sounding > 0 /\ ~db[k].twas => said[k] # "TWAS"
=============================================================================
