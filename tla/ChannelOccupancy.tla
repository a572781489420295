--------------------------- MODULE ChannelOccupancy ---------------------------
(***************************************************************************)
(* ChannelOccupancyDetector: is there somebody on the channel?  A tracked  *)
(* noise floor, compared with every block of 100 ms, and a vote of the     *)
(* last four.  The controller switches it off while it transmits and       *)
(* resets it when the channel changes.                                     *)
(*                                                                         *)
(* Levels are in units of 0.01 dB.                                         *)
(***************************************************************************)
EXTENDS Integers, FiniteSets, Sequences

CONSTANTS
  Mute,     \* level of a receiver that is muted after a transmission
  Ambient,  \* level of an empty channel
  Signal,   \* level of a channel in use
  Margin,   \* margin_db_
  MaxBlocks

ASSUME OccupancyAssumption ==
  {Mute, Ambient, Signal, Margin, MaxBlocks} \subseteq Nat /\ Mute <= Ambient

RelearnBlocks == 10
Drift == 1
LbtBlocks == 7  \* whole blocks in the short listening window of 784 ms

VARIABLES
  active,  \* active_
  floor,   \* [db, valid, before, relearn]
  votes,   \* the last four blocks, the oldest first
  busy,    \* busy_
  blocks,  \* blocks so far
  tail,    \* blocks since the receiver came back, while it may be muted
  run,     \* [level, n, found, unsettled]: blocks in a row at one level, whether
           \* the channel was found busy, whether they began on an unsettled floor
  learned  \* the floor was learned on this channel while it was empty, and no
           \* signal was heard while it was being learned

ovars == <<active, floor, votes, busy, blocks, tail, run, learned>>

MaxOf(a, b) == IF a >= b THEN a ELSE b
Toward(f, level, percent) == f + ((percent * (level - f)) \div 100)
None4 == <<FALSE, FALSE, FALSE, FALSE>>
Voted(hot) == Tail(votes) \o <<hot>>
TwoOf(v) == Cardinality({i \in 1..4 : v[i]}) >= 2

\* A variant for mutation: the first block is the floor, however low.
FirstUnanchored(level) ==
  [floor EXCEPT !.db = level, !.valid = TRUE, !.relearn = RelearnBlocks]

\* The first block after a reset is the new floor, but no lower than the one
\* before the transmission.
First(level) ==
  [floor EXCEPT !.db = MaxOf(floor.before, level), !.valid = TRUE, !.relearn = RelearnBlocks]
Hot(level) == level > floor.db + Margin

\* A variant for mutation: the floor follows every level.
FollowsAll(level) ==
  [floor EXCEPT !.db = MaxOf(floor.before, Toward(@, level, 50)),
                !.relearn = IF @ > 0 THEN @ - 1 ELSE 0]

\* Then it follows fast for a second, and slowly and only quiet blocks later.
Follows(level) ==
  IF floor.relearn > 0
  THEN [floor EXCEPT !.db = MaxOf(floor.before, Toward(@, level, 50)), !.relearn = @ - 1]
  ELSE [floor EXCEPT !.db = (IF level < @ THEN Toward(@, level, 30)
                             ELSE IF ~Hot(level) THEN Toward(@, level, 5) ELSE @) + Drift]

\* finish_block_.
Block(level) ==
  /\ active /\ blocks < MaxBlocks
  /\ blocks' = blocks + 1
  /\ LET hot == floor.valid /\ Hot(level) IN
     /\ floor' = IF floor.valid THEN Follows(level) ELSE First(level)
     /\ votes' = Voted(hot)
     /\ busy' = TwoOf(votes')
  /\ tail' = IF tail < RelearnBlocks THEN tail + 1 ELSE tail
  /\ run' = IF level = run.level
            THEN [run EXCEPT !.n = IF @ < LbtBlocks THEN @ + 1 ELSE @, !.found = @ \/ busy']
            ELSE [level |-> level, n |-> 1, found |-> busy',
                   unsettled |-> ~floor.valid \/ floor.relearn > 0]
  /\ learned' = IF level = Signal /\ (~floor.valid \/ floor.relearn > 0) THEN FALSE
                ELSE learned \/ (level = Ambient /\ ~floor.valid /\ floor.before <= Ambient + MaxBlocks)
  /\ UNCHANGED active

\* A muted receiver is heard only right after it has come back.
Blocks ==
  \/ Block(Ambient) \/ Block(Signal)
  \/ tail < RelearnBlocks /\ run.level = Mute /\ Block(Mute)

\* set_active(FALSE) at every transmission, and TRUE after it.
Transmit ==
  /\ active /\ active' = FALSE /\ busy' = FALSE /\ votes' = None4
  /\ floor' = [floor EXCEPT !.before = floor.db, !.valid = FALSE, !.relearn = 0]
  /\ UNCHANGED <<blocks, tail, run, learned>>
Receive ==
  /\ ~active /\ active' = TRUE /\ tail' = 0
  /\ run' = [level |-> Mute, n |-> 0, found |-> FALSE, unsettled |-> TRUE]
  /\ UNCHANGED <<floor, votes, busy, blocks, learned>>

\* notify_channel_changed_: reset() forgets the floor of the other channel.
Retune ==
  /\ active /\ busy' = FALSE /\ votes' = None4
  /\ floor' = [floor EXCEPT !.valid = FALSE, !.relearn = 0]
  /\ run' = [level |-> Ambient, n |-> 0, found |-> FALSE, unsettled |-> TRUE]
  /\ learned' = FALSE /\ tail' = RelearnBlocks
  /\ UNCHANGED <<active, blocks>>

\* clear_busy_latch() before a call or a sounding: the floor is kept.
Rearm ==
  /\ active /\ TwoOf(votes) /\ busy' = FALSE /\ votes' = None4
  /\ run' = [run EXCEPT !.n = 0, !.found = FALSE]
  /\ UNCHANGED <<active, floor, blocks, tail, learned>>

OccupancyInit ==
  /\ active = TRUE /\ floor = [db |-> 0, valid |-> FALSE, before |-> 0, relearn |-> 0]
  /\ votes = None4 /\ busy = FALSE /\ blocks = 0 /\ tail = RelearnBlocks
  /\ run = [level |-> Ambient, n |-> 0, found |-> FALSE, unsettled |-> TRUE] /\ learned = FALSE

OccupancyNext == Blocks \/ Transmit \/ Receive \/ Retune \/ Rearm

OccupancySpec == OccupancyInit /\ [][OccupancyNext]_ovars

-----------------------------------------------------------------------------
(* Properties *)

\* A channel that was empty before a transmission and is empty after it is
\* not taken for a busy one, however long the receiver stays muted.
EmptyStaysClear == learned /\ run.level # Signal /\ run.n > 3 => ~busy

\* Somebody who starts to talk once the floor has settled is noticed within
\* three blocks, even if the vote is taken afresh meanwhile.
SignalNoticed == learned /\ run.level = Signal /\ ~run.unsettled /\ run.n >= 3 => run.found

\* The verdict that holds back or lets go a transmission errs on neither side.
OccupancyRight == EmptyStaysClear /\ SignalNoticed

\* A channel in use through the whole of a listening window is found busy.
\* (Not when the window begins on a channel just tuned to.)
InUseIsBusy == run.level = Signal /\ run.n = LbtBlocks => run.found
=============================================================================
