--------------------------- MODULE AleSchedulers ---------------------------
(***************************************************************************)
(* What the controller starts by itself (src/src/App/ale_controller.cpp):  *)
(* the automatic sounding, the retry of an undelivered AMD, the relink on  *)
(* a better channel, the position report and the test of a peer's          *)
(* channels.  All of them run one after another in update(), share one     *)
(* state machine and learn of its progress by polling its state or by its  *)
(* operator events.  The state machine is reduced to its states; how it    *)
(* moves between them is the subject of AleStateMachine.                   *)
(***************************************************************************)
EXTENDS Integers, Sequences, FiniteSets

CONSTANTS
    Peers,          \* other stations
    TestChannels,   \* number of channels a test goes through
    Interval, Lead, \* ticks between soundings, and of the warning before one
    Gap,            \* TT_NEXT_TRY_MS in ticks
    Hold,           \* link hold time of a test, in ticks
    Backstop,       \* TEST_CHANNEL_LINK_TIMEOUT_MS in ticks
    ReportEvery,    \* position report interval in ticks
    ReportTo,       \* a peer, "ALLCALL", or "nobody": reports are off
    RelinkEnabled,  \* relink_enabled or enhanced_freq_select
    MaxAttempts,    \* amd_send_max_attempts
    Budget          \* bound on operator commands, incoming calls and relinks

VARIABLES
    st, prev, home, \* the state machine's state, previous_state, pre_link_state_
    peer, by,       \* whom the call or link is with, who asked for it
    ending,         \* terminate_link() drains its frame
    bcast,          \* is_allcall_broadcasting()
    stage,          \* how far update() has come
    amd,            \* amd_retry_*
    relink,         \* pending_relink_addr_
    sounding,       \* auto_sounding_* and sounding_warning_*
    report,         \* ticks until the next position report
    test,           \* test_*
    spent,          \* operator commands, incoming calls and relinks so far
    placed,         \* calls placed for the running AMD (history)
    since,          \* ticks since the last automatic cycle, up to Interval (history)
    silenced        \* emergency stop, and no command since (history)

svars == <<st, prev, home, peer, by, ending, bcast, stage, amd, relink, sounding, report, test,
           spent, placed, since, silenced>>
station == <<st, prev, home, peer, by, ending, bcast>>
plans == <<amd, relink, sounding, since, report, test, placed>>

Nobody == "nobody"
ASSUME SchedulerAssumption ==
    /\ Nobody \notin Peers /\ "ALLCALL" \notin Peers
    /\ ReportTo \in Peers \cup {"ALLCALL", Nobody}
    /\ {TestChannels, Interval, Lead, Gap, Hold, Backstop, ReportEvery, MaxAttempts, Budget}
          \subseteq Nat
    /\ MaxAttempts > 0 /\ RelinkEnabled \in BOOLEAN

Quiescent == {"IDLE", "SCANNING"}

NoAmd == [active |-> FALSE, left |-> 0, to |-> Nobody, recall |-> FALSE, gap |-> 0]
SoundingOff == [on |-> FALSE, remain |-> 0, sent |-> FALSE, popup |-> FALSE, cycle |-> FALSE]
NoTest == [phase |-> "INACTIVE", idx |-> 1, linked |-> {}, to |-> Nobody, timer |-> 0,
           dead |-> 0, scanning |-> FALSE]

SchedInit ==
    /\ st = "IDLE" /\ prev = "IDLE" /\ home = "IDLE" /\ peer = Nobody /\ by = "none"
    /\ ending = FALSE /\ bcast = FALSE /\ stage = "idle"
    /\ amd = NoAmd /\ relink = Nobody /\ sounding = SoundingOff
    /\ report = ReportEvery /\ test = NoTest
    /\ spent = 0 /\ placed = 0 /\ since = Interval /\ silenced = FALSE

Down(n) == IF n = 0 THEN 0 ELSE n - 1

-----------------------------------------------------------------------------
(* The state machine as the schedulers see it.                              *)

(* on_sm_state_change(): a call that begins takes the sounding popup away;  *)
(* leaving SOUNDING ends an automatic cycle and starts its interval.        *)
\* A variant for mutation: the end of a cycle does not re-arm.
SoundingSeesUnarmed(from, to, s) ==
    IF from = "SOUNDING" /\ to # "SOUNDING" THEN [s EXCEPT !.cycle = FALSE] ELSE s

SoundingSees(from, to, s) ==
    LET popup == s.popup /\ to \notin {"CALLING", "HANDSHAKE", "LINKED"}
    IN  IF from = "SOUNDING" /\ to # "SOUNDING" /\ s.cycle
        THEN [s EXCEPT !.popup = popup, !.remain = Interval, !.cycle = FALSE, !.sent = FALSE]
        ELSE [s EXCEPT !.popup = popup]

(* transition_to(): nothing happens when the state is the one it has.       *)
Enter(to, s) ==
    /\ st' = to /\ prev' = (IF to = st THEN prev ELSE st)
    /\ sounding' = SoundingSees(st, to, s)
    /\ since' = IF st = "SOUNDING" /\ to # "SOUNDING" /\ s.cycle THEN 0 ELSE since
SetSounding(s) == sounding' = s /\ UNCHANGED since

(* initiate_call() and initiate_single_channel_call(), as far as they can   *)
(* refuse: a broadcast that drains bars only the former.                    *)
CanCall(who) == st \in Quiescent /\ (bcast => who = "test")
PlaceCall(who, p, s) ==
    /\ Enter("CALLING", s) /\ home' = st /\ peer' = p /\ by' = who /\ ending' = FALSE
    /\ UNCHANGED bcast

(* A call, handshake, link or sounding ends in the state before it.  After  *)
(* a call heard in a sounding that state is SOUNDING, which is entered anew *)
(* and ends in its own turn in HANDSHAKE or LINKED: the addresses survive.  *)
Back(to, s) ==
    /\ Enter(to, s)
    /\ home' = (IF to = "HANDSHAKE" THEN st ELSE home)
    /\ peer' = (IF to \in Quiescent THEN Nobody ELSE peer)
    /\ by' = "none" /\ ending' = FALSE /\ UNCHANGED bcast

ForgetAmd == amd' = NoAmd /\ placed' = 0
KeepAmd == UNCHANGED <<amd, placed>>

(* NO_CHANNELS_LEFT: the AMD that is on its way is due for another attempt, *)
(* or given up.  The event does not say whose call it was.                  *)
\* A variant for mutation: attempts are not counted down.
UnheardUncounted ==
    IF ~amd.active THEN KeepAmd
    ELSE amd' = [amd EXCEPT !.recall = TRUE, !.gap = Gap] /\ UNCHANGED placed

Unheard ==
    IF ~amd.active THEN KeepAmd
    ELSE IF amd.left > 1
         THEN amd' = [amd EXCEPT !.left = @ - 1, !.recall = TRUE, !.gap = Gap]
              /\ UNCHANGED placed
         ELSE ForgetAmd

(* LINK_ESTABLISHED, CALL_REJECTED and AMD_SENT_NO_LINK count as delivery.  *)
Heard == IF amd.active THEN ForgetAmd ELSE KeepAmd

CallEnds ==
    /\ st = "CALLING"
    /\ \/ Enter("LINKED", sounding) /\ Heard /\ UNCHANGED <<home, peer, by, ending, bcast>>
       \/ Back(home, sounding) /\ Heard
       \/ Back(home, sounding) /\ Unheard

HandshakeEnds ==
    /\ st = "HANDSHAKE"
    /\ \/ Enter("LINKED", sounding) /\ Heard /\ UNCHANGED <<home, peer, by, ending, bcast>>
       \/ Back(home, sounding) /\ KeepAmd

LinkEnds == st = "LINKED" /\ Back(home, sounding) /\ KeepAmd

SoundingEnded == st = "SOUNDING" /\ Back(prev, sounding) /\ KeepAmd

BroadcastEnded ==
    /\ bcast /\ bcast' = FALSE
    /\ UNCHANGED <<st, prev, home, peer, by, ending, sounding, since>> /\ KeepAmd

SmQuiet == UNCHANGED <<station, sounding, since>> /\ KeepAmd

(* tick_sm(): sm_.update() and the events it raises.                        *)
TickSm ==
    /\ stage = "sm" /\ stage' = "relink"
    /\ CallEnds \/ HandshakeEnds \/ LinkEnds \/ SoundingEnded \/ BroadcastEnded \/ SmQuiet
    /\ UNCHANGED <<relink, report, test, spent, silenced>>

(* Received words start a handshake from rest and from a sounding.          *)
IncomingCall(p) ==
    /\ stage = "idle" /\ spent < Budget /\ spent' = spent + 1
    /\ st \in Quiescent \cup {"SOUNDING"}
    /\ Enter("HANDSHAKE", sounding) /\ home' = st
    /\ peer' = p /\ by' = "in" /\ UNCHANGED <<ending, bcast>>
    /\ UNCHANGED <<stage, amd, relink, report, test, placed, silenced>>

-----------------------------------------------------------------------------
(* update(): the clock advances, then one scheduler after another.          *)

Advance ==
    /\ stage = "idle" /\ stage' = "sm"
    /\ sounding' = [sounding EXCEPT !.remain = IF sounding.on THEN Down(@) ELSE @]
    /\ amd' = [amd EXCEPT !.gap = Down(@)]
    /\ report' = Down(report)
    /\ test' = [test EXCEPT !.timer = Down(@), !.dead = Down(@)]
    /\ since' = IF since < Interval THEN since + 1 ELSE since
    /\ UNCHANGED <<station, relink, spent, placed, silenced>>

(* attempt_amd_send_(): an attempt that cannot be placed ends the cycle.    *)
AttemptAmd(a, n) ==
    IF CanCall("amd")
    THEN PlaceCall("amd", a.to, sounding) /\ amd' = a /\ placed' = n + 1
    ELSE UNCHANGED <<station, sounding, since>> /\ ForgetAmd

(* evaluate_relink(): a better channel ends the link for a new call.        *)
Relink ==
    /\ RelinkEnabled /\ st = "LINKED" /\ relink = Nobody /\ peer # Nobody
    /\ spent < Budget /\ spent' = spent + 1
    /\ relink' = peer /\ ending' = TRUE
    /\ UNCHANGED <<st, prev, home, peer, by, bcast, sounding, since>> /\ KeepAmd

RecallDue == amd.recall /\ st \in Quiescent /\ amd.gap = 0 /\ relink = Nobody

(* tick_amd_confirm().                                                      *)
RecallAmd ==
    /\ RecallDue
    /\ AttemptAmd([amd EXCEPT !.recall = FALSE], placed)
    /\ UNCHANGED relink

RelinkDue == relink # Nobody /\ st \in Quiescent

(* The end of tick_relink(): the call back, whether it can be placed or not.*)
CallBack ==
    /\ RelinkDue
    /\ relink' = Nobody /\ KeepAmd
    /\ IF CanCall("relink") THEN PlaceCall("relink", relink, sounding)
       ELSE UNCHANGED <<station, sounding, since>>

TickRelink ==
    /\ stage = "relink" /\ stage' = "sound"
    /\ \/ Relink
       \/ (RecallAmd \/ CallBack) /\ UNCHANGED spent
       \/ /\ ~RecallDue /\ ~RelinkDue /\ KeepAmd
          /\ UNCHANGED <<station, sounding, since, relink, spent>>
    /\ UNCHANGED <<report, test, silenced>>

(* tick_sounding_sweep(): warn in IDLE within the lead, fire when due, leave*)
(* an overdue sounding alone while the station is busy.                     *)
Warn == IF st = "IDLE" /\ sounding.remain \in 1..Lead /\ ~sounding.sent
        THEN [sounding EXCEPT !.sent = TRUE, !.popup = TRUE] ELSE sounding

Fire ==                                 \* the sweep may be refused: nothing to sound on
    LET fired == [sounding EXCEPT !.sent = FALSE, !.popup = FALSE]
    IN  \/ /\ Enter("SOUNDING", [fired EXCEPT !.cycle = TRUE]) /\ by' = "auto"
           /\ UNCHANGED <<home, peer, ending, bcast>>
        \/ SetSounding([fired EXCEPT !.remain = Interval]) /\ UNCHANGED station

TickSoundingSweep ==
    /\ stage = "sound" /\ stage' = "report"
    /\ IF ~sounding.on \/ st = "SOUNDING" THEN UNCHANGED <<station, sounding, since>>
       ELSE IF sounding.remain = 0 /\ st \in Quiescent THEN Fire
       ELSE SetSounding(Warn) /\ UNCHANGED station
    /\ UNCHANGED <<amd, relink, report, test, placed, spent, silenced>>

(* send_amd() to a station, not LINKED: a new AMD replaces the one that is  *)
(* being retried.                                                           *)
SendAmd(p) ==
    AttemptAmd([NoAmd EXCEPT !.active = TRUE, !.left = MaxAttempts, !.to = p], 0)

(* broadcast_position_report().                                             *)
Broadcast ==
    /\ bcast' = (bcast \/ st \in Quiescent)
    /\ UNCHANGED <<st, prev, home, peer, by, ending, sounding, since>> /\ KeepAmd

(* tick_position_report(): re-armed whether the report could be sent or not.*)
TickPositionReport ==
    /\ stage = "report" /\ stage' = "test"
    /\ IF ReportTo # Nobody /\ st \in Quiescent /\ report = 0
       THEN /\ report' = ReportEvery
            /\ IF ReportTo = "ALLCALL" THEN Broadcast ELSE SendAmd(ReportTo)
       ELSE UNCHANGED <<station, sounding, since, report>> /\ KeepAmd
    /\ UNCHANGED <<relink, test, spent, silenced>>

-----------------------------------------------------------------------------
(* tick_test_channel(), one case of its switch each.                        *)

TestOnly(t) == test' = t /\ UNCHANGED <<station, sounding, since>>
Next1(t) == [t EXCEPT !.phase = "NEXT"]

TestTune ==
    /\ test.phase = "TUNE"
    /\ IF st \notin Quiescent THEN TestOnly(test)
       ELSE \/ /\ PlaceCall("test", test.to, sounding)
               /\ test' = [test EXCEPT !.phase = "CALLING", !.timer = 0, !.dead = Backstop]
            \/ TestOnly(Next1(test))                \* the channel may not be called on

(* The test takes the state of the machine for the outcome of its own call. *)
TestCalling ==
    /\ test.phase = "CALLING"
    /\ IF st = "LINKED"
       THEN TestOnly([test EXCEPT !.phase = "LINKED_SETTLE", !.timer = Hold,
                                  !.linked = @ \cup {test.idx}])
       ELSE IF st \in Quiescent THEN TestOnly(Next1(test))
       ELSE IF test.dead = 0
       THEN test' = Next1(test) /\ Enter("IDLE", sounding) /\ peer' = Nobody /\ by' = "none"
            /\ ending' = FALSE /\ UNCHANGED <<home, bcast>>
       ELSE TestOnly(test)

\* A variant for mutation: the link is held until it ends itself.
TestLinkedSettleForever ==
    test.phase = "LINKED_SETTLE" /\ TestOnly(IF st # "LINKED" THEN Next1(test) ELSE test)

TestLinkedSettle ==
    /\ test.phase = "LINKED_SETTLE"
    /\ IF st # "LINKED"
       THEN TestOnly([Next1(test) EXCEPT !.timer = IF @ = Hold THEN 1 ELSE 0])
       ELSE IF test.timer > 0 THEN TestOnly(test)
       ELSE /\ ending' = TRUE /\ UNCHANGED <<st, prev, home, peer, by, bcast, sounding, since>>
            /\ test' = [test EXCEPT !.phase = "TERMINATING", !.dead = Backstop]

TestTerminating ==
    /\ test.phase = "TERMINATING"
    /\ IF st # "LINKED" THEN TestOnly([Next1(test) EXCEPT !.timer = 1])
       ELSE IF test.dead = 0
       THEN test' = [Next1(test) EXCEPT !.timer = 1] /\ Enter("IDLE", sounding)
            /\ peer' = Nobody /\ by' = "none" /\ ending' = FALSE /\ UNCHANGED <<home, bcast>>
       ELSE TestOnly(test)

TestNext ==
    /\ test.phase = "NEXT"
    /\ IF st \notin Quiescent \/ test.timer > 0 THEN TestOnly(test)
       ELSE TestOnly(IF test.idx = TestChannels THEN [test EXCEPT !.phase = "DONE"]
                     ELSE [test EXCEPT !.phase = "TUNE", !.idx = @ + 1])

(* The radio goes back to its channel; START_SCAN is ignored unless IDLE.   *)
Resume(s) == IF test.scanning /\ s = "IDLE" THEN "SCANNING" ELSE s

TestDone ==
    /\ test.phase = "DONE"
    /\ test' = NoTest /\ Enter(Resume(st), sounding)
    /\ UNCHANGED <<home, peer, by, ending, bcast>>

TickTestChannel ==
    /\ stage = "test" /\ stage' = "idle"
    /\ \/ TestTune \/ TestCalling \/ TestLinkedSettle \/ TestTerminating \/ TestNext \/ TestDone
       \/ test.phase = "INACTIVE" /\ TestOnly(test)
    /\ UNCHANGED <<amd, relink, report, placed, spent, silenced>>

-----------------------------------------------------------------------------
(* The operator's commands, between two updates.                            *)

Command == stage = "idle" /\ spent < Budget /\ spent' = spent + 1 /\ UNCHANGED stage
Ordinary == Command /\ silenced' = FALSE

OpCall(p) == /\ Ordinary /\ CanCall("op") /\ PlaceCall("op", p, sounding)
             /\ UNCHANGED <<amd, relink, report, test, placed>>

OpSendAmd(p) == Ordinary /\ st # "LINKED" /\ SendAmd(p) /\ UNCHANGED <<relink, report, test>>

OpTerminate ==
    /\ Ordinary /\ st = "LINKED" /\ ending' = TRUE
    /\ UNCHANGED <<st, prev, home, peer, by, bcast, plans>>

OpScan == /\ Ordinary /\ st \in Quiescent
          /\ Enter(IF st = "IDLE" THEN "SCANNING" ELSE "IDLE", sounding)
          /\ UNCHANGED <<home, peer, by, ending, bcast, amd, relink, report, test, placed>>

(* send_sounding_sweep() counts as the automatic one; send_sounding() does  *)
(* not.                                                                     *)
OpSound(sweep) ==
    /\ Ordinary /\ st \in Quiescent
    /\ Enter("SOUNDING", IF ~sweep THEN sounding
             ELSE [sounding EXCEPT !.sent = FALSE, !.popup = FALSE,
                                   !.remain = IF sounding.on THEN Interval ELSE 0])
    /\ by' = "op"
    /\ UNCHANGED <<home, peer, ending, bcast, amd, relink, report, test, placed>>

(* set_automatic_sounding(): no effect unless something changes.            *)
OpAutomatic(on) ==
    /\ Ordinary /\ on # sounding.on
    /\ SetSounding([SoundingOff EXCEPT !.on = on, !.remain = IF on THEN Interval ELSE 0,
                                       !.cycle = sounding.cycle])
    /\ UNCHANGED <<station, amd, relink, report, test, placed>>

(* interrupt_sounding().                                                    *)
OpInterrupt ==
    /\ Ordinary /\ sounding.on /\ st # "SOUNDING"
    /\ SetSounding([sounding EXCEPT !.remain = Interval, !.sent = FALSE, !.popup = FALSE])
    /\ UNCHANGED <<station, amd, relink, report, test, placed>>

OpTest(p) ==
    /\ Ordinary /\ test.phase = "INACTIVE" /\ st \in Quiescent
    /\ test' = [NoTest EXCEPT !.phase = "TUNE", !.to = p, !.timer = 1, !.scanning = (st = "SCANNING")]
    /\ UNCHANGED <<station, amd, relink, sounding, since, report, placed>>

OpTestStop ==
    /\ Ordinary /\ test.phase # "INACTIVE"
    /\ LET aborted == st \in {"CALLING", "HANDSHAKE", "LINKED"}
       IN  /\ Enter(Resume(IF aborted THEN "IDLE" ELSE st), sounding)
           /\ IF aborted THEN peer' = Nobody /\ by' = "none" /\ ending' = FALSE
              ELSE UNCHANGED <<peer, by, ending>>
    /\ test' = NoTest
    /\ UNCHANGED <<home, bcast, amd, relink, report, placed>>

(* emergency_stop(): the AMD is forgotten; the test, the relink and the     *)
(* automatic sounding are not.                                              *)
OpEmergency ==
    /\ Command /\ silenced' = TRUE
    /\ Enter("IDLE", sounding) /\ peer' = Nobody /\ by' = "none" /\ ending' = FALSE
    /\ bcast' = FALSE /\ ForgetAmd
    /\ UNCHANGED <<home, relink, report, test>>

Operator ==
    \/ \E p \in Peers : OpCall(p) \/ OpSendAmd(p) \/ OpTest(p)
    \/ OpTerminate \/ OpScan \/ OpInterrupt \/ OpTestStop \/ OpEmergency
    \/ \E b \in BOOLEAN : OpSound(b) \/ OpAutomatic(b)

Update == Advance \/ TickSm \/ TickRelink \/ TickSoundingSweep \/ TickPositionReport
          \/ TickTestChannel

SchedNext == Update \/ Operator \/ \E p \in Peers : IncomingCall(p)

(* update() is called for ever, and the state machine's own deadlines end   *)
(* every call, handshake, sounding, broadcast and termination (AleController,*)
(* AttemptEnds and ReceiverReturns).  A link may last as long as it likes.  *)
SmMoves(s) == TickSm /\ st = s /\ st' # s
SchedFairness ==
    /\ WF_svars(Update)
    /\ \A s \in {"CALLING", "HANDSHAKE", "SOUNDING"} : SF_svars(SmMoves(s))
    /\ SF_svars(ending /\ SmMoves("LINKED"))
    /\ SF_svars(TickSm /\ bcast /\ ~bcast')

SchedSpec == SchedInit /\ [][SchedNext]_svars /\ SchedFairness

-----------------------------------------------------------------------------
(* An AMD costs at most amd_send_max_attempts calls: what has been placed   *)
(* and what is left never exceed the budget, whatever other calls raise the *)
(* same events meanwhile (ale_controller.cpp:2770-2809).                    *)
AmdWithinBudget ==
    amd.active => placed + amd.left <= MaxAttempts + 1 /\ placed <= MaxAttempts

(* The state machine goes back and forth between SOUNDING and the handshake *)
(* or link it was left for, and rests in neither (ale_state_machine.cpp:139,*)
(* 145, 168).                                                               *)
GoesRound ==
    /\ home = "SOUNDING"
    /\ \/ st \in {"HANDSHAKE", "LINKED"}
       \/ st = "SOUNDING" /\ prev \in {"HANDSHAKE", "LINKED"}

(* A test of a peer's channels (ale_controller.cpp:2116) ends, whatever     *)
(* crosses it, unless a link that is not its own keeps the station, or the  *)
(* station goes round between a sounding and the call heard in it: a test   *)
(* that lasts for ever meets one of the two again and again.                *)
TestEnds == test.phase # "INACTIVE"
              ~> (test.phase = "INACTIVE" \/ (st = "LINKED" /\ by # "test") \/ GoesRound)

(* The same without the second exception, which the code needs: a test that *)
(* waits to tune, or to go on, waits for IDLE or SCANNING only              *)
(* (ale_controller.cpp:2125, 2228).                                         *)
TestEndsUnlessLinked ==
    test.phase # "INACTIVE" ~> (test.phase = "INACTIVE" \/ (st = "LINKED" /\ by # "test"))

(* The interval of the automatic sounding is the pause after a cycle, not   *)
(* the time from one start to the next, however the cycle ended             *)
(* (ale_controller.cpp:2644-2657).                                          *)
SoundingKeepsInterval ==
    [][ (by' = "auto" /\ st' = "SOUNDING" /\ st # "SOUNDING") => since = Interval ]_svars

(* emergency_stop() "aborting all ALE operations" (ale_controller.cpp:1534):*)
(* until the operator's next command the station starts nothing.            *)
StaysSilent ==
    [][ silenced /\ silenced' => st' \notin {"CALLING", "SOUNDING"} ]_svars
=============================================================================
