------------------------- MODULE AleSchedulersProofs -------------------------
(***************************************************************************)
(* What the schedulers promise, for any number of peers and channels and   *)
(* any interval, gap and budget: an AMD costs no more calls than its       *)
(* attempts, and the automatic sounding keeps its interval, whatever the   *)
(* other schedulers, the operator and incoming calls do in between.        *)
(***************************************************************************)
EXTENDS AleSchedulers, TLAPS

\* The attempts are numbers.
LEMMA SchedNumbers ==
  /\ MaxAttempts \in Nat /\ MaxAttempts > 0
  /\ Interval \in Nat /\ Gap \in Nat
BY SchedulerAssumption

-----------------------------------------------------------------------------
(***************************************************************************)
(* The AMD's attempts. Every update of the plan is one of four: forgotten, *)
(* kept, charged for an event, begun anew or recalled.                     *)
(***************************************************************************)
AmdPlans ==
  [active : BOOLEAN, left : Nat, to : Peers \cup {"ALLCALL", Nobody},
   recall : BOOLEAN, gap : Nat]

\* An AMD under way has an attempt left, and while it waits to be called again the
\* attempt that failed has been charged.
AmdCharged ==
  /\ amd \in AmdPlans
  /\ amd.active => /\ placed \in Nat /\ amd.left > 0
                   /\ placed + amd.left <=
                        MaxAttempts + (IF amd.recall THEN 0 ELSE 1)
  /\ amd.recall => amd.active

\* An AMD that is forgotten or kept stays within its budget.
LEMMA AmdKept ==
  ASSUME AmdCharged, ForgetAmd \/ KeepAmd
  PROVE  AmdCharged'
<1>1. CASE ForgetAmd
  <2>1. NoAmd \in AmdPlans /\ ~NoAmd.active /\ ~NoAmd.recall
    BY DEF NoAmd, AmdPlans
  <2>2. QED BY <1>1, <2>1 DEF AmdCharged, ForgetAmd
<1>2. CASE KeepAmd
  BY <1>2 DEF AmdCharged, KeepAmd
<1>3. QED BY <1>1, <1>2

\* An event that tells of a call nobody answered charges one attempt, whosever the
\* call was.
LEMMA AmdUnheard ==
  ASSUME AmdCharged, Unheard
  PROVE  AmdCharged'
<1>1. CASE ~amd.active \/ (amd.active /\ ~(amd.left > 1))
  BY <1>1, AmdKept DEF Unheard
<1>2. CASE amd.active /\ amd.left > 1
  <2>1. /\ amd' = [amd EXCEPT !.left = @ - 1, !.recall = TRUE, !.gap = Gap]
        /\ placed' = placed
    BY <1>2 DEF Unheard
  <2>2. /\ amd.left - 1 \in Nat /\ amd.left - 1 > 0
        /\ placed + (amd.left - 1) <= MaxAttempts
    BY <1>2, SchedNumbers DEF AmdCharged, AmdPlans
  <2>3. /\ amd'.active /\ amd'.recall /\ amd'.left = amd.left - 1
        /\ amd' \in AmdPlans
    BY <1>2, <2>1, <2>2, SchedNumbers DEF AmdCharged, AmdPlans
  <2>4. placed' + amd'.left <= MaxAttempts + 0
    BY <2>1, <2>2, <2>3, SchedNumbers
  <2>5. QED BY <1>2, <2>1, <2>2, <2>3, <2>4 DEF AmdCharged
<1>3. QED BY <1>1, <1>2

\* attempt_amd_send_() of a new AMD, by the operator or as a position report.
LEMMA AmdBegun ==
  ASSUME AmdCharged, NEW p \in Peers, SendAmd(p)
  PROVE  AmdCharged'
<1> DEFINE new == [NoAmd EXCEPT !.active = TRUE, !.left = MaxAttempts, !.to = p]
<1>1. CASE CanCall("amd")
  <2>1. amd' = new /\ placed' = 1
    BY <1>1 DEF SendAmd, AttemptAmd
  <2>2. /\ amd'.active /\ ~amd'.recall /\ amd'.left = MaxAttempts
        /\ amd' \in AmdPlans
    BY <2>1, SchedNumbers DEF NoAmd, AmdPlans
  <2>3. QED BY <2>1, <2>2, SchedNumbers DEF AmdCharged
<1>2. CASE ~CanCall("amd")
  BY <1>2, AmdKept DEF SendAmd, AttemptAmd
<1>3. QED BY <1>1, <1>2

\* tick_amd_confirm(): the attempt that is placed now was charged when the one
\* before it failed.
LEMMA AmdRecalled ==
  ASSUME AmdCharged, RecallAmd
  PROVE  AmdCharged'
<1>1. amd.recall /\ amd.active
  BY DEF RecallAmd, RecallDue, AmdCharged
<1>2. CASE CanCall("amd")
  <2>1. amd' = [amd EXCEPT !.recall = FALSE] /\ placed' = placed + 1
    BY <1>2 DEF RecallAmd, AttemptAmd
  <2>2. /\ amd'.active /\ ~amd'.recall /\ amd'.left = amd.left
        /\ amd' \in AmdPlans
    BY <1>1, <2>1 DEF AmdCharged, AmdPlans
  <2>3. /\ placed + 1 \in Nat
        /\ placed + 1 + amd.left <= MaxAttempts + 1
    BY <1>1, SchedNumbers DEF AmdCharged, AmdPlans
  <2>4. QED BY <1>1, <2>1, <2>2, <2>3 DEF AmdCharged
<1>3. CASE ~CanCall("amd")
  BY <1>3, AmdKept DEF RecallAmd, AttemptAmd
<1>4. QED BY <1>2, <1>3

\* Every step.
LEMMA NextCharged ==
  ASSUME AmdCharged, SchedNext
  PROVE  AmdCharged'
<1>1. CASE Advance
  <2>1. amd' = [amd EXCEPT !.gap = Down(@)] /\ placed' = placed
    BY <1>1 DEF Advance
  <2>2. Down(amd.gap) \in Nat
    BY DEF AmdCharged, AmdPlans, Down
  <2>3. QED BY <2>1, <2>2 DEF AmdCharged, AmdPlans
<1>2. CASE TickSm
  BY <1>2, AmdKept, AmdUnheard
     DEF TickSm, CallEnds, HandshakeEnds, LinkEnds, SoundingEnded, BroadcastEnded,
         SmQuiet, Heard
<1>3. CASE TickRelink
  BY <1>3, AmdKept, AmdRecalled DEF TickRelink, Relink, CallBack
<1>4. CASE TickPositionReport
  <2>1. CASE ReportTo = "ALLCALL" \/ ~(ReportTo # Nobody)
    BY <1>4, <2>1, AmdKept DEF TickPositionReport, Broadcast
  <2>2. CASE ReportTo \in Peers
    BY <1>4, <2>2, AmdKept, AmdBegun, SchedulerAssumption DEF TickPositionReport
  <2>3. QED BY <2>1, <2>2, SchedulerAssumption
<1>5. CASE TickSoundingSweep \/ TickTestChannel
  BY <1>5, AmdKept DEF TickSoundingSweep, TickTestChannel, KeepAmd
<1>6. CASE Operator
  <2>1. ASSUME NEW p \in Peers, OpCall(p) \/ OpTest(p)
        PROVE  AmdCharged'
    BY <2>1, AmdKept DEF OpCall, OpTest, KeepAmd
  <2>2. ASSUME NEW p \in Peers, OpSendAmd(p)
        PROVE  AmdCharged'
    BY <2>2, AmdBegun DEF OpSendAmd
  <2>3. CASE OpTerminate \/ OpScan \/ OpInterrupt \/ OpTestStop \/ OpEmergency
    BY <2>3, AmdKept
       DEF OpTerminate, OpScan, OpInterrupt, OpTestStop, OpEmergency, KeepAmd, plans
  <2>4. ASSUME NEW b \in BOOLEAN, OpSound(b) \/ OpAutomatic(b)
        PROVE  AmdCharged'
    BY <2>4, AmdKept DEF OpSound, OpAutomatic, KeepAmd
  <2>5. QED BY <1>6, <2>1, <2>2, <2>3, <2>4 DEF Operator
<1>7. ASSUME NEW p \in Peers, IncomingCall(p)
      PROVE  AmdCharged'
  BY <1>7, AmdKept DEF IncomingCall, KeepAmd
<1>8. QED
  BY <1>1, <1>2, <1>3, <1>4, <1>5, <1>6, <1>7 DEF SchedNext, Update

\* amd_retry_*: what has been placed for an AMD never exceeds its attempts, although
\* the events that charge it do not say whose call they are about. The invariant
\* that carries it distinguishes an AMD that is on its way, whose attempt is not
\* charged yet, from one that waits to be called again.
THEOREM AmdKeepsBudget == SchedSpec => []AmdWithinBudget
<1>1. SchedInit => AmdCharged
  BY DEF SchedInit, AmdCharged, AmdPlans, NoAmd
<1>2. AmdCharged /\ [SchedNext]_svars => AmdCharged'
  <2>1. AmdCharged /\ UNCHANGED svars => AmdCharged'
    BY DEF svars, AmdCharged
  <2>2. QED BY <2>1, NextCharged
<1>3. AmdCharged => AmdWithinBudget
  BY SchedNumbers DEF AmdCharged, AmdPlans, AmdWithinBudget
<1>4. QED BY <1>1, <1>2, <1>3, PTL DEF SchedSpec

-----------------------------------------------------------------------------
(***************************************************************************)
(* The sounding's interval.                                                *)
(***************************************************************************)
Soundings ==
  [on : BOOLEAN, remain : Nat, sent : BOOLEAN, popup : BOOLEAN, cycle : BOOLEAN]

\* The countdown s reaches zero no sooner than the interval has passed.
Patient(s) ==
  s \in Soundings /\ (s.on => since + s.remain >= Interval)

Rested == since \in 0..Interval /\ Patient(sounding)

\* The step formula of SoundingKeepsInterval.
OnlyWhenRested ==
  by' = "auto" /\ st' = "SOUNDING" /\ st # "SOUNDING" => since = Interval

RestedGood == Rested' /\ OnlyWhenRested

\* on_sm_state_change(): the end of a cycle starts the interval anew.
LEMMA EnterRests ==
  ASSUME Rested, NEW to, NEW s, Patient(s), Enter(to, s)
  PROVE  Rested'
<1> DEFINE popup == s.popup /\ to \notin {"CALLING", "HANDSHAKE", "LINKED"}
           ended == st = "SOUNDING" /\ to # "SOUNDING" /\ s.cycle
<1>1. s \in Soundings /\ popup \in BOOLEAN /\ since \in 0..Interval
      /\ Interval \in Nat
  BY SchedNumbers DEF Rested, Patient, Soundings
<1>2. /\ sounding' = IF ended
                     THEN [s EXCEPT !.popup = popup, !.remain = Interval,
                                    !.cycle = FALSE, !.sent = FALSE]
                     ELSE [s EXCEPT !.popup = popup]
      /\ since' = IF ended THEN 0 ELSE since
  BY DEF Enter, SoundingSees
<1>3. CASE ended
  <2>1. /\ sounding' \in Soundings /\ sounding'.remain = Interval /\ since' = 0
    BY <1>1, <1>2, <1>3 DEF Soundings
  <2>2. QED BY <1>1, <2>1 DEF Rested, Patient
<1>4. CASE ~ended
  <2>1. /\ sounding' \in Soundings /\ since' = since
        /\ sounding'.remain = s.remain /\ sounding'.on = s.on
    BY <1>1, <1>2, <1>4 DEF Soundings
  <2>2. QED BY <1>1, <2>1 DEF Rested, Patient
<1>5. QED BY <1>3, <1>4

\* A plan that is replaced, or kept, with the countdown no shorter.
LEMMA PlanRests ==
  ASSUME Rested,
         \/ UNCHANGED <<sounding, since>>
         \/ \E s : Patient(s) /\ SetSounding(s)
  PROVE  Rested'
BY DEF Rested, Patient, SetSounding

\* A step that does not sound needs only to keep the countdown.
LEMMA Quietly ==
  ASSUME Rested, Rested',
         by' # "auto" \/ st' # "SOUNDING" \/ UNCHANGED st
  PROVE  RestedGood
BY DEF RestedGood, OnlyWhenRested

\* Calls of whatever origin.
LEMMA PlacedRests ==
  ASSUME Rested, NEW who, NEW p, PlaceCall(who, p, sounding)
  PROVE  RestedGood
<1>1. Patient(sounding) /\ Enter("CALLING", sounding) /\ st' = "CALLING"
  BY DEF Rested, PlaceCall, Enter
<1>2. Rested'
  BY <1>1, EnterRests
<1>3. QED BY <1>1, <1>2, Quietly

\* The state machine returns, links or is stopped.
LEMMA EnteredRests ==
  ASSUME Rested, NEW to, Enter(to, sounding),
         by' = "none" \/ to # "SOUNDING" \/ to = st
  PROVE  RestedGood
<1>1. Rested' /\ st' = to
  BY EnterRests DEF Rested, Enter
<1>2. QED BY <1>1, Quietly

\* A step of the schedulers or the operator that leaves both alone.
LEMMA IdleRests ==
  ASSUME Rested, UNCHANGED <<st, sounding, since>>
  PROVE  RestedGood
BY PlanRests, Quietly

\* attempt_amd_send_() places a call or none.
LEMMA AttemptRests ==
  ASSUME Rested, NEW a, NEW n, AttemptAmd(a, n)
  PROVE  RestedGood
BY PlacedRests, IdleRests DEF AttemptAmd, station

\* tick_sm().
LEMMA TickSmRests ==
  ASSUME Rested, TickSm
  PROVE  RestedGood
<1>1. ASSUME NEW to, Back(to, sounding)
      PROVE  RestedGood
  BY <1>1, EnteredRests DEF Back
<1>2. ASSUME Enter("LINKED", sounding)
      PROVE  RestedGood
  BY <1>2, EnteredRests
<1>3. QED
  BY <1>1, <1>2, IdleRests
     DEF TickSm, CallEnds, HandshakeEnds, LinkEnds, SoundingEnded, BroadcastEnded,
         SmQuiet, station

\* tick_sounding_sweep(): it fires when the countdown has run out, and only then.
LEMMA SweepRests ==
  ASSUME Rested, TickSoundingSweep
  PROVE  RestedGood
<1>1. sounding \in Soundings /\ Interval \in Nat /\ since \in 0..Interval
  BY SchedNumbers DEF Rested, Patient
<1>2. CASE UNCHANGED <<station, sounding, since>>
  BY <1>2, IdleRests DEF station
<1>3. CASE sounding.on /\ sounding.remain = 0 /\ Fire
  <2> DEFINE fired == [sounding EXCEPT !.sent = FALSE, !.popup = FALSE]
             begun == [fired EXCEPT !.cycle = TRUE]
             refused == [fired EXCEPT !.remain = Interval]
  <2>1. since = Interval
    BY <1>1, <1>3 DEF Rested, Patient
  <2>2. Patient(begun) /\ Patient(refused)
    <3>1. /\ begun \in Soundings /\ refused \in Soundings
          /\ begun.remain = sounding.remain /\ begun.on = sounding.on
          /\ refused.remain = Interval
      BY <1>1 DEF Soundings
    <3> HIDE DEF begun, refused
    <3>2. QED BY <1>1, <1>3, <2>1, <3>1 DEF Patient
  <2>3. Enter("SOUNDING", begun) \/ SetSounding(refused)
    BY <1>3 DEF Fire
  <2> HIDE DEF fired, begun, refused
  <2>4. Rested'
    BY <2>2, <2>3, EnterRests, PlanRests
  <2>5. QED BY <2>1, <2>4 DEF RestedGood, OnlyWhenRested
<1>4. CASE SetSounding(Warn) /\ UNCHANGED station
  <2>1. Patient(Warn)
    BY <1>1 DEF Warn, Patient, Rested, Soundings
  <2>2. QED BY <1>4, <2>1, PlanRests, Quietly DEF station
<1>5. QED BY <1>2, <1>3, <1>4 DEF TickSoundingSweep

\* tick_test_channel().
LEMMA TestRests ==
  ASSUME Rested, TickTestChannel
  PROVE  RestedGood
<1>1. ASSUME NEW t, TestOnly(t)
      PROVE  RestedGood
  BY <1>1, IdleRests DEF TestOnly, station
<1>2. CASE TestTune \/ TestNext \/ TestCalling \/ TestLinkedSettle \/ TestTerminating
  BY <1>1, <1>2, PlacedRests, EnteredRests, IdleRests
     DEF TestTune, TestNext, TestCalling, TestLinkedSettle, TestTerminating
<1>3. CASE TestDone
  <2>1. Resume(st) # "SOUNDING" \/ Resume(st) = st
    BY DEF Resume
  <2>2. QED BY <1>3, <2>1, EnteredRests DEF TestDone
<1>4. QED BY <1>1, <1>2, <1>3 DEF TickTestChannel

\* The operator's commands.
LEMMA OperatorRests ==
  ASSUME Rested, Operator
  PROVE  RestedGood
<1>1. sounding \in Soundings /\ Interval \in Nat /\ since \in 0..Interval
  BY SchedNumbers DEF Rested, Patient
<1>2. ASSUME NEW p \in Peers, OpCall(p) \/ OpSendAmd(p) \/ OpTest(p)
      PROVE  RestedGood
  BY <1>2, PlacedRests, AttemptRests, IdleRests
     DEF OpCall, OpSendAmd, SendAmd, OpTest, station
<1>3. CASE OpTerminate
  BY <1>3, IdleRests DEF OpTerminate, plans
<1>4. CASE OpScan \/ OpEmergency
  BY <1>4, EnteredRests DEF OpScan, OpEmergency
<1>5. CASE OpTestStop
  <2>1. PICK s \in {"IDLE", st} : Enter(Resume(s), sounding)
    BY <1>5 DEF OpTestStop
  <2>2. Resume(s) # "SOUNDING" \/ Resume(s) = st
    BY DEF Resume
  <2>3. QED BY <2>1, <2>2, EnteredRests
<1>6. CASE OpInterrupt
  <2> DEFINE s == [sounding EXCEPT !.remain = Interval, !.sent = FALSE,
                                   !.popup = FALSE]
  <2>1. s \in Soundings /\ s.remain = Interval
    BY <1>1 DEF Soundings
  <2>2. SetSounding(s) /\ UNCHANGED st
    BY <1>6 DEF OpInterrupt, station
  <2> HIDE DEF s
  <2>3. Patient(s)
    BY <1>1, <2>1 DEF Patient
  <2>4. QED BY <2>2, <2>3, PlanRests, Quietly
<1>7. ASSUME NEW b \in BOOLEAN, OpAutomatic(b)
      PROVE  RestedGood
  <2> DEFINE s == [SoundingOff EXCEPT !.on = b,
                                      !.remain = IF b THEN Interval ELSE 0,
                                      !.cycle = sounding.cycle]
  <2>1. s \in Soundings /\ s.on = b /\ (b => s.remain = Interval)
    BY <1>1 DEF Soundings, SoundingOff
  <2>2. SetSounding(s) /\ UNCHANGED st
    BY <1>7 DEF OpAutomatic, station
  <2> HIDE DEF s
  <2>3. Patient(s)
    BY <1>1, <2>1 DEF Patient
  <2>4. QED BY <2>2, <2>3, PlanRests, Quietly
<1>8. ASSUME NEW b \in BOOLEAN, OpSound(b)
      PROVE  RestedGood
  <2> DEFINE swept == [sounding EXCEPT !.sent = FALSE, !.popup = FALSE,
                         !.remain = IF sounding.on THEN Interval ELSE 0]
  <2>1. swept \in Soundings /\ swept.on = sounding.on
        /\ (sounding.on => swept.remain = Interval)
    BY <1>1 DEF Soundings
  <2>2. PICK s \in {sounding, swept} : Enter("SOUNDING", s) /\ by' = "op"
    BY <1>8 DEF OpSound
  <2> HIDE DEF swept
  <2>3. Patient(s)
    BY <1>1, <2>1, <2>2 DEF Patient, Rested
  <2>4. QED BY <2>2, <2>3, EnterRests, Quietly
<1>9. QED
  BY <1>2, <1>3, <1>4, <1>5, <1>6, <1>7, <1>8 DEF Operator

\* Every step.
LEMMA NextRests ==
  ASSUME Rested, SchedNext
  PROVE  RestedGood
<1>1. CASE Advance
  <2>1. sounding \in Soundings /\ Interval \in Nat /\ since \in 0..Interval
    BY SchedNumbers DEF Rested, Patient
  <2>2. /\ sounding' = [sounding EXCEPT !.remain =
                          IF sounding.on THEN Down(@) ELSE @]
        /\ since' = (IF since < Interval THEN since + 1 ELSE since)
        /\ UNCHANGED st
    BY <1>1 DEF Advance, station
  <2>3. /\ sounding' \in Soundings /\ sounding'.on = sounding.on
        /\ sounding.on => sounding'.remain = Down(sounding.remain)
    BY <2>1, <2>2 DEF Soundings, Down
  <2>4. since' \in 0..Interval /\ (since' = Interval \/ since' = since + 1)
    BY <2>1, <2>2
  <2>5. sounding.on => since' + sounding'.remain >= Interval
    BY <2>1, <2>3, <2>4 DEF Soundings, Down, Rested, Patient
  <2>6. QED BY <2>2, <2>3, <2>4, <2>5, Quietly DEF Rested, Patient
<1>2. CASE TickRelink
  <2>1. ASSUME Relink \/ UNCHANGED <<station, sounding, since>>
        PROVE  RestedGood
    BY <2>1, IdleRests DEF Relink, station
  <2>2. ASSUME RecallAmd \/ CallBack
        PROVE  RestedGood
    BY <2>1, <2>2, AttemptRests, PlacedRests DEF RecallAmd, CallBack
  <2>3. QED BY <1>2, <2>1, <2>2 DEF TickRelink
<1>3. CASE TickPositionReport
  BY <1>3, AttemptRests, IdleRests
     DEF TickPositionReport, Broadcast, SendAmd, station
<1>4. ASSUME NEW p \in Peers, IncomingCall(p)
      PROVE  RestedGood
  BY <1>4, EnteredRests DEF IncomingCall
<1>5. QED
  BY <1>1, <1>2, <1>3, <1>4, TickSmRests, SweepRests, TestRests, OperatorRests
     DEF SchedNext, Update

\* tick_sounding_sweep(), on_sm_state_change(): an automatic sounding begins when a
\* whole interval has passed since the cycle before it ended, whether that cycle
\* ran out, was pre-empted by a call or was stopped.
THEOREM SoundingsKeepInterval == SchedSpec => SoundingKeepsInterval
<1>1. SchedInit => Rested
  BY SchedNumbers DEF SchedInit, Rested, Patient, Soundings, SoundingOff
<1>2. Rested /\ [SchedNext]_svars => Rested' /\ [OnlyWhenRested]_svars
  <2>1. Rested /\ UNCHANGED svars => Rested'
    BY DEF svars, Rested, Patient
  <2>2. QED BY <2>1, NextRests DEF RestedGood
<1>3. SoundingKeepsInterval <=> [][OnlyWhenRested]_svars
  BY PTL DEF SoundingKeepsInterval, OnlyWhenRested
<1>4. QED BY <1>1, <1>2, <1>3, PTL DEF SchedSpec
=============================================================================
