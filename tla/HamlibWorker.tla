---------------------------- MODULE HamlibWorker ----------------------------
(***************************************************************************)
(* The Hamlib radio back end (src/src/PAL/radios/hamlib_radio.cpp): the    *)
(* main thread updates a cache and queues commands, a worker thread takes  *)
(* them one by one and makes the blocking CAT calls.  The radio itself is  *)
(* external: it obeys (`reliable`) or it may fail, apply a command whose   *)
(* answer is lost, and be retuned at its front panel.                      *)
(***************************************************************************)
EXTENDS Integers, Sequences, FiniteSets, SequencesExt

CONSTANTS
    Freqs,          \* frequencies of the channels, without Unset
    Modes,          \* subset of DOMAIN ToRig
    Powers,         \* power settings in percent
    Channels,       \* channels that set_channel() is called with
    AvoidRelayClick,\* SerialLinePolicy::avoid_relay_click
    PttType,        \* PttPolicy::Type: "CAT", "RTS", "DTR" or "NONE"
    QueueMax,       \* bound on the commands waiting
    Budget          \* bound on commands and front-panel changes in a behaviour

VARIABLES
    running,        \* worker_running_
    queue,          \* cmd_queue_
    busy,           \* the command the worker executes, or NoCmd
    cached,         \* cached_channel_, read by the main thread
    current,        \* current_channel_, the worker's intended channel
    lastMode,       \* last_sent_mode_, or NoMode while !mode_ever_sent_
    window,         \* last_mode_cmd_ is younger than MODE_REASSERT_WINDOW
    splitState,     \* split_state_
    transmitting,   \* transmitting_
    inFlight,       \* tunes_in_flight_
    flushing,       \* the main thread is blocked in flush()
    rig,            \* the radio: frequency, mode, power, SPLIT and PTT
    reliable,       \* the radio obeys every command and nobody turns its knobs
    asked,          \* frequency the main thread asked for last (history)
    issued          \* commands issued and knobs turned, up to Budget

hvars == <<running, queue, busy, cached, current, lastMode, window, splitState,
           transmitting, inFlight, flushing, rig, reliable, asked, issued>>

Unset == 0
NoMode == "none"
NoCmd == [op |-> "none"]

(* Hamlib has fewer modes than pal::RadioMode: two of openALE's modes may   *)
(* be one mode of the radio, and read back as another than was commanded.   *)
ToRig == [USB |-> "USB", LSB |-> "LSB", FM |-> "FM", FMW |-> "FM",
          FSK |-> "RTTY", RTTY |-> "RTTY", CW |-> "CW"]
FromRig == [USB |-> "USB", LSB |-> "LSB", FM |-> "FM", WFM |-> "FMW",
            RTTY |-> "RTTY", CW |-> "CW"]

ASSUME HamlibAssumption ==
    /\ Freqs \subseteq Nat \ {Unset} /\ Modes \subseteq DOMAIN ToRig
    /\ Channels \subseteq [f : Freqs, m : Modes, p : Powers]
    /\ AvoidRelayClick \in BOOLEAN /\ QueueMax \in Nat /\ Budget \in Nat
    /\ PttType \in {"CAT", "RTS", "DTR", "NONE"}
    /\ Powers # {} /\ "USB" \in Modes

EmptyChannel == [f |-> Unset, m |-> "USB", p |-> 100]

Tunes == {"channel", "frequency", "mode"}
IsUrgent(c) == c.op \in Tunes \cup {"ptt"}

Commands ==
    [op : {"channel"}, ch : Channels] \cup [op : {"frequency"}, f : Freqs]
    \cup [op : {"mode"}, m : Modes] \cup [op : {"power"}, p : Powers]
    \cup [op : {"ptt"}, on : BOOLEAN, at : Freqs \cup {Unset}]
    \cup [op : {"sync", "flush"}]

HamlibInit ==
    /\ running = FALSE /\ queue = <<>> /\ busy = NoCmd
    /\ cached = EmptyChannel /\ current = EmptyChannel
    /\ lastMode = NoMode /\ window = FALSE /\ splitState = FALSE
    /\ transmitting = FALSE /\ inFlight = 0 /\ flushing = FALSE
    /\ rig = [f |-> Unset, m |-> "USB", p |-> 100, split |-> FALSE, keyed |-> FALSE]
    /\ reliable \in BOOLEAN /\ asked = Unset /\ issued = 0

-----------------------------------------------------------------------------
(* The main thread.  It does not run while it waits in flush().             *)

(* enqueue(): an urgent command goes behind the urgent ones that wait and   *)
(* in front of the first that is not.                                       *)
FirstNonUrgent(q) ==
    LET later == {i \in DOMAIN q : ~IsUrgent(q[i])}
    IN  IF later = {} THEN Len(q) + 1 ELSE CHOOSE i \in later : \A j \in later : i <= j

\* A variant for mutation: urgent commands go to the front.
EnqueueOvertaking(q, c) ==
    IF IsUrgent(c) THEN <<c>> \o q ELSE Append(q, c)

Enqueue(q, c) ==
    IF IsUrgent(c) THEN InsertAt(q, FirstNonUrgent(q), c) ELSE Append(q, c)

Issue(c) ==
    /\ ~flushing /\ issued < Budget /\ Len(queue) < QueueMax
    /\ issued' = issued + 1
    /\ queue' = IF running THEN Enqueue(queue, c) ELSE queue
    /\ UNCHANGED <<running, busy, current, lastMode, window, splitState, rig, reliable>>

SetChannel(ch) ==
    /\ Issue([op |-> "channel", ch |-> ch])
    /\ cached' = ch /\ asked' = ch.f /\ inFlight' = inFlight + 1
    /\ UNCHANGED <<transmitting, flushing>>

SetFrequency(f) ==
    /\ Issue([op |-> "frequency", f |-> f])
    /\ cached' = [cached EXCEPT !.f = f] /\ asked' = f /\ inFlight' = inFlight + 1
    /\ UNCHANGED <<transmitting, flushing>>

SetMode(m) ==
    /\ Issue([op |-> "mode", m |-> m])
    /\ cached' = [cached EXCEPT !.m = m] /\ inFlight' = inFlight + 1
    /\ UNCHANGED <<asked, transmitting, flushing>>

SetPower(p) ==
    /\ Issue([op |-> "power", p |-> p])
    /\ cached' = [cached EXCEPT !.p = p]
    /\ UNCHANGED <<asked, inFlight, transmitting, flushing>>

SetPtt(on) ==
    /\ Issue([op |-> "ptt", on |-> on, at |-> asked])
    /\ transmitting' = on
    /\ UNCHANGED <<asked, cached, inFlight, flushing>>

SyncFromRadio ==
    /\ Issue([op |-> "sync"])
    /\ UNCHANGED <<asked, cached, inFlight, transmitting, flushing>>

Flush ==
    /\ running
    /\ Issue([op |-> "flush"])
    /\ flushing' = TRUE
    /\ UNCHANGED <<asked, cached, inFlight, transmitting>>

(* initialize() and start(): both caches and the count of tunes start       *)
(* afresh; mode_ever_sent_ and last_sent_mode_ are kept.                    *)
Start ==
    /\ ~running /\ busy = NoCmd
    /\ running' = TRUE
    /\ current' = EmptyChannel /\ cached' = EmptyChannel /\ asked' = Unset
    /\ splitState' = FALSE /\ inFlight' = 0
    /\ UNCHANGED <<queue, busy, lastMode, window, transmitting, flushing, rig, reliable,
                   issued>>

(* stop(): the worker finishes the command it is in and is joined, what     *)
(* still waits is dropped, flush() callers are released.                    *)
Stop ==
    /\ running /\ ~flushing /\ busy = NoCmd
    /\ running' = FALSE /\ queue' = <<>> /\ transmitting' = FALSE
    /\ UNCHANGED <<busy, cached, current, lastMode, window, splitState, inFlight,
                   flushing, rig, reliable, asked, issued>>

-----------------------------------------------------------------------------
(* The worker thread.                                                       *)

Take ==
    /\ running /\ busy = NoCmd /\ queue # <<>>
    /\ busy' = Head(queue) /\ queue' = Tail(queue)
    /\ UNCHANGED <<running, cached, current, lastMode, window, splitState, transmitting,
                   inFlight, flushing, rig, reliable, asked, issued>>

(* The outcomes of a CAT call: what it reports, and whether the radio did   *)
(* it.  Over TCP a command may be applied although its answer was lost.     *)
Outcomes == IF reliable THEN {[ok |-> TRUE, done |-> TRUE]}
            ELSE {[ok |-> TRUE, done |-> TRUE], [ok |-> FALSE, done |-> TRUE],
                  [ok |-> FALSE, done |-> FALSE]}
Apply(o, new, old) == IF o.done THEN new ELSE old

(* assert_split(): the state is taken over whatever the radio answers.      *)
Arms == AvoidRelayClick /\ ~splitState
ArmedRig(o) == [rig EXCEPT !.split = IF Arms THEN Apply(o, TRUE, @) ELSE @]

(* impl_set_channel(): frequency, mode and power are sent only when they    *)
(* change; failures of frequency and mode are ignored, one of power is not. *)
DoSetChannel(ch) ==
    \E os, of, om, op \in Outcomes :
        LET sendF == ch.f # current.f
            sendM == ch.m # lastMode
            sendP == ch.p # current.p
            p1 == IF sendP /\ ~op.ok THEN current.p ELSE ch.p
        IN  /\ current' = [ch EXCEPT !.p = p1]
            /\ cached' = [ch EXCEPT !.p = p1]
            /\ lastMode' = ch.m /\ window' = TRUE
            /\ splitState' = (splitState \/ AvoidRelayClick)
            /\ rig' = [ArmedRig(os) EXCEPT
                         !.f = IF sendF THEN Apply(of, ch.f, @) ELSE @,
                         !.m = IF sendM THEN Apply(om, ToRig[ch.m], @) ELSE @,
                         !.p = IF sendP THEN Apply(op, ch.p, @) ELSE @]

(* impl_set_frequency(): the mode is sent again after every retune.         *)
DoSetFrequency(f) ==
    \E os, of, om \in Outcomes :
        /\ current' = [current EXCEPT !.f = f]
        /\ cached' = [cached EXCEPT !.f = f]
        /\ lastMode' = current.m /\ window' = TRUE
        /\ splitState' = (splitState \/ AvoidRelayClick)
        /\ rig' = [ArmedRig(os) EXCEPT !.f = Apply(of, f, @),
                                       !.m = Apply(om, ToRig[current.m], @)]

(* impl_set_mode() with assert_mode().                                      *)
DoSetMode(m) ==
    \E om \in Outcomes :
        /\ current' = [current EXCEPT !.m = m]
        /\ cached' = [cached EXCEPT !.m = m]
        /\ lastMode' = m /\ window' = TRUE
        /\ rig' = [rig EXCEPT !.m = Apply(om, ToRig[m], @)]
        /\ UNCHANGED splitState

(* impl_set_power() with assert_power(): only a confirmed value is kept.    *)
DoSetPower(p) ==
    \E op \in Outcomes :
        /\ current' = IF op.ok THEN [current EXCEPT !.p = p] ELSE current
        /\ cached' = IF op.ok THEN [cached EXCEPT !.p = p] ELSE cached
        /\ rig' = [rig EXCEPT !.p = Apply(op, p, @)]
        /\ UNCHANGED <<lastMode, window, splitState>>

(* impl_set_ptt(): SPLIT is dropped before PTT ON and armed after PTT OFF;  *)
(* a failed call clears transmitting_, whichever way it was to switch.      *)
DoSetPtt(on) ==
    \E ob, op, oa \in Outcomes :
        LET drop == AvoidRelayClick /\ on /\ splitState
            arm  == AvoidRelayClick /\ ~on
            r1 == IF drop THEN Apply(ob, FALSE, rig.split) ELSE rig.split
        IN  /\ rig' = [rig EXCEPT
                         !.keyed = IF PttType = "NONE" THEN @ ELSE Apply(op, on, @),
                         !.split = IF arm THEN Apply(oa, TRUE, r1) ELSE r1]
            /\ splitState' = IF drop THEN FALSE ELSE splitState \/ arm
            /\ transmitting' = (on /\ op.ok)
            /\ UNCHANGED <<current, cached, lastMode, window>>

(* impl_sync_from_radio(): a frequency that differs is taken for a retune   *)
(* by hand and adopted; a mode that differs is sent again while the window  *)
(* is open; a power that differs is adopted.                                *)
DoSync ==
    \/ /\ ~reliable /\ UNCHANGED <<current, cached, rig>>     \* a read failed
       /\ UNCHANGED <<lastMode, window, splitState>>
    \/ \E om \in Outcomes :
        LET retuned == rig.f # current.f
            reassert == /\ FromRig[rig.m] # current.m
                        /\ ~retuned /\ window
        IN  /\ current' = [current EXCEPT !.f = rig.f, !.p = rig.p]
            /\ cached' = [cached EXCEPT !.f = IF retuned THEN rig.f ELSE @,
                                        !.p = IF rig.p # current.p THEN rig.p ELSE @]
            /\ rig' = IF reassert THEN [rig EXCEPT !.m = Apply(om, ToRig[current.m], @)] ELSE rig
            /\ UNCHANGED <<lastMode, window, splitState>>

ReleasedNever == flushing               \* mutant: the promise is never fulfilled
Released == flushing /\ busy.op # "flush"

(* worker_dispatch(): the tune counts as settled only after its last write. *)
Finish == /\ busy # NoCmd /\ busy' = NoCmd
          /\ inFlight' = inFlight - (IF busy.op \in Tunes THEN 1 ELSE 0)
          /\ UNCHANGED <<running, queue, reliable, asked, issued>>

Dispatch ==
    /\ Finish
    /\ flushing' = Released
    /\ \/ busy.op = "channel"   /\ DoSetChannel(busy.ch) /\ UNCHANGED transmitting
       \/ busy.op = "frequency" /\ DoSetFrequency(busy.f) /\ UNCHANGED transmitting
       \/ busy.op = "mode"      /\ DoSetMode(busy.m) /\ UNCHANGED transmitting
       \/ busy.op = "power"     /\ DoSetPower(busy.p) /\ UNCHANGED transmitting
       \/ busy.op = "ptt"       /\ DoSetPtt(busy.on)
       \/ busy.op = "sync"      /\ DoSync /\ UNCHANGED transmitting
       \/ busy.op = "flush"     /\ UNCHANGED <<current, cached, lastMode, window,
                                               splitState, rig, transmitting>>

-----------------------------------------------------------------------------
(* The world: the clock, and somebody at the front panel of the radio.      *)

WindowExpires ==
    /\ window /\ window' = FALSE
    /\ UNCHANGED <<running, queue, busy, cached, current, lastMode, splitState, transmitting,
                   inFlight, flushing, rig, reliable, asked, issued>>

FrontPanel ==
    /\ ~reliable /\ issued < Budget /\ issued' = issued + 1
    /\ \E f \in Freqs, m \in {ToRig[x] : x \in Modes} :
          rig' = [rig EXCEPT !.f = f, !.m = m]
    /\ UNCHANGED <<running, queue, busy, cached, current, lastMode, window, splitState,
                   transmitting, inFlight, flushing, reliable, asked>>

HamlibMain ==
    \/ \E ch \in Channels : SetChannel(ch)
    \/ \E f \in Freqs : SetFrequency(f)
    \/ \E m \in Modes : SetMode(m)
    \/ \E p \in Powers : SetPower(p)
    \/ \E on \in BOOLEAN : SetPtt(on)
    \/ SyncFromRadio \/ Flush \/ Start \/ Stop

HamlibNext == HamlibMain \/ Take \/ Dispatch \/ WindowExpires \/ FrontPanel

(* The worker's loop never stops while it is running: a CAT call returns,   *)
(* if only by its time-out.                                                 *)
HamlibFairness == WF_hvars(Take) /\ WF_hvars(Dispatch)
HamlibSpec == HamlibInit /\ [][HamlibNext]_hvars /\ HamlibFairness

-----------------------------------------------------------------------------

(* PTT ON reaches the radio after the tune that was requested before it and *)
(* before any later one, whatever the order of the queue: the transmitter   *)
(* is never keyed on a frequency other than the one it was keyed for.       *)
KeyedWhereAsked ==
    [][ (reliable /\ busy.op = "ptt" /\ busy' = NoCmd /\ busy.on /\ busy.at # Unset)
          => rig.f = busy.at ]_hvars

(* flush() returns: the command it waits for is behind commands that the    *)
(* worker will all get to (hamlib_radio.h:148-155).                         *)
FlushReturns == flushing ~> ~flushing

(* get_channel() returns "den zuletzt angeforderten Kanal" (the channel     *)
(* requested last, hamlib_radio.h:117).                                     *)
CacheIsLastRequest == running /\ reliable /\ asked # Unset => cached.f = asked
=============================================================================
