# A formal model of openALE

openALE is an automatic link establishment (ALE, MIL-STD-188-141B) station: it scans
channels, calls other stations in a three-way handshake, keeps links, sends short
messages over them, sounds, and drives the radio while it does. Around this core it has
a modem, a link quality database, station data that survives restarts, a CAT worker for
the radio, a data-block transfer, and a bridge that serves a web interface and talks to
a position receiver and a relay server. This directory holds TLA+ modules translated from
its source, TLC configurations that check them, and theorems checked by TLAPS.

Abbreviations for source files:

| name | file |
| --- | --- |
| SM, SH | `src/src/Protocol/Control/ale_state_machine.cpp`, `src/include/Protocol/Control/ale_state_machine.h` |
| CP | `src/src/Protocol/Control/ale_call_processor.cpp` |
| CTL | `src/src/App/ale_controller.cpp` |
| BR | `src/apps/ale_bridge.cpp` |

## 1. The system

### Parts, their state and how they interact

| part | state | operations | interacts by |
| --- | --- | --- | --- |
| Link state machine (SM) | state and previous state, where a link returns to, the sub-phase, addresses, word counter `words_pending`, drain deadline, orderwire and linked AMD, sweep, broadcast flag | `update()`, requests (`initiate_call`, `send_sounding`, `terminate_link`, ...), `on_word_complete()`, `process_received_word()` | callbacks *transmit*, *rx_enabled*, channel, operator event |
| Received-word processing (CP) | writes the state machine's fields as a friend | classify a word, react by state | called for each decoded word |
| Transmit path (CTL `wire_callbacks`, `tick_ptt_timing`) | PTT, lead and tail deadlines, manual PTT, held-back words, `sm_rx_enabled_`, `abort_tx_pending_` | the two callbacks, PTT ticks, manual PTT, emergency stop | modulator and demodulator, radio |
| Controller (CTL) | target, retry and relink bookkeeping, schedulers, station data | operator commands, `update()` main loop | all of the above |
| What is made of words (CTL, sounding identity, LQA exchange) | four text accumulators, sounding session, measurements | one call for each word, one for each change of state | before and after the state machine |
| Frequency select | phase of a proposal, cooldown | propose, answer, relink | orderwires, controller |
| Modem, FEC, codec | word grid, noise floor, modulator queue | samples to words and back | audio callbacks |
| FS-1052 ARQ | blocks, window, timers, sequence numbers | send, acknowledge, time out | frames |
| Hamlib worker | command queue, cached channel, worker thread, last known rig state | tune, PTT, sync, flush | controller |
| Audio devices and transport | hardware buffer, rendered and armed counters, chosen source | render, count completions, arbitrate | modulator, voice path |
| Link quality analysis | samples by station and channel, history file | record, score, prune, save | controller |
| Stores | channels, nets, contacts, rosters, settings, overlay, state file | edit, load, export, import | controller |
| Location relay, GPS, solar flux | queues, identity file and threads of their own | post, retry, read | mailbox, controller |
| Bridge | GUI session, tuner clients, queues between threads | commands and events | controller |

The core runs on one thread: `ALEController::update()` at every turn of the main loop,
decoded words, rendered frames and operator commands are all calls that run to their
end. The difficulty there is the *order of these calls*, for almost everything in the state
machine spans several of them: a call is queued as one sequence and its phases are
recovered by counting the words the audio device reports as played; the PTT has a lead
and a tail during which the next request may arrive; a broadcast drains without a state
of its own; and the audio device may stop reporting altogether. Real threads surround the
core: the CAT worker, the audio thread, the I/O threads of the two servers, the relay's
worker and the GPS and flux readers. There the difficulty is what they share with the
main loop (queues, counters, caches, mailboxes) and how they are stopped.

### What makes each part correct

* **State machine**: a link needs all three frames and is bound to the right peer; the
  phases follow the sequence that was queued; every wait has a deadline; every attempt
  and sounding ends; nothing that belongs to one state survives it to disturb another.
* **Transmit path**: nothing is sent unkeyed or before the lead has passed; the radio is
  never keyed without a reason; the station does not listen to itself; a receive-only
  channel is never keyed.
* **Schedulers**: what the station starts by itself keeps its budget and its distance, and ends.
* **Reception**: texts, identities and measurements are filed under the station they came from.
* **Modem and codec**: a word is delivered once; what a mode corrects and detects; an empty
  channel reads clear and a signal is noticed.
* **CAT worker**: the radio is keyed on the frequency it was asked for; nobody waits for ever.
* **Audio**: a word counts as sent when it has been played, not before, and in the end it does.
* **ARQ**: success only if everything has arrived, whatever is lost, duplicated or late.
* **Stores, quality**: a restart brings back what memory held; references follow renames;
  nothing outlives its age limit, whatever the clock does.
* **Relay, feeds, servers**: what is signed is what is saved; an approval shown was given; what the controller works with
  is what the services know; commands and answers are whole, in order and given to whom
  they belong.

The hazards, each with the line where it bites, are listed in `PROJECT.json`.

## 2. The modules

| module | models | composed in |
| --- | --- | --- |
| `AleTxPath` | CTL `wire_callbacks()`, `tick_ptt_timing()`, `set_manual_ptt()`, `emergency_stop()`; SM `transmit_words()`, `set_rx_enabled()`; a record and functions on it | `AleStateMachine` |
| `AleStateMachine` | SM and CP | `AleController` |
| `AleController` | CTL: main loop, audio and radio callbacks, commands; specification and properties | `MCAle` |
| `AleControllerProofs`, `AleCallProofs` | theorems about the three | |
| `AleSchedulers` | CTL: automatic sounding, AMD retry, relink, position report, channel test, the stages of `update()` | `MCSchedulers` |
| `FrequencySelect` | `FreqSelectManager`, `evaluate_relink`, `tick_frame_settle` | `MCRelink` |
| `Reception` | sounding identity, AMD accumulators, LQA exchange, handshake quality | `MCSignal` |
| `WordGrid`, `ChannelOccupancy`, `WordCodec` | word-grid tracker, occupancy detector, Golay code with interleaving and majority | `MCSignal` |
| `StationStores`, `LqaStore` | station data with preset overlay and state file; quality database, ranking, history | `MCStores` |
| `ReliableTransfer`, `Fs1052Arq` | abstract transfer; the FS-1052 sender and receiver that implement it | `MCStores` |
| `HamlibWorker`, `GuiServer`, `TunerServer` | CAT worker; WebSocket server; rigctld server | `MCRadio` |
| `LocationRelay`, `GpsFeed`, `VoicePath`, `AudioLoop` | relay; position and flux feed; voice path; audio thread | `MCServices` |

`AleTxPath`, `AleStateMachine` and `AleController` extend one another and are one
specification. The modules of the other `MC` modules share no state, so a variable
`focus` picks the part a behaviour runs, and the others rest in an initial state. This
keeps the number of runs small without multiplying their states. The theorems are about
each module alone, under its own specification (`SchedSpec`, `GridSpec`, `RelaySpec`, ...):

| proof module | about |
| --- | --- |
| `AleSchedulersProofs` | `AleSchedulers` |
| `SignalProofs` | `WordGrid`, `ChannelOccupancy`, `Reception`, `WordCodec` |
| `StoresProofs` | `Fs1052Arq`, `LqaStore`, `StationStores` |
| `RadioProofs` | `HamlibWorker` |
| `ServersProofs` | `TunerServer`, `GuiServer` |
| `ServicesProofs` | `LocationRelay`, `GpsFeed`, `VoicePath`, `AudioLoop` |

### The core: `AleTxPath`, `AleStateMachine`, `AleController`

Every action of `AleController` is one call into the code. The code's variables keep their
names (`state`, `previous_state`, `pre_link_state`, `broadcasting` =
`allcall_broadcasting_`, `scan_c` = `target_scan_channels`); families of variables are
records whose fields are explained at their type. One sub-phase variable `phase` stands
for the code's `calling_phase`, `handshake_phase`, `scanning_phase` and `sounding_phase`,
each of which is written when its state is entered and acted upon only there.

A handler often calls the transmit path several times, and *the order of these calls
matters*: `transmit_words(); rx_enabled(false)` is a different thing from the reverse.
Handlers are therefore compositions, such as `ArmDrain(RxOff(Transmit(FrameWords, tx)))`
in `TerminateLink`, read from the inside out.

| code | actions |
| --- | --- |
| SM `handle_calling()` | `CallingLbtBusy` ... `CallingAckStalled` |
| SM `handle_handshake()` | `HandshakeSilence` ... `HandshakeAckSettled` |
| SM `handle_linked()` | `LinkedTerminationStalled` ... `LinkedInactive` |
| SM `handle_sounding()` | `SoundingLbtBusy` ... `SoundingWindowClosed` |
| SM `check_link_timeout()` | `CallingBudgetSpent`, `HandshakeBudgetSpent`, `LinkedBackstop` |
| SM `update()`, broadcast drain | `BroadcastStalled` |
| SM `transition_to`, `enter_state`, `exit_state`, `handle_event` | `Moves`, `EnterCall`, `EnterHs`, `EnterLink`, `EnterTx`, `SoundingComplete`, `CallDetected` |
| SM `on_word_complete()` | `OnWordComplete` and its cases by state |
| CP `classify()`, `react_*_()`, `on_invalid_word_()` | `Role`, `HearIn...`, `ReceiveInvalidWord` |
| CTL `tick_ptt_timing()` | `PttLeadElapsed`, `PttTailElapsed` |
| CTL `tick_sm()` | `AbortTx`, `TickSm` |
| CTL commands | `StartAvailable`, `StartScanning`, `InitiateCall`, `SendAmd`, `Terminate`, `PressPtt`, ... |

Abstractions of the core:

* **Time.** A running timer may have elapsed at any tick, so results do not depend on the
  settings of the timing constants. Start times are kept only where the code tests them
  against zero. Two kinds of timers outlast every ordinary burst: the stall deadlines and
  budgets, and Twa inactivity. `RareTimers` says whether they may elapse while words
  are still being rendered, and whether a link falls idle; without "STALL" they elapse
  only when nothing is on the air.
* **Words.** A word is its type and its address chunk; the sequences the state machine
  builds are kept as their lengths, counted separately for each section, because the
  phases are derived by counting. DATA stands for DATA and REP.
* **Air.** The modulator is a number of words; the audio device reports each once and in
  order, or stops reporting. `AudioLoop` is the reason why this is right, and where it is
  not. A radio whose audio device fails is the case of `DeadAudioSpec`.
* **The radio channel.** Any word or undecodable word may be heard whenever the demodulator
  is on. This covers every lossy or misbehaving peer; it says nothing about what two correct
  stations achieve together.
* **Dead fields.** A field that one state reads and that is reset whenever that state is
  entered rests at its initial value elsewhere. Fields that survive their state and are
  read later are kept: that is where several divergences below come from.
* **Refused requests** keep what the controller wrote first (call width, channel list,
  queued message), as in the code.
* `tick_sm()` aborts and then updates the state machine within one call; the model splits
  it at that point, which only adds interleavings.
* `link.due` is a history variable: an AMD was sent over this link and no verdict was given.

### The modules around the core

* **`AleSchedulers`** keeps the order of `update()`: a variable `stage` walks through the
  ticks, and a command comes between two updates. The state machine is reduced to its
  states and the two it may return to (`prev` is `previous_state`, `home` is
  `pre_link_state_`); `SmMoves` leaves a state as `AleStateMachine` does, the return to a
  sounding and from it to a handshake or link included. Intervals are a few ticks.
* **`FrequencySelect`** counts time in Tdrw, because the two conditions it compares are
  ages of one word; frequencies lose their last digit on the air as in
  `encode_freq_data_word`.
* **`Reception`** gives every word its true speaker, which the code does not see and the
  properties compare credits with. Frames and soundings of two stations are generated word
  by word and may be garbled (`Missed` adds words that vanish altogether).
* **`WordGrid`** moves one quarter of a symbol at a time; what a window decodes to is a
  free choice near the end of a word. **`ChannelOccupancy`** computes the floor in
  hundredths of a dB, with the code's weights. **`WordCodec`** is exact: bit strings are
  sets of positions, the encoder is linear, the decoder's table is solved instead of stored.
* **`StationStores`** has every command that edits station data; formatting a row and parsing
  it back is `Row`, which loses what the code's format does not carry. **`LqaStore`** has
  one clock for the time of the day, which wraps, and one since the start of the program,
  because the code uses both; a crash leaves a torn file.
* **`Fs1052Arq`** has an external peer that answers any frame it has heard with the bitmap
  of what it has; frames and answers are lost, repeated and reordered. Data frames are taken
  in every state (`HearData`), except, with `BothWays = FALSE`, in TX_DATA (section 5).
* **`HamlibWorker`** splits the worker where the main thread can come between: taking a
  command, the CAT calls with a radio that may fail or answer nothing, the write-back.
  **`GuiServer`** sends halves of frames, so that a mixture of messages shows; **`TunerServer`**
  numbers connections and reuses slots.
* **`LocationRelay`** posts to the repository's own server (`tools/location-relay-server`),
  of which it has the table of identities: one row per call sign and server, with status and
  key (`registry`), `Registration` and the 409 by call sign, the reasons of `auth.js`
  (`Refusals`), the answers to a report, and `Decide` for `admin-cli.js`. Requests and answers
  get lost, and 503 stands for limits, storage errors and proxies. `told` is a history
  variable: what the status was last learnt from. **`GpsFeed`** splits the
  callbacks of its threads from their reading; **`VoicePath`** keeps devices by address;
  **`AudioLoop`** counts device frames, a word being `Frame` of them.

### Bounds

Every bound is a CONSTANT, named at its declaration and given in the `.cfg`. In the core
`MaxQueue` bounds the awaited words (`WithinQueue`); each run's value exceeds the longest
sequence its commands queue, so that only a second burst on top of a full one is cut off.
`MaxAddr` bounds a collected address, `MaxSweep` a sweep, `MaxAttempts` the transmissions of
a linked AMD, `MaxErrors` the tolerated bad words. Section lengths of 1 and 2 are enough to
tell an off-by-one apart from the right count; where the two could coincide, the sections
differ in length (`MCCalls`, `MCSounding`). The address chunks are the own one, the AllCall,
one station to call and, where impostors matter, a third.

Around the core: three operator commands (`Budget`, `MaxEdits`) cross everything the
station does by itself; sizes of
queues, slots and buffers are small enough to overflow (`QueueMax`, `QueueSize`, `Limit`,
`Slots`, `Ring` smaller than two words, `Capacity` smaller than the keys); `SeqNumbers`
exceeds the longest message by one; the wrap of the clock (`Wrap`) falls inside the time
of a behaviour; two of each actor (GUIs, stations, devices, keys) suffice to confuse them.
The codec's run takes one pair of payloads: the code is linear, so what an error does
does not depend on the word sent. No symmetry is used.

## 3. The runs

| run | what happens | what it shows |
| --- | --- | --- |
| `calls` | individual, single-channel and group calls, calls with an AMD, calls received; two channels to fall back on, addresses of two words | `TypeOK`; `WordsAccounted`: `words_pending` is exact; `ReceivesOnlyWhenSilent`: no listening window opens over the own frame; `KeyedWhileSending`: nothing is sent unkeyed or before the lead has passed; `CallPhaseInStep`: the counted phases match the queued sequence; `LinkedByThreeFrames`; `LinkedWithCaller` |
| `sounding` | soundings and sweeps interrupted by busy channels and return calls | `SoundingEnds` if audio renders |
| `linked` | linked AMDs with retries, orderwire, termination, emergency stop, manual PTT, stalls, inactivity | `WaitIsBounded`: every wait for an own burst has a deadline armed; `HalfDuplex`; `PttJustified` |
| `dead_audio` | calls, AMDs both ways, orderwire, broadcasts; the audio device may stop for good | `ReceiverReturns`, `AttemptEnds` by the deadlines alone |
| `receive_only` | a receive-only channel with calls received, broadcasts, orderwire, termination | `ReceiveOnly` |
| `schedulers` | automatic sounding, AMD retry, relink, AllCall reports and the channel test in one station, crossed by three commands, calls and relinks | `AmdWithinBudget`: an AMD costs no more calls than its budget, whoever raises the events it counts; `SoundingKeepsInterval` however a cycle ends (automatic cycles: a sounding that the state machine resumes after a call is none and is not measured); `TestEnds`, unless a foreign link keeps the station or it goes round (`GoesRound`, section 5) |
| `signal` | two stations' frames and soundings with garbled words, calls both ways; candidates of the word grid; occupancy through transmissions and retunes; the word code under every fade of up to 18 symbols and every pattern of up to four wrong bits in a half | `IdentityIsPrefix`, `TextsFromSender`, `CreditedToSpeaker`; `WordOnce`; `OccupancyRight`; `WordSurvives` |
| `stores` | three edits, loads, exports, imports and restarts of station data; the quality database with crashes and a wrapping clock; block transfers over a bad channel | `RestartRestores`, `RenamesFollow`; `NothingStale`, `HistoryKept`; `ImplementsTransfer`: the sender refines `ReliableTransfer` |
| `radio` | three commands against the CAT worker, reconnects, a radio that fails, loses answers or is retuned by hand; two GUI sessions; tuner clients that come and go | `KeyedWhereAsked`, `FlushReturns`; `CommandsWhole`, `CommandsHandled`; `AnsweredInOrder` |
| `services` | relay with restarts, crashes and two servers whose operators approve and revoke; position and flux feed; voice path with devices that come and go; audio thread of both drivers | `SignsAsSaved`, `ApprovedByServer`: an approval shown was given to this call sign by the server in use, and to this key once a report was answered; `ReportsSettle`; `FeedFollows`; `KeyedForSomebody`; `NotBeforePlayed`, `WordsCountedOff` |

Two runs end in a counterexample and are findings: `stale_caller` and `relink`. The other
`.cfg` files are counterexamples too; section 5 lists them, and
`tlc -config <file>.cfg <module>` shows each. Where section 5 names a property that is refuted
"under the constants of" a run, naming it in that run's `.cfg` shows it.

Each run of the core offers the commands (`Commands`) that belong to its question.
Combinations known to break a property (section 5) are left out of the passing runs, by
name, so that the runs show what holds without them. `LeaveWords`, `ReuseAddress`,
`LateAcks`, `BothWays`, `Missed` and `Tls` play the same part around the core.
`LeaveWords = FALSE` forbids to open a device while words wait in the modulator, or while the
last ones are in the device that is replaced. In the second case the pending completions
are left to the deadlines of the state machine, which a sounding lacks.

**Deadlock** is checked in the core, in `radio` and in `schedulers`. In `signal`, `stores`
and `services` a behaviour ends when its bounded supply of frames, edits or restarts is used up.

**Fairness.** In the core, `Deadlines` is weak fairness of the PTT lead, of the abort of a
refused transmission, of the stall deadlines and budgets, and of the ticks of a sounding:
the main loop calls `update()` at every turn and the clock advances, so a deadline that
stays armed passes and is acted upon. No fairness is assumed for the peer, the operator,
or, in `DeadAudioSpec`, the audio device. `LiveAudioSpec` adds weak fairness of rendering,
which is the audio device's part and needed for soundings, the only transmission without
a deadline. In `dead_audio` there is one channel: the code starts the budget anew on each
channel, and an attempt on n channels is n such attempts.

Elsewhere fairness is weak fairness of a thread's own loop, which the operating system
runs as long as it has something to do: the CAT worker (`Take`, `Dispatch`), the I/O
thread and the main loop's draining of its queue (`Read`, `Parse`, `Answer`), the relay's
worker and the end of a restart, the audio thread, the transport's tick and the hardware
that plays what is buffered, unless it is unplugged. Clients, radios, servers and operators
get none. `AleSchedulers` assumes weak fairness of `update()` and strong fairness of the
state machine's leaving CALLING, HANDSHAKE, SOUNDING and a draining link: that every
attempt and sounding ends is what `dead_audio` and `sounding` show of the state machine.
It is strong because the ticks of the other schedulers come in between.

## 4. The proofs

TLC checks the instances of section 3; the theorems hold for every value of the constants:
arbitrary addresses, lengths, channels, queue and buffer sizes, settings, levels.

### The core

| theorem | says | hypotheses |
| --- | --- | --- |
| `TypeCorrect` | `Spec => []TypeOK` | |
| `PttIsJustified` | no stuck transmitter: a keyed radio is held by the operator, wanted by the state machine, or about to be released by the tail | |
| `ReceiveOnlyIsSilent` | a receive-only channel is never keyed and always listened to | |
| `LinksWithCaller` | a called station links with the caller whose whole address it collected | |
| `StationIsHalfDuplex` | the demodulator is off while the radio is keyed | `"AVAILABLE" \notin Commands` |
| `WaitsAreBounded` | every wait for own words has a deadline | `OneWidth` |
| `WordsAreAccounted`, `ReceiverWaitsForSilence`, `CallPhasesInStep` | `words_pending` is exact; the receiver opens after the last own word; the counted phase of a call is the one on the air | `Calm` |
| `WordsAreKeyed` | nothing is sent unkeyed or within the lead | `Calm`, `"TERMINATE" \notin Commands` |
| `LinksByThreeFrames` | only the three frames of a call make a link | `Calm`, `Silent` |

Each hypothesis excludes a divergence of section 5, or a part of the station in which the
property is not claimed:

* `"AVAILABLE" \notin Commands`: *available in TX*.
* `OneWidth`, one call width in the stores: *refused request* writes another one into a
  running call.
* `Calm`: `OneWidth`; the deadlines that stand for "longer than any burst" do not elapse
  within one (`RareTimers = {}`, as in `calls`); the station may transmit; and the commands
  are `SCAN`, the three calls, the AMD of a call, soundings, sweeps and termination. A stall
  deadline gives up a burst whose words are still on the air; manual PTT and orderwires
  bypass the count of a call; a broadcast has no state in which to account for its words.
* `"TERMINATE" \notin Commands`: *lead bypassed*.
* `Silent`, no soundings: *sounding returns to HANDSHAKE* or to LINKED.

Everything under `Calm` covers more than the run `calls` does: any number of channels,
soundings, sweeps and termination come in.

*Transmit path.* No handler writes the transmit path; each composes operations of
`AleTxPath`. `AleControllerProofs` shows of each of these operations that it *keeps* three
predicates of a path, `Duplex`, `Justified` and `Listens`, and its type (`Keeps(t, u)`), and
that keeping is transitive; then of every action that it takes a well-typed
station to a well-typed one and `tx` to a path that keeps (`StepGood`), one lemma for each
group of actions; `NextGood` collects them. Two strengthenings are needed. `TypeOK`
restricts `phase` to the phases of the state and `pre_link_state` to IDLE, SCANNING and
SOUNDING, without which leaving a link could enter any state. `Listens` adds to
`ReceiveOnly` that the operator does not hold the PTT of a receive-only channel: with the
PTT held, the rx_enabled callback mutes the demodulator. `StartAvailable` enables the
demodulator in any state and is treated apart.

*Calls.* `AleCallProofs` has two invariants. `CountInv` holds of every station: a call waits
for no more words than its phases have left to count (`CallCounted`), so that none is left
over when the ACK begins, which is what `WaitIsBounded` needs; a caller's address is
there as soon as the handshake goes on; a sounding never resumes in CALLING. `CalmInv` says
in which states the receiver is off (`Sending`) and that the transmit path is in one of two
conditions: `Keyed`, where held-back and rendered words add up to `words_pending` and the
lead holds back whatever is not on the air, or `Resting`, where there are none. Without the
division by states the count is not inductive: a word could be rendered while nobody waits
for it. `AckHeard` carries the first two frames to the third.

### Around the core

| theorem | says | hypotheses |
| --- | --- | --- |
| `AmdKeepsBudget`, `SoundingsKeepInterval` | an AMD costs no more calls than its attempts; an automatic sounding comes a whole interval after the last | |
| `ArqTransfersReliably`, `MarksFollowPeer` | the FS-1052 sender refines `ReliableTransfer`; what is marked, the peer has | `~LateAcks`; the first also `~BothWays` |
| `KeysWhereAsked` | the radio is keyed on the frequency asked for before the PTT request | |
| `WordsAreDeliveredOnce` | a word on the air is handed on once | |
| `VerdictIsRight` | the occupancy verdict errs on neither side | `Loud` |
| `SignerIsSaved`, `ApprovalIsCurrent`, `RelayMemoryBounded` | the relay signs as saved, shows an approval of the server in use (of the key in use once a report was answered), and keeps no more than its limits | |
| `ControllerFollowsFix` | nothing the position and flux services know is lost | |
| `VoiceReleasesRadio` | no radio is left keyed by an operator whose link or voice mode is gone | |
| `IdentityHolds` | the address collected from a sounding is a beginning of the address sent | `~Missed` |
| `TextsHold`, `CreditsHold` | a text shown is one that was sent, whole; quality is credited to the station that was heard | |
| `AnswersInOrder` | a tuner client is answered in the order of its requests, each of its own | |
| `CommandsInOrder` | the GUI's commands come out of the socket whole, once and in order | |
| `HistoryHolds` | the history in memory and the one in the file agree but for what the limit dropped | |
| `StaleIsPruned` | no measurement older than the limit survives the next pruning | `[]FileYoung` |
| `RestartHolds` | what was saved is what a restart brings back, from whatever file the first start found | `DistinctPresets` |
| `RenamesHold` | a rename takes every reference to a channel or a net along | |
| `CompletionsHold` | a word is reported rendered only when its last sample has been played | `~LeaveWords` |
| `ShortFadesHarmless` | a fade of up to 16 symbols, anywhere in a word, changes no bit of the majority | |

`~LateAcks`: sequence numbers do not tell transfers apart, so an acknowledgement of a
former one counts for the next (section 5). `~BothWays`: no data frame arrives in TX_DATA;
the frame's TRANSFER_COMPLETE ends the transfer of this side (section 5), which would be a
step to success without the peer. What is marked stays true even then. `Loud`: the signal exceeds the empty channel
by the margin and by what the upward drift can add over all blocks; a weaker one may
legitimately be taken for noise. `~Missed`, no word is missed without an error: with such
losses the extension words of two soundings are joined (section 5); the texts and the
credits do not need it. `[]FileYoung`: the file with which the program starts was not left
for so long that the 32-bit difference of the stamps looks small again (section 5).
`~LeaveWords`, no device is opened while words wait in the modulator or in the device that
is replaced: the new one would count from nothing what the old one had been given (section 5). `DistinctPresets`, the entries
of a preset have different ids: if two have the same one and the second is deleted, no row
and no deleted id of the overlay says so, and it is back after a restart.

What each invariant adds to its property:

* `AmdCharged`: an AMD that waits to be called again has been charged for the failed
  attempt, one that is on its way has not; the sum of calls placed and attempts left differs
  by one between the two. `Rested`: the countdown does not reach zero before the interval
  has passed, in every state in which it may be started anew.
* `ArqInv`: not only the marks are truthful but every acknowledgement under way
  (`AcksTruthful`), because the channel may deliver it after any number of others. That
  `Finish` maps to a completed transfer then follows, every other step to a step or a stutter.
* `HamlibInv` follows a frequency through the queue: `InForce` says that the last request
  before a position of the queue, or the command in progress, or the radio itself, is on it;
  `PttMeets` that every queued PTT request meets the one it was made on. `stop()` keeps
  only urgent commands, and they must therefore come first (`UrgentFirst`). Lemmas about
  positions of a sequence replace the induction over the queue; where an urgent command is
  put in, before the first one that is not, the least-number principle tells.
* `GridInv`: the candidate kept began near the end of a word that has not been delivered,
  and what was delivered lies further back than any position at which it decodes.
* `OccupancyInv`: a learned floor lies between the empty channel and its drift since, or
  waits in `before`; the receiver is heard muted only while the floor is learned again
  (`MutedWhileLearning`), which is why silence does not pull it down; and the last four
  votes are those of the blocks counted in `run`.
* `RelayInv`, `FeedInv`, `VoiceInv`: a worker that is being joined belongs to a stopped
  service (and, for the approval, that a server's row keeps its key and never loses the mark of
  having been approved: `RegistrySound`, `Kept`); every hop of a value holds it or has handed it on; whoever talks holds the radio
  of a link in voice mode.
* `SessionInv` adds to the collected identity which extension word may come next: the word
  on the air belongs to the slot the session has open, and to its station (`NextFits`);
  `Partnered` says whose words a link and a handshake let through.
* `ReceptionInv` adds to `CreditedToSpeaker` that what was measured and not yet filed belongs
  to the partner. For the texts it follows every word of a text from the accumulators
  through the window that waits for its end to the operator: all are by one sender
  (`SenderInv`), and no text is at two places (`PlacesInv`), which is why none is shown twice.
* `TunerInv`: a seat is its visitor's (`SeatsMatch`), identities are never given twice
  (`OldIds`), what a pipe holds are the last lines sent (`PipesLast`), and of every visitor the
  lines in the two queues are exactly those read and not answered, in order (`WayCarries`).
  `Carries` says the latter by positions; that it survives a queue's losing the lines of
  another visitor, or those of an identity gone, is a lemma about it.
* `GuiInv` follows the bytes: the buffers one after another are the rest of the stream of
  frames the GUI sent, cut where the parser stands (`Begun`, `Continued`), whatever TLS and
  the reads have done to them, and the queue carries the commands parsed and not handled.
* `HistoryInv`: the file holds every sample that was noted, the memory is that without some of
  the oldest, each too old for the limit (`MemoryWithoutOldest`). Pruning drops what precedes the
  first recent sample, so what the memory lacks makes no difference to what remains (`PrunedTail`).
* `AgeInv`: by the stamp that counts, of whichever clock and modulo the wrap, an entry looks at least as
  old as its measurement is (`AllCurrent`), and one in the file looked fresh when it was measured (`FileFresh`). That the fold over the stations of a channel keeps
  it needs that the recursive function exists, which `TouchedDefined` derives by
  induction in first-order form: the set of lengths up to which there is one has no first gap.
* `StoreInv`: everything in memory and in the files has its type, ids are never blank in memory,
  and if nothing is unsaved, the file is what `save_state()` makes of the memory or the memory is
  what `load_state()` made of the file (`Synced`). Either case is needed: a file edited by hand need not
  be one the program writes. In the first, `RoundTrip` shows that the rows that differ, merged onto
  the preset without its deleted ids, are the rows in memory, in some order (`MergedBack`). Each
  loop over a list is a function defined entry by entry; that it exists and what it keeps true
  from one entry to the next are `Iterated` and `Reached`, induction in first-order form.
* `AudioInv`: each word in the batch or in the hardware has a target behind it which counts no
  more than its number (`LineNumbered`, `BatchNumbered`), words keep their order from
  the modulator on (`QueueOrder`), and a completion waits for the words armed before it (`Awaited`).
* `ShortFadesHarmless`: the three copies of a bit are 16 symbols apart or more, so a fade of 16
  reaches one of them at most. It is sharp: 17 symbols may change a bit.

Assumptions everywhere are the named ASSUMEs of the modules (types of the constants,
positive lengths, a muted receiver no louder than the empty channel), which TLC evaluates in the runs.
`FilesAssumption` of `StationStores` says of the presets and of the first state file that they parse,
and that `MaxId`, which stands for an endless supply of ids, is enough for their blank ones.

### Checked by TLC only

* Liveness, the fairness behind it, and ENABLED are beyond TLAPS: `SoundingEnds`,
  `ReceiverReturns`, `AttemptEnds`, `TestEnds`, `FlushReturns`, `CommandsHandled`,
  `ReportsSettle`, `WordsCountedOff`.
* `WordSurvives` is about exact bit patterns of a code given by its generator. Proved of it is
  what interleaving and majority do (`ShortFadesHarmless`).

## 5. Divergences met while modelling

### In the core

With a run: **`stale_caller`** (SM:398). `caller_address` of an earlier incoming call
survives; a caller that links afterwards is bound to the former caller, against "SAM
(caller), individual: active_call_to already = target address ... no fixup needed" (SM:385).

With a configuration of `MCAle`:

* `MCUnkeyedGoodbye` (SM:1022). Inactivity sends the termination frame without asking for
  transmission; entering IDLE or SCANNING then asks for reception. "The frame still goes
  out via the modulator" (SM:1027), but the radio is not keyed.
* `MCOrphanBurst` (SM:924). `orderwire_transmitting_` outlives its link; in the next link
  `handle_linked()` waits for a burst that has no words and no deadline.
* `MCBroadcastScan` (SM:283). Scanning started while a broadcast drains clears its drain
  deadline and drops its held-back words: the broadcast flag stays for good and calls are refused.

Seen in the model:

* *Lead bypassed* (SM:1535-1537): `terminate_link()` transmits before it asks for
  transmission, so its words are not held back for the PTT lead (CTL:442).
* *Stale responder* (CTL:1401-1406): `to_address` is cleared only on entering CALLING;
  `active_peer()` prefers it, so a called station may address its former responder.
* *Stale group flag* (SM:390-398): a responder that placed a group call before keeps the
  group flag and is not bound to its caller; `LinkedWithCaller` excludes this case.
* *Sounding returns to HANDSHAKE* (SM:168) or to LINKED: a sounding that is resumed after a
  return call ends in `previous_state`, against "previous_state = IDLE|SCANNING" in the
  comment there. After a failed call that is HANDSHAKE, after a link it is LINKED, which is
  entered again without a frame and with nobody in `active_call_to`.
* *Sounding into a broadcast* (SM:1458): `send_sounding()`, single-channel and group calls do
  not check for a draining broadcast as `initiate_call()` and `send_sounding_sweep()` (SM:1469) do.
* *Stale sweep* (SM:1556-1570): emergency stop during a sweep leaves the sweep active.
* *Refused request* (CTL:1234): the call width is written before the request is refused, and
  the running call counts its scanning phase by it (SM:1964).
* *Crossing AMDs* (SM:1084-1099): answering the peer's AMD overwrites the phase of the own,
  whose verdict never comes; an orderwire request likewise replaces a pending AMD burst.
* *Sounding stall* (SM:1262): SOUNDING has no drain deadline.
* *AllCall in a listening window* (SM:403): a handshake that returns to SOUNDING keeps
  `allcall_silent_`, and the next individual call is not answered.
* *Available in TX* (CTL:1031-1042): `start_available()` enables the demodulator under a keyed radio.
* *Keyed twice* (SM:1537): terminating during an orderwire burst asks for transmission twice,
  against the invariant in the comment at CTL:536.

### Schedulers and frequency select

* **`relink`** (CTL:1792, with a run). `tick_frame_settle()` commits the measurement after one
  Tdrw and zeroes `rx_ber_settle_ms_`; `evaluate()` and `evaluate_relink()` require it to be set
  and four Tdrw old. Neither EFS nor Auto-Relink ever proposes a channel, against
  `docs/LQA_BILATERAL_RELINK.md:141-157`. Also: sub-kHz digits are lost on the air, a late
  acceptance is echoed back and forth, and the phase EXECUTING is never left.
* `MCGoesRound` (SM:139, 145, 168). A return call heard in a sounding makes SOUNDING the
  state to return to; the resumed sounding ends in HANDSHAKE or LINKED, which fails or ends in
  SOUNDING again. The station transmits and never rests; the channel test, which tunes and goes
  on in IDLE or SCANNING only (CTL:2125, CTL:2228), waits for ever: `TestEndsUnlessLinked` is
  refuted, against "previous_state = IDLE|SCANNING" (SM:168).
* `MCAfterEmergency` (CTL:1535): emergency stop leaves the channel test, a pending relink and
  the automatic sounding, which transmit on the next update.
* AMD retries are decided by operator events that do not name a call: a foreign link counts as
  delivery. A position report overwrites a pending AMD. Stopping the channel test during a
  sounding retunes the radio. A relink whose call is refused is forgotten.

### Receive path

* `InUseIsBusy`, refuted under the constants of `MCSignal` (CTL:420-434): the floor is
  learned again on the channel a call hops to; a channel in use for the whole listening window is then taken for clear, against
  `src/include/Modem/channel_occupancy.h:171-176`.
* `MCSplice`: with words missed altogether, the extension words of two soundings or positions are
  joined, against the comment at `src/src/App/sounding_identity_accumulator.cpp:60`.
* Under the constants of `MCSignal`, TLC also refutes `WordOrError` (a word may be delivered as
  uncorrectable and then decoded), `AllTextsFromSender` and `TargetIsCalled` (addresses survive
  the call they were set for).

### Audio, voice, radio

* `MCReopened` (`BR:488-502`). Opening a device again, or after a dead one, leaves words in the
  modulator, because only emergency stop empties it; the new device plays them without armed
  completions, `frames_rendered_` runs ahead, and the PTT is released before the last words of
  later bursts, against `src/include/PAL/audio_driver.h:96-104`. An ALSA audio thread that gives
  up ends while `open_` stays true.
* `MCBurstKeyed` (`src/src/App/voice_path_manager.cpp:96`): letting go of the voice PTT unkeys a
  burst of the modem, against `docs/VOICE_AUDIO_ROUTING.md:80`. The reuse of a device's address
  (`ReuseAddress`) leaves a new device with the wrong source. A radio disconnected while keyed is
  never unkeyed.
* `CacheIsLastRequest`, refuted under the constants of `MCRadio`
  (`src/src/PAL/radios/hamlib_radio.cpp:491`): the worker writes an earlier channel over the cache, against `src/include/PAL/radios/hamlib_radio.h:117`. After a reconnect SPLIT is
  forgotten; a PTT release queued at `stop()` is dropped.

### Data

The first four are refuted under the constants of `MCStores`.

* `ExchangeSurvives` (CTL:936): `lqa_exchange_enabled` is saved and read but not applied.
* `ImportOwnExport` (CTL:3984): importing the settings one has exported drops the channels of the preset.
* `FreshKept` (CP:377): words of a link are dated by the time since the program's start and
  compared with the time of the day (CTL:3644): the entries are pruned at once.
* `AvailableSaidSo`: `sounding_twas` is not saved, so a restart lists a station as available that
  had said it is not.
* `NothingStale` needs `FileYoung` (`src/src/LQA/lqa_database.cpp:335`, `:517`): stamps are 32 bits of milliseconds, so a
  database file that lay for the wrap less the age limit (49.7 days less 25 hours) to the wrap looks fresh.
* `MCLateAck`, a configuration of `Fs1052Arq` (`src/src/FS1052/fs1052_arq.cpp:140`): after
  a partial acknowledgement the sender waits in TX_DATA with no timer. With `LateAcks` an acknowledgement of the former transfer
  counts for the next one; from 256 blocks on two blocks share a number, and `send_ack()` has no caller.
* `MCBothWays`, a configuration of `Fs1052Arq` (`src/src/FS1052/fs1052_arq.cpp:427`): data
  frames count in every state, in the bitmap of both directions. One that completes it raises
  TRANSFER_COMPLETE, on which TX_DATA goes to IDLE as well (`:119-121`): the own transfer ends as
  if it had succeeded, with blocks nobody acknowledged, and `ImplementsTransfer` is refuted.
* `load_from_file()` of the database keeps what precedes a tear, although CTL:3418 reports an empty
  one; state files and key files are truncated in place. Removing the primary own address leaves
  the state machine answering to it. A channel added on a known frequency, and a frequency edited
  in the GUI, may share an id with another.

### Services

* Under the constants of `MCServices`, TLC refutes `MainLoopFree`: changing a setting joins the
  relay's worker on the main thread, which may be posting or sleeping, against
  `docs/LOCATION_SHARING_CONCEPT.md:285-288`; and `GgaOnlyFromNmea`: the raw sentence survives the
  change to gpsd, against `src/include/App/gps_service.h`.
* `MCOldApproval`, a configuration of `MCServices`, refutes `ApprovedIsThisKey`: the server answers
  a registration with 409 by call sign, without a look at the key
  (`src/tools/location-relay-server/server.js:428-438`), and never replaces a key; the relay takes
  409 for an approval (`src/src/App/location_relay_service.cpp:362-371`). A regenerated identity is
  shown as approved although its reports will be refused, against
  `docs/LOCATION_SHARING_HOWTO.md:126` ("requires re-approval"), `:225` ("Regenerate Identity and
  re-approve is the reliable fix": there is nothing to approve) and
  `src/include/App/location_relay_service.h:100` ("an ingest has been accepted (2xx) or deduped
  (409)"). The first report that is answered corrects it, which is what `ApprovedByServer` says.
* Under the constants of `MCRadio` it refutes `OwnAnswers`: the GUI server's queues outlive a
  session. With `Tls = TRUE`, `CommandsHandled` fails, because what TLS has already decrypted
  is not seen by `poll()`. A full queue drops its oldest event, which may be a change of
  state, and a client that disappears with its PTT on leaves the radio keyed.
* A report retried while newer ones arrive goes back behind them, and one that is dropped still
  blocks an equal one. A live position source without a fix reports the configured position.
  A receiver that falls silent keeps its fix valid.

## 6. Not modelled

* *In the core*: the ERROR state, net calls, manual accept and reject, the idle warning, LQA
  words, transmit-only channels.
* *Timing constants* and the width of the millisecond clock: timers are free choices, which says
  nothing of whether a budget covers its frame.
* *Words, addresses, sequence builder; message parsers*: pure functions on strings. Their lengths
  are constants of the core.
* *Floating-point signal processing* (tones, spectra, resampling), the formulas behind quality
  scores, solar position: they enter as their verdicts.
* *The other radio back ends*: formatting of CAT commands without state of their own.
* *JSON, TLS, command line, user interfaces, monitor, mock and test programs*: presentation and
  test equipment. Of the relay *server* the identities are modelled; its stored reports, its
  database worker and its web interface are not.
* *A torn line of the history file* of `LqaStore`: the history is appended whole or not at all.
* *Windows audio capture and device enumeration*, port configuration of Hamlib.

`PROJECT.json` says of each component what is left out.

## 7. Plan

1. More theorems, as extensions of the proof modules there are: `RareTimers` and orderwires in
   `CalmInv`, which needs a third condition of the transmit path, a burst given up.
2. Two stations over a lossy channel, refining an abstract link: both ends agree, or the one
   that believes alone finds out.
3. The 32-bit clock and the budgets of `ale_timing.h` against the frames they must cover.
4. `AleSchedulers` with `AleStateMachine`: the AMD that rides on the next call.
