------------------------------ MODULE AudioLoop ------------------------------
(***************************************************************************)
(* The way of a word from the modulator's queue to the air, and of its     *)
(* completion back: the main thread queues words and arms completions, the *)
(* audio thread of the device fills the hardware's buffer and counts the   *)
(* words that were played, and AudioTransport decides each tick whether    *)
(* the modem or the operator's voice is sent.                              *)
(*                                                                         *)
(* A word is some device frames (Frame), of which only the last is told    *)
(* from silence: it carries the number of the word.                        *)
(***************************************************************************)
EXTENDS Naturals, Integers, Sequences, SequencesExt

CONSTANTS
  Drivers,    \* subset of {"alsa", "wasapi"}
  Frame,      \* device frames of a word, and of a chunk of voice
  Ring,       \* device frames the hardware buffers
  Made,       \* bound on the words sent
  LeaveWords  \* the device may be opened again while words wait in the modulator

ASSUME AudioAssumption == Frame \in Nat \ {0} /\ Ring \in Nat \ {0}

VARIABLES
  driver,    \* the driver of the platform
  made,      \* words handed to the modulator
  held,      \* symbol_buf_ while word_enqueued_, or 0
  waiting,   \* tx49_queue_
  arming,    \* a word is queued and its completion not armed yet
  pending,   \* words_pending_ of the state machine
  wish,      \* the voice link: "none", "link" or "talk"
  playing,    \* last_source_, pcm_pull_
  loop,      \* the audio thread: [at, using, room, batch]
  chunk,     \* at_render_buf_: [word, left]; word 0 is voice
  targets,   \* word_play_targets_, counted from total_written_
  line,      \* what the hardware has buffered
  rendered,  \* frames_rendered_
  armed,     \* frames_armed_
  notify,    \* frame_notify_queue_: [target, word]
  aired,     \* words that were played to their end
  done,      \* words whose completion was called
  dropped    \* words discarded before they were played

mainvars == <<made, held, waiting, arming, pending, wish, playing, armed, notify, done, dropped>>
threadvars == <<loop, chunk, targets, rendered>>
avars == <<driver, mainvars, threadvars, line, aired>>

IdleLoop == [at |-> "idle", using |-> "symbol", room |-> 0, batch |-> <<>>]
NoChunk == [word |-> 0, left |-> 0]

\* How many of the positions from the first one on are in a set of them.
Leading(positions) ==
  CHOOSE n \in positions \union {0} : 1..n \subseteq positions /\ n + 1 \notin positions

-----------------------------------------------------------------------------
(* The main thread *)

\* The transmit callback: enqueue_word, and then arm_frame_complete.
SendWord ==
  /\ ~arming /\ made < Made
  /\ made' = made + 1 /\ pending' = pending + 1 /\ arming' = TRUE
  /\ IF held = 0 THEN held' = made + 1 /\ UNCHANGED waiting
     ELSE waiting' = Append(waiting, made + 1) /\ UNCHANGED held
  /\ UNCHANGED <<driver, wish, playing, armed, notify, done, dropped, threadvars, line, aired>>
Arm ==
  /\ arming /\ arming' = FALSE
  /\ armed' = armed + 1 /\ notify' = Append(notify, [target |-> armed + 1, word |-> made])
  /\ UNCHANGED <<driver, made, held, waiting, pending, wish, playing, done, dropped, threadvars,
                 line, aired>>

\* What is sent: a burst of the modem before the operator's voice.
ChosenVoiceFirst ==
  CASE wish = "talk" -> "media" [] wish = "link" -> "silence" [] OTHER -> "symbol"
Chosen ==
  CASE held # 0 -> "symbol"
    [] held = 0 /\ wish = "talk" -> "media"
    [] held = 0 /\ wish = "link" -> "silence"
    [] OTHER -> "symbol"

\* tick calls and removes the first completion as long as it is due.
Due == Leading({i \in DOMAIN notify : notify[i].target <= rendered})

\* AudioTransport::tick: the completions of the words played, and the source.
AudioTick ==
  /\ ~arming
  /\ notify' = SubSeq(notify, Due + 1, Len(notify))
  /\ done' = done \union {notify[i].word : i \in 1..Due}
  /\ pending' = IF pending > Due THEN pending - Due ELSE 0
  /\ playing' = Chosen
  /\ UNCHANGED <<driver, made, held, waiting, arming, wish, armed, dropped, threadvars, line,
                 aired>>

\* The operator enters, talks on and leaves a voice link.
Wish ==
  /\ ~arming /\ \E w \in {"none", "link", "talk"} : w # wish /\ wish' = w
  /\ UNCHANGED <<driver, made, held, waiting, arming, pending, playing, armed, notify, done,
                 dropped, threadvars, line, aired>>

InModulator == Range(waiting) \union ({held} \ {0})

\* emergency_stop: the state machine counts no more words, the modulator is
\* empty; what the audio thread has pulled is played.
AbortBurst ==
  /\ ~arming /\ pending > 0
  /\ pending' = 0 /\ held' = 0 /\ waiting' = <<>>
  /\ dropped' = dropped \union InModulator
  /\ UNCHANGED <<driver, made, arming, wish, playing, armed, notify, done, threadvars, line, aired>>

\* The drain deadline of the state machine, once the audio thread has ended.
DrainDeadline ==
  /\ ~arming /\ loop.at = "ended" /\ pending > 0 /\ pending' = 0
  /\ UNCHANGED <<driver, made, held, waiting, arming, wish, playing, armed, notify, done, dropped,
                 threadvars, line, aired>>

\* AUDIO_OPEN: close once the audio thread is done with its batch, and a device
\* that counts from nothing; the same modulator.  ALSA plays what is buffered.
RenewedKeepsCount == UNCHANGED rendered
Renewed == rendered' = 0
PlayedOut == IF driver = "alsa" /\ loop.at = "idle" THEN Range(line) \ {0} ELSE {}
InDevice == (Range(line) \union {chunk.word}) \ {0}
Reopen ==
  /\ ~arming /\ loop.at # "filling"
  /\ notify # <<>> \/ rendered > 0 \/ loop.at = "ended"
  /\ LeaveWords \/ (held = 0 /\ pending = 0)
  /\ Renewed /\ armed' = 0 /\ notify' = <<>>
  /\ loop' = IdleLoop /\ chunk' = NoChunk /\ targets' = <<>> /\ line' = <<>>
  /\ aired' = aired \union PlayedOut
  /\ playing' = "symbol" /\ dropped' = dropped \union (InDevice \ PlayedOut)
  /\ UNCHANGED <<driver, made, held, waiting, arming, pending, wish, done>>

-----------------------------------------------------------------------------
(* The audio thread *)

\* The words the DAC is done with: nothing of them is left in the buffer.
Played(t) == t + Len(line) <= 0

Finished == Leading({j \in DOMAIN targets : Played(targets[j])})

\* service_render: count the words that were played, see how much room there is.
Wake ==
  /\ loop.at = "idle"
  /\ targets' = SubSeq(targets, Finished + 1, Len(targets))
  /\ rendered' = rendered + Finished
  /\ loop' = IF Len(line) = Ring THEN loop
             ELSE [at |-> "filling", using |-> playing, room |-> Ring - Len(line), batch |-> <<>>]
  /\ UNCHANGED <<driver, mainvars, chunk, line, aired>>

\* ALSA looks at the source once for each batch, WASAPI for every chunk.
Using == IF driver = "alsa" THEN loop.using ELSE playing

Padded == [loop EXCEPT !.batch = @ \o [i \in 1..(loop.room - Len(loop.batch)) |-> 0]]
Filling == loop.at = "filling" /\ Len(loop.batch) < loop.room

\* pull_symbol_frame: the next word of the queue takes the place of this one.
PullNext ==
  IF waiting = <<>> THEN held' = 0 /\ UNCHANGED waiting
  ELSE held' = Head(waiting) /\ waiting' = Tail(waiting)

\* The chunk is used up: the next one, or silence for the rest of the batch.
Refill ==
  /\ Filling /\ chunk.left = 0
  /\ \/ /\ Using = "symbol" /\ held # 0
        /\ chunk' = [word |-> held, left |-> Frame] /\ PullNext /\ UNCHANGED loop
     \/ /\ Using = "media" /\ chunk' = [word |-> 0, left |-> Frame]
        /\ UNCHANGED <<loop, held, waiting>>
     \/ /\ Using = "symbol" => held = 0
        /\ loop' = Padded /\ UNCHANGED <<chunk, held, waiting>>
  /\ UNCHANGED <<driver, made, arming, pending, wish, playing, armed, notify, done, dropped,
                 targets, rendered, line, aired>>

\* One device frame; the end of a word is a target.
Emit ==
  /\ Filling /\ chunk.left > 0
  /\ LET last == chunk.left = 1 /\ chunk.word # 0 IN
     /\ loop' = [loop EXCEPT !.batch = Append(@, IF last THEN chunk.word ELSE 0)]
     /\ targets' = IF last THEN Append(targets, Len(loop.batch) + 1) ELSE targets
     /\ chunk' = IF chunk.left = 1 THEN NoChunk ELSE [chunk EXCEPT !.left = @ - 1]
  /\ UNCHANGED <<driver, mainvars, rendered, line, aired>>

\* The batch is handed to the hardware.
WriteBatch ==
  /\ loop.at = "filling" /\ Len(loop.batch) = loop.room
  /\ line' = line \o loop.batch
  /\ targets' = [i \in DOMAIN targets |-> targets[i] - loop.room]
  /\ loop' = IdleLoop
  /\ UNCHANGED <<driver, mainvars, chunk, rendered, aired>>

\* The device is unplugged: the audio thread ends, or does nothing any more.
ThreadEnds ==
  /\ loop.at = "idle" /\ loop' = [loop EXCEPT !.at = "ended"]
  /\ UNCHANGED <<driver, mainvars, chunk, targets, rendered, line, aired>>

\* The hardware plays.
Play ==
  /\ line # <<>> /\ loop.at # "ended" /\ line' = Tail(line)
  /\ aired' = aired \union ({Head(line)} \ {0})
  /\ UNCHANGED <<driver, mainvars, threadvars>>

\* Without a device there is no audio thread until one is opened.
NoThread == [IdleLoop EXCEPT !.at = "ended"]
AudioInit ==
  /\ driver \in Drivers /\ made = 0 /\ held = 0 /\ waiting = <<>> /\ arming = FALSE /\ pending = 0
  /\ wish = "none" /\ playing = "symbol" /\ loop \in {IdleLoop, NoThread}
  /\ chunk = NoChunk /\ targets = <<>> /\ line = <<>> /\ rendered = 0 /\ armed = 0 /\ notify = <<>> /\ aired = {}
  /\ done = {} /\ dropped = {}

AudioNext ==
  \/ SendWord \/ Arm \/ AudioTick \/ Wish \/ AbortBurst \/ DrainDeadline \/ Reopen
  \/ Wake \/ Refill \/ Emit \/ WriteBatch \/ ThreadEnds \/ Play

\* The main loop ticks, the hardware plays and the audio thread is woken, as
\* long as it lives.
AudioFairness ==
  /\ WF_avars(Arm) /\ WF_avars(AudioTick) /\ WF_avars(Wake \/ Refill \/ Emit \/ WriteBatch)
  /\ WF_avars(Play) /\ WF_avars(DrainDeadline)
AudioSpec == AudioInit /\ [][AudioNext]_avars /\ AudioFairness

-----------------------------------------------------------------------------
(* Properties *)

\* A completion is not called before the last sample of its word has been
\* played: the PTT is released by completions, and would cut the burst short.
NotBeforePlayed == done \subseteq aired \union dropped

\* Words that were sent are counted off in the end, whatever the operator's
\* voice link does meanwhile; a dead device leaves it to the drain deadline.
WordsCountedOff == pending > 0 ~> pending = 0
=============================================================================
