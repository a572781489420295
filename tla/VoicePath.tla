----------------------------- MODULE VoicePath -----------------------------
(***************************************************************************)
(* VoicePathManager, AudioTransport, AudioMonitor and the part of the      *)
(* bridge's main loop that binds them to the audio device and the radio.   *)
(* Each tick rebinds the devices and chooses what the audio device renders *)
(* (the modem's symbols, the operator's microphone or silence), then takes *)
(* the commands that have come in, then runs the controller, which tells   *)
(* of links and keys the radio for its own bursts without asking the voice *)
(* path.                                                                   *)
(*                                                                         *)
(* A device is an object at an address: Gone stands for one that has been  *)
(* destroyed while somebody still points to it.                            *)
(***************************************************************************)
EXTENDS Integers, SequencesExt

CONSTANTS
  Devices,      \* addresses of audio devices and of radios
  None,         \* no device
  ReuseAddress, \* may a new audio device get the address of the one the
                \* transport still knows?
  MaxCommands   \* commands per tick

ASSUME VoiceAssumption == None \notin Devices /\ ReuseAddress \in BOOLEAN /\ MaxCommands \in Nat

VARIABLES
  audio,     \* [dev, source]: the open audio device and its pcm_source
  rig,       \* [dev, keyed]: the attached radio and its PTT
  voice,     \* [armed, linked, talking, mode, radio]: VoicePathManager
  transport, \* [vac, last, protocol, media]: AudioTransport
  sinks,     \* rx_sinks_: "voice" and "monitor"
  modem,     \* [link, burst, manual]: the controller's side of the radio; a burst
             \* is "none", "sending" or in the PTT "tail" after it
  phase,     \* "bind", "commands" or "update": the stages of a tick
  commands,  \* commands taken in this tick
  button     \* the operator's PTT button

vvars == <<audio, rig, voice, transport, sinks, modem, phase, commands, button>>

Voiced == voice.mode = "passthrough"
MediaWanted(v) == v.talking /\ v.mode = "passthrough"

-----------------------------------------------------------------------------
(* AudioTransport *)

\* attach: a device that is new to the transport renders symbols.
Attached(t) ==
  IF t.vac = audio.dev THEN t ELSE [t EXCEPT !.vac = audio.dev, !.last = "symbols"]

\* arbitrate_tx_: the modem first, then the microphone, then silence.
Wanted ==
  IF modem.burst = "sending" THEN "symbols"
  ELSE IF MediaWanted(voice) THEN "microphone"
  ELSE IF Voiced THEN "silence" ELSE "symbols"

\* attach() of both and transport.tick(): the source is set only on a change.
Bind ==
  /\ phase = "bind" /\ phase' = "commands"
  /\ voice' = [voice EXCEPT !.radio = rig.dev]
  /\ LET t == Attached(transport) IN
     IF t.vac = None
     THEN transport' = t /\ UNCHANGED audio
     ELSE /\ transport' = [t EXCEPT !.last = Wanted,
                                    !.protocol = (modem.burst = "sending"),
                                    !.media = (Wanted = "microphone")]
          /\ audio' = IF Wanted = t.last THEN audio ELSE [audio EXCEPT !.source = Wanted]
  /\ UNCHANGED <<rig, sinks, modem, commands, button>>

-----------------------------------------------------------------------------
(* VoicePathManager *)

\* radio_->set_ptt: on a destroyed radio the call is undefined; here it has no
\* effect on the one that is attached now.
KeyFrom(v, on) == rig' = IF v.radio = rig.dev /\ rig.dev # None THEN [rig EXCEPT !.keyed = on] ELSE rig

\* A variant for mutation: the radio is not released.
LeftKeyed(v) == UNCHANGED rig
\* exit_passthrough_ releases the radio if the operator was talking.
Released(v) == IF v.talking THEN KeyFrom(v, FALSE) ELSE UNCHANGED rig

\* on_link_state: v is the manager with its new armed and linked.
OnLinkState(v) ==
  LET want == v.linked /\ v.armed IN
  \/ /\ want /\ v.mode = "exclusive"
     /\ voice' = [v EXCEPT !.mode = "passthrough", !.talking = FALSE]
     /\ sinks' = Append(sinks, "voice") /\ UNCHANGED rig
  \/ /\ ~want /\ v.mode = "passthrough"
     /\ voice' = [v EXCEPT !.mode = "exclusive", !.talking = FALSE]
     /\ sinks' = SelectSeq(sinks, LAMBDA s : s # "voice")
     /\ Released(v)
  \/ /\ want = (v.mode = "passthrough")
     /\ voice' = v /\ UNCHANGED <<sinks, rig>>

-----------------------------------------------------------------------------
(* Commands from the browser *)

Command == phase = "commands" /\ commands < MaxCommands /\ commands' = commands + 1

VoiceArm ==
  /\ Command
  /\ \E on \in BOOLEAN : OnLinkState([voice EXCEPT !.armed = on])
  /\ UNCHANGED <<audio, transport, modem, phase, button>>

\* set_manual_ptt: pressing cuts the tail, and any call, handshake or sounding
\* under way; releasing leaves the radio to a burst.
ManualPtt(on) ==
  \/ /\ on
     /\ rig' = IF rig.dev = None THEN rig ELSE [rig EXCEPT !.keyed = TRUE]
     /\ \E b \in {"none"} \cup (IF modem.burst = "sending" THEN {"sending"} ELSE {}) :
          modem' = [modem EXCEPT !.manual = TRUE, !.burst = b]
  \/ /\ ~on
     /\ modem' = [modem EXCEPT !.manual = FALSE]
     /\ rig' = IF modem.burst = "sending" THEN rig ELSE [rig EXCEPT !.keyed = FALSE]

\* SET_PTT is the voice PTT in passthrough, else the manual PTT of the controller.
SetPtt ==
  /\ Command
  /\ button' = ~button
  /\ IF Voiced
     THEN /\ voice' = [voice EXCEPT !.talking = button']
          /\ IF button' # voice.talking THEN KeyFrom(voice, button') ELSE UNCHANGED rig
          /\ UNCHANGED modem
     ELSE ManualPtt(button') /\ UNCHANGED voice
  /\ UNCHANGED <<audio, transport, sinks, phase>>

AudioMonitor ==
  /\ Command
  /\ sinks' = IF Contains(sinks, "monitor")
              THEN SelectSeq(sinks, LAMBDA s : s # "monitor") ELSE Append(sinks, "monitor")
  /\ UNCHANGED <<audio, rig, voice, transport, modem, phase, button>>

\* open_audio: the new object exists before the old one is destroyed.
NewAddresses ==
  Devices \ ({audio.dev} \cup (IF ReuseAddress THEN {} ELSE {transport.vac}))

AudioOpen ==
  /\ Command
  /\ \/ \E d \in NewAddresses : audio' = [dev |-> d, source |-> "symbols"]
     \/ audio' = [dev |-> None, source |-> "symbols"]
  /\ UNCHANGED <<rig, voice, transport, sinks, modem, phase, button>>

AudioClose ==
  /\ Command /\ audio.dev # None
  /\ audio' = [dev |-> None, source |-> "symbols"]
  /\ UNCHANGED <<rig, voice, transport, sinks, modem, phase, button>>

\* RIG_CONNECT destroys the attached radio, whatever it is doing, before the
\* new one is made; RIG_DISCONNECT, or a failure, leaves none.
RigConnect ==
  /\ Command
  /\ \E d \in Devices \cup {None} : rig' = [dev |-> d, keyed |-> FALSE]
  /\ UNCHANGED <<audio, voice, transport, sinks, modem, phase, button>>

CommandsTaken ==
  /\ phase = "commands"
  /\ phase' = "update" /\ commands' = 0
  /\ UNCHANGED <<audio, rig, voice, transport, sinks, modem, button>>

-----------------------------------------------------------------------------
(* ALEController::update(): see AleTxPath for what is behind these steps *)

Updated == phase = "update" /\ phase' = "bind" /\ UNCHANGED <<transport, button, commands>>

Unkeyed == rig' = IF modem.manual THEN rig ELSE [rig EXCEPT !.keyed = FALSE]

Idle == Updated /\ UNCHANGED <<audio, rig, voice, sinks, modem>>

\* A burst: the controller keys the radio, if the manual PTT has not.
BurstBegins ==
  /\ Updated /\ modem.burst # "sending"
  /\ modem' = [modem EXCEPT !.burst = "sending"]
  /\ rig' = IF rig.dev = None \/ modem.manual THEN rig ELSE [rig EXCEPT !.keyed = TRUE]
  /\ UNCHANGED <<audio, voice, sinks>>

\* Its last word is rendered: the radio is released, at once or after the tail,
\* unless the manual PTT is on.
BurstEnds ==
  /\ Updated /\ modem.burst = "sending"
  /\ \/ modem' = [modem EXCEPT !.burst = "none"] /\ Unkeyed
     \/ ~modem.manual /\ modem' = [modem EXCEPT !.burst = "tail"] /\ UNCHANGED rig
  /\ UNCHANGED <<audio, voice, sinks>>

\* tick_ptt_timing
TailOver ==
  /\ Updated /\ modem.burst = "tail" /\ ~modem.manual
  /\ modem' = [modem EXCEPT !.burst = "none"] /\ Unkeyed
  /\ UNCHANGED <<audio, voice, sinks>>

\* ALE_LINK_ESTABLISHED and ALE_LINK_TERMINATED: the subscribers tell the
\* voice path.  A link may end in the middle of a burst.
LinkChanges ==
  /\ Updated /\ (modem.burst = "sending" => modem.link)
  /\ modem' = [modem EXCEPT !.link = ~@]
  /\ OnLinkState([voice EXCEPT !.linked = modem'.link])
  /\ UNCHANGED audio

-----------------------------------------------------------------------------
VoiceInit ==
  /\ audio = [dev |-> None, source |-> "symbols"]
  /\ rig = [dev |-> None, keyed |-> FALSE]
  /\ voice = [armed |-> FALSE, linked |-> FALSE, talking |-> FALSE, mode |-> "exclusive",
              radio |-> None]
  /\ transport = [vac |-> None, last |-> "symbols", protocol |-> FALSE, media |-> FALSE]
  /\ sinks = <<>>
  /\ modem = [link |-> FALSE, burst |-> "none", manual |-> FALSE]
  /\ phase = "bind" /\ commands = 0 /\ button = FALSE

VoiceNext ==
  \/ Bind \/ CommandsTaken
  \/ VoiceArm \/ SetPtt \/ AudioMonitor \/ AudioOpen \/ AudioClose \/ RigConnect
  \/ Idle \/ BurstBegins \/ BurstEnds \/ TailOver \/ LinkChanges

VoiceSpec == VoiceInit /\ [][VoiceNext]_vvars

-----------------------------------------------------------------------------
(* Properties *)

\* The radio is keyed for somebody: for a burst of the modem, by the manual
\* PTT, or by an operator who talks over a link.  In particular nobody talks,
\* and nothing stays keyed, once the link or the voice mode is gone.
KeyedForSomebody ==
  rig.keyed => modem.burst # "none" \/ modem.manual \/ MediaWanted(voice)

\* docs/VOICE_AUDIO_ROUTING.md gives the modem's bursts priority over voice:
\* the operator's PTT button does not take the radio from a burst.
BurstKeyed ==
  [][modem.burst = "sending" /\ modem'.burst = "sending" /\ rig.keyed /\ button' # button
     => rig'.keyed]_vvars
=============================================================================
