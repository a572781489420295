----------------------------- MODULE MCServices -----------------------------
(***************************************************************************)
(* Instances of the bridge's services for TLC.  The location relay, the    *)
(* position and flux feed, the voice path and the audio thread share no    *)
(* state, so each behaviour runs one of them and leaves the others in an   *)
(* initial state.                                                          *)
(***************************************************************************)
EXTENDS LocationRelay, GpsFeed, VoicePath, AudioLoop

Endpoints ==
  {[secure |-> TRUE, local |-> FALSE, trusted |-> TRUE],
   [secure |-> FALSE, local |-> FALSE, trusted |-> FALSE]}

VARIABLE focus  \* the service whose events happen

RelayOff ==
  RelayInit /\ sharing = [on |-> FALSE, url |-> CHOOSE u \in Urls : UrlAllowed(u), self |-> NoCall]
FeedOff == FeedInit /\ source = [pos |-> "NONE", flux |-> FALSE]

ServicesInit ==
  /\ VoiceInit /\ AudioInit
  /\ \/ focus = "relay" /\ RelayInit /\ FeedOff
     \/ focus = "feed"  /\ FeedInit /\ RelayOff
     \/ focus \in {"voice", "audio"} /\ RelayOff /\ FeedOff
  /\ loop = IF focus = "audio" THEN IdleLoop ELSE NoThread
  /\ focus = "audio" \/ driver = "alsa"

ServicesNext ==
  \/ focus = "relay" /\ RelayNext /\ UNCHANGED <<gvars, vvars, avars, focus>>
  \/ focus = "feed"  /\ FeedNext  /\ UNCHANGED <<rvars, vvars, avars, focus>>
  \/ focus = "voice" /\ VoiceNext /\ UNCHANGED <<rvars, gvars, avars, focus>>
  \/ focus = "audio" /\ AudioNext /\ UNCHANGED <<rvars, gvars, vvars, focus>>

ServicesSpec ==
  /\ ServicesInit /\ [][ServicesNext]_<<rvars, gvars, vvars, avars, focus>>
  /\ RelayFairness /\ AudioFairness
=============================================================================
