------------------------------ MODULE MCRadio ------------------------------
(***************************************************************************)
(* Instances of the bridge's worker threads for TLC: the CAT worker with   *)
(* two channels that differ in everything a hop may change, the GUI server *)
(* and the tuner server.  They share no state, so each behaviour runs one  *)
(* of them and leaves the others in an initial state.                      *)
(***************************************************************************)
EXTENDS HamlibWorker, GuiServer, TunerServer

SomeChannels == {[f |-> 1, m |-> "USB", p |-> 100], [f |-> 2, m |-> "FMW", p |-> 10]}

VARIABLE focus  \* the thread whose events happen

WorkersInit == HamlibInit /\ GuiInit /\ TunerInit /\ focus \in {"radio", "gui", "tuner"}
WorkersNext ==
  \/ focus = "radio" /\ HamlibNext /\ UNCHANGED <<guivars, tvars, focus>>
  \/ focus = "gui"   /\ GuiNext    /\ UNCHANGED <<hvars, tvars, focus>>
  \/ focus = "tuner" /\ TunerNext  /\ UNCHANGED <<hvars, guivars, focus>>
WorkersSpec ==
  /\ WorkersInit /\ [][WorkersNext]_<<hvars, guivars, tvars, focus>>
  /\ HamlibFairness /\ GuiFairness
=============================================================================
