------------------------------ MODULE MCSignal ------------------------------
(***************************************************************************)
(* Instances of the receive path for TLC: the code of a word, the words    *)
(* found in the samples, the occupancy of the channel, and what the        *)
(* controller makes of the words.  They share no state, so each behaviour  *)
(* runs one of them and leaves the others in their initial states.         *)
(***************************************************************************)
EXTENDS Reception, WordGrid, ChannelOccupancy, WordCodec

SomePayloads == {[upper |-> {0, 3, 11}, lower |-> {1, 2, 7, 10}]}

VARIABLE focus  \* the part whose events happen

SignalInit ==
  /\ ReceptionInit /\ GridInit /\ OccupancyInit /\ CodecInit
  /\ focus \in {"words", "grid", "occupancy", "codec"}

SignalNext ==
  \/ focus = "words"     /\ ReceptionNext /\ UNCHANGED <<gridvars, ovars, codecvars, focus>>
  \/ focus = "grid"      /\ GridNext      /\ UNCHANGED <<mvars, ovars, codecvars, focus>>
  \/ focus = "occupancy" /\ OccupancyNext /\ UNCHANGED <<mvars, gridvars, codecvars, focus>>
  \/ focus = "codec"     /\ CodecNext     /\ UNCHANGED <<mvars, gridvars, ovars, focus>>

SignalSpec == SignalInit /\ [][SignalNext]_<<mvars, gridvars, ovars, codecvars, focus>>
=============================================================================
