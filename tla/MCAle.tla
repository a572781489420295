-------------------------------- MODULE MCAle --------------------------------
(***************************************************************************)
(* Instances of AleController for TLC.                                     *)
(***************************************************************************)
EXTENDS AleController

\* One station to call, with a one-word address.
OneTarget == {<<"b">>}
==============================================================================
