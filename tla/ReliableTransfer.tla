-------------------------- MODULE ReliableTransfer --------------------------
(***************************************************************************)
(* What a sender of numbered blocks promises: it comes to rest by itself   *)
(* only when the peer has every block of the message; else it has failed,  *)
(* or somebody has reset it.                                               *)
(***************************************************************************)
CONSTANT Labels   \* the blocks a message may consist of

VARIABLES status, want, got
tvars == <<status, want, got>>

TransferInit == status = "rest" /\ want = {} /\ got = {}

Begin == /\ status = "rest"
         /\ want' \in SUBSET Labels
         /\ status' = IF want' = {} THEN "rest" ELSE "busy"
         /\ got' = {}

Deliver == /\ \E k \in want : got' = got \cup {k}
           /\ UNCHANGED <<status, want>>

Finish == status = "busy" /\ want \subseteq got /\ status' = "rest" /\ UNCHANGED <<want, got>>

Fail == status' = "failed" /\ UNCHANGED <<want, got>>

Clear == status' = "rest" /\ want' = {} /\ got' = {}

TransferNext == Begin \/ Deliver \/ Finish \/ Fail \/ Clear

TransferSpec == TransferInit /\ [][TransferNext]_tvars
=============================================================================
