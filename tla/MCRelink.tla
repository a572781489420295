------------------------------ MODULE MCRelink ------------------------------
(* A station linked on a poor channel that knows a much better one. *)
EXTENDS FrequencySelect
Scores == [c \in Channels |-> IF c = 140000 THEN 25 ELSE IF c = 70655 THEN 20 ELSE 5]
=============================================================================
