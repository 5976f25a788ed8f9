------------------------------- MODULE MCAgent -------------------------------
(* Instances of Agent for TLC: the first two batches are the smaller ones.    *)
EXTENDS Agent

SizeOf == [b \in Batches |-> IF b <= 2 THEN 1 ELSE 2]
=============================================================================
