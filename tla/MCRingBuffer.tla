---------------------------- MODULE MCRingBuffer ----------------------------
(* Instances of RingBuffer for TLC, with batches of one and of two bytes.    *)
EXTENDS RingBuffer

CONSTANTS short, long

SizeOf == [b \in Batches |-> IF b = long THEN 2 ELSE 1]
=============================================================================
