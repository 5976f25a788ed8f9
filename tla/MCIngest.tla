------------------------------- MODULE MCIngest -------------------------------
(* Instances of Ingest for TLC.                                               *)
EXTENDS Ingest

CONSTANTS b1, b2

\* b1 with either, both or none of the identifiers; b2, without any, takes room.
OneIdentified == {[b \in {b1, b2} |-> IF b = b1 THEN ids ELSE {}] : ids \in SUBSET Kinds}
=============================================================================
