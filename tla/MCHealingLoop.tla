---------------------------- MODULE MCHealingLoop ----------------------------
(* Instances of HealingLoop for TLC. *)
EXTENDS HealingLoop, TLC

\* Threads, actions and incidents are interchangeable in the safety runs.
Symmetry ==
  Permutations(Threads) \cup Permutations(Actions) \cup Permutations(Incidents)
=============================================================================
