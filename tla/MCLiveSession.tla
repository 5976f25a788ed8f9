---------------------------- MODULE MCLiveSession ----------------------------
(* Instance of LiveSession for TLC. *)
EXTENDS LiveSession
==============================================================================
