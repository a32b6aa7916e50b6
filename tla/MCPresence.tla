----------------------------- MODULE MCPresence -----------------------------
(* Instance of Presence for TLC: the shipped cadence of 30, 5 and 90 seconds
   in ticks of 2.5 seconds. *)
EXTENDS Presence
=============================================================================
