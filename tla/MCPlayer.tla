------------------------------ MODULE MCPlayer ------------------------------
(* A small instance of Player: two tracks, each ended by an empty substream; *)
(* short ones are in MCSndQueue.                                             *)
EXTENDS Player

TwoTracks == <<2, 1>>
=============================================================================
