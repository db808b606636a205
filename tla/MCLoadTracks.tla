---------------------------- MODULE MCLoadTracks ----------------------------
(***************************************************************************)
(* A small instance of LoadTracks: two tracks, one of which has had        *)
(* another id, in lists of up to four, asked for two at a time.            *)
(***************************************************************************)
EXTENDS LoadTracks

Redirected == [a \in Ids |-> IF a = "old" THEN "new" ELSE a]
UpToFour == UNION {[1..n -> Ids] : n \in 0..4}
=============================================================================
