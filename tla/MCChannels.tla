----------------------------- MODULE MCChannels -----------------------------
(***************************************************************************)
(* A small instance of Channels: one metadata, one substream and two key   *)
(* requests that overlap, so that ids are freed and reused in every order. *)
(* Four overlapping channels need one id more than a packet can tell apart.*)
(***************************************************************************)
EXTENDS Channels, TLC

CONSTANTS m1, s1, k1, k2

MCReq == {m1, s1, k1, k2}
MCKeyReq == {k1, k2}
MCStreamReq == {s1}
KeysAlike == Permutations(MCKeyReq)
=============================================================================
