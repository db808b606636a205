---------------------------- MODULE MCChannelList ----------------------------
(***************************************************************************)
(* A small instance of ChannelList: three cells of memory, which only      *)
(* malloc tells apart.                                                     *)
(***************************************************************************)
EXTENDS ChannelList, TLC

CONSTANTS n1, n2, n3

Cells == {n1, n2, n3}
AnyCell == Permutations(Cells)
=============================================================================
