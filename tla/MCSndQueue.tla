----------------------------- MODULE MCSndQueue -----------------------------
(***************************************************************************)
(* A small instance of SndQueue: a list of a track that ends in a short    *)
(* substream, one that is a whole number of substreams long (so that an    *)
(* empty substream ends it) and one of a single packet.                    *)
(***************************************************************************)
EXTENDS SndQueue

ThreeTracks == <<5, 4, 1>>
=============================================================================
