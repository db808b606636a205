--------------------------- MODULE ChannelPackets ---------------------------
(***************************************************************************)
(* The requests a client multiplexes over its one connection, and the      *)
(* conversation the server holds about each of them.                       *)
(*                                                                         *)
(* Spotify's server is not part of the repository; its side is read off    *)
(* what the handlers accept (channel.c, handlers.c) and is external: a     *)
(* substream or a metadata request is answered by header packets, the last *)
(* one ending in a zero-length header, then by data packets and one empty  *)
(* packet; a CHANNELERR may cut the answer short at any point; a key       *)
(* request is answered by one AESKEY or one AESKEYERR.                     *)
(***************************************************************************)
EXTENDS Integers, Sequences

CONSTANTS
  Req,        \* the requests of a run, each made at most once
  KeyReq,     \* those made by cmd_aeskey
  StreamReq,  \* those made by cmd_getsubstreams; the rest ask for metadata
  MaxSaid     \* bound: packets a request is answered with before the answer must move on

ASSUME RequestAssumption ==
  /\ KeyReq \subseteq Req
  /\ StreamReq \subseteq Req
  /\ KeyReq \cap StreamReq = {}
  /\ MaxSaid \in Nat

What == {"headers", "lastHeader", "data", "empty", "error", "key", "keyError"}

\* The server's place in the conversation about one request.
SrvPhase == {"idle", "headers", "data", "key", "over", "lost"}

\* The packets after which the client tears the channel down.
Closing == {"empty", "error", "key", "keyError"}

FirstPhase(r) == IF r \in KeyReq THEN "key" ELSE "headers"

\* What the server may say in a phase, and the phase that follows.
Conversation ==
  { <<"headers", "headers", "headers">>, <<"headers", "lastHeader", "data">>,
    <<"headers", "error", "over">>,
    <<"data", "data", "data">>, <<"data", "empty", "over">>, <<"data", "error", "over">>,
    <<"key", "key", "over">>, <<"key", "keyError", "over">> }
=============================================================================
