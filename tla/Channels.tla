------------------------------ MODULE Channels ------------------------------
(***************************************************************************)
(* The channel layer of libdespotify: channel.c (the registry and          *)
(* channel_process), the dispatch of handlers.c and the requests of        *)
(* commands.c, over one ordered connection.                                *)
(*                                                                         *)
(* A channel is the table entry of the request that registered it.  The    *)
(* code keeps the entries in a linked list; every lookup takes the first   *)
(* entry with the wanted id, so with distinct ids (IdsDistinct) the order  *)
(* of the list cannot be observed and the list is a function here.         *)
(* Each function of channel.c is one step: this module is about the calls  *)
(* in every order, not about two threads inside the list at once.          *)
(***************************************************************************)
EXTENDS ChannelPackets

CONSTANTS
  IdSpace,   \* ids are ints in the list and 16-bit numbers in a packet: 65536 in the code
  MaxWire    \* bound: packets on their way at once

ASSUME IdSpaceAssumption == IdSpace \in Nat \ {0}
ASSUME MaxWireAssumption == MaxWire \in Nat \ {0}

VARIABLES
  id,      \* id[r]: the id of r's channel, None when r is not in the list
  state,   \* state[r]: the state field of r's channel
  next,    \* next_channel_id
  asked,   \* asked[r]: the id written into the request packet of r
  srv,     \* the server's place in the conversation about r
  said,    \* what the server has answered to r
  wire,    \* the packets on the connection that handle_packet has not taken yet
  view,    \* what channel_process has consumed for r
  crowded  \* observes only: three channels have been in the list at once

vars == <<id, state, next, asked, srv, said, wire, view, crowded>>
server == <<srv, said>>

None == -1
Live == {r \in Req : id[r] # None}
\* Slip: a lookup that takes any channel up to the wanted id.
LookupUpTo(i) == {r \in Live : id[r] <= i}

Lookup(i) == {r \in Live : id[r] = i}

\* "garbled" stands for what follows a packet the state does not expect: the
\* assertions of channel_process fail, or headers are taken for data.
ChannelState == {"none", "header", "data", "end", "error", "garbled"}

Packet == [id : Nat, what : What, req : Req, n : Nat]

Init ==
  /\ id = [r \in Req |-> None]
  /\ state = [r \in Req |-> "none"]
  /\ next = 0
  /\ asked = [r \in Req |-> None]
  /\ srv = [r \in Req |-> "idle"]
  /\ said = [r \in Req |-> <<>>]
  /\ wire = <<>>
  /\ view = [r \in Req |-> <<>>]
  /\ crowded = FALSE

-----------------------------------------------------------------------------
(* The registry. *)

\* "Pick a channel id and lazily set next to last available + 1": the counter
\* moves one past itself and past every id in the list.
Candidates == {next + 1} \cup {id[q] + 1 : q \in Live}
Advanced == {m \in Candidates : \A c \in Candidates : c <= m}

\* Slip: the counter stays where it is.
NotLowered(counter, freed) == counter

\* channel_unregister lowers the counter to a freed id that is below it.
Lowered(counter, freed) == IF freed < counter THEN freed ELSE counter

\* The state a new channel starts in: cmd_aeskey overrides CHANNEL_HEADER.
StartState(r) == IF r \in KeyReq THEN "data" ELSE "header"

\* The id a packet carries: the int of the channel cut to the 16 bits written by the
\* request and read by channel_by_id.  Nothing in channel_register keeps ids below that.
WireId(i) == i % IdSpace

-----------------------------------------------------------------------------
(* The requests. *)

\* Slip: the packet carries the next id instead of the channel's.
AskWithNextId(r) ==
  /\ srv[r] = "idle"
  /\ id' = [id EXCEPT ![r] = next]
  /\ state' = [state EXCEPT ![r] = StartState(r)]
  /\ next' \in Advanced
  /\ asked' = [asked EXCEPT ![r] = WireId(next')]
  /\ srv' = [srv EXCEPT ![r] = FirstPhase(r)]
  /\ UNCHANGED <<said, wire, view>>

\* A request function: register a channel, put its id into the packet, send it.
Ask(r) ==
  /\ srv[r] = "idle"
  /\ id' = [id EXCEPT ![r] = next]
  /\ state' = [state EXCEPT ![r] = StartState(r)]
  /\ next' \in Advanced
  /\ asked' = [asked EXCEPT ![r] = WireId(next)]
  /\ srv' = [srv EXCEPT ![r] = FirstPhase(r)]
  /\ UNCHANGED <<said, wire, view>>

\* packet_write fails in any request but cmd_getsubstreams: the channel stays
\* registered although nothing will ever answer it.
AskLeaks(r) ==
  /\ srv[r] = "idle"
  /\ r \notin StreamReq
  /\ id' = [id EXCEPT ![r] = next]
  /\ state' = [state EXCEPT ![r] = StartState(r)]
  /\ next' \in Advanced
  /\ srv' = [srv EXCEPT ![r] = "lost"]
  /\ UNCHANGED <<asked, said, wire, view>>

\* packet_write fails in cmd_getsubstreams: the channel just registered is
\* unregistered again.
AskUndone(r) ==
  /\ srv[r] = "idle"
  /\ r \in StreamReq
  /\ \E m \in Advanced : next' = Lowered(m, next)
  /\ srv' = [srv EXCEPT ![r] = "lost"]
  /\ UNCHANGED <<id, state, asked, said, wire, view>>

-----------------------------------------------------------------------------
(* The server. *)

Say(r, t) ==
  /\ srv[r] = t[1]
  /\ t[1] = t[3] => Len(said[r]) < MaxSaid
  /\ Len(wire) < MaxWire
  /\ said' = [said EXCEPT ![r] = Append(@, t[2])]
  /\ wire' = Append(wire, [id |-> asked[r], what |-> t[2], req |-> r, n |-> Len(said[r]) + 1])
  /\ srv' = [srv EXCEPT ![r] = t[3]]
  /\ UNCHANGED <<id, state, next, asked, view>>

Answer(r) == \E t \in Conversation : Say(r, t)

-----------------------------------------------------------------------------
(* handle_packet on the network thread, one packet per step. *)

Arrived == Head(wire)

\* The channel r that the packet's id names consumes it.
Take(r) ==
  /\ r \in Lookup(Arrived.id)
  /\ wire' = Tail(wire)
  /\ view' = [view EXCEPT ![r] = Append(@, Arrived.what)]

Unregister(r) ==
  /\ id' = [id EXCEPT ![r] = None]
  /\ next' = Lowered(next, id[r])

\* channel_process in CHANNEL_HEADER: each header goes to the callback; the
\* zero-length one moves the channel to CHANNEL_DATA.  A packet that is not made
\* of headers trips the assertions.
HandleHeaders(r) ==
  /\ Take(r)
  /\ Arrived.what \notin {"error", "key", "keyError"}
  /\ state[r] = "header"
  /\ state' = [state EXCEPT ![r] = CASE Arrived.what = "headers" -> "header"
                                     [] Arrived.what = "lastHeader" -> "data"
                                     [] OTHER -> "garbled"]
  /\ UNCHANGED <<id, next, asked, server>>

\* channel_process in CHANNEL_DATA, payload present.
HandleData(r) ==
  /\ Take(r)
  /\ Arrived.what \in {"headers", "lastHeader", "data"}
  /\ state[r] # "header"
  /\ state' = [state EXCEPT ![r] = IF Arrived.what = "data" THEN @ ELSE "garbled"]
  /\ UNCHANGED <<id, next, asked, server>>

\* An empty payload in CHANNEL_DATA: CHANNEL_END, the callback, unregister.
HandleEnd(r) ==
  /\ Take(r)
  /\ Arrived.what = "empty"
  /\ state[r] # "header"
  /\ state' = [state EXCEPT ![r] = "end"]
  /\ Unregister(r)
  /\ UNCHANGED <<asked, server>>

\* The same for the last substream of a track: despotify_substream_callback
\* asks for the key of track k while the ending channel is still in the list.
HandleEndAndAskKey(r, k) ==
  /\ Take(r)
  /\ Arrived.what = "empty"
  /\ state[r] # "header"
  /\ r \in StreamReq
  /\ srv[k] = "idle"
  /\ id' = [id EXCEPT ![k] = next, ![r] = None]
  /\ state' = [state EXCEPT ![k] = "data", ![r] = "end"]
  /\ \E m \in Advanced : next' = Lowered(m, id[r])
  /\ \/ /\ asked' = [asked EXCEPT ![k] = WireId(next)]
        /\ srv' = [srv EXCEPT ![k] = "key"]
     \/ /\ srv' = [srv EXCEPT ![k] = "lost"]
        /\ UNCHANGED asked
  /\ UNCHANGED said

\* CMD_CHANNELERR: CHANNEL_ERROR whatever the state was, the callback, unregister.
HandleError(r) ==
  /\ Take(r)
  /\ Arrived.what = "error"
  /\ state' = [state EXCEPT ![r] = "error"]
  /\ Unregister(r)
  /\ UNCHANGED <<asked, server>>

\* Slip: a key does not take the channel out of the list.
HandleKeyKeeps(r) ==
  /\ Take(r)
  /\ Arrived.what \in {"key", "keyError"}
  /\ UNCHANGED <<id, state, next, asked, server>>

\* CMD_AESKEY and CMD_AESKEYERR: the callback, or the client's error callback,
\* then unregister.
HandleKey(r) ==
  /\ Take(r)
  /\ Arrived.what \in {"key", "keyError"}
  /\ Unregister(r)
  /\ UNCHANGED <<state, asked, server>>

\* No channel has the packet's id: the packet is dropped.
HandleUnknown ==
  /\ wire' = Tail(wire)
  /\ UNCHANGED <<id, state, next, asked, server, view>>

HandlePacket ==
  /\ wire # <<>>
  /\ IF Lookup(Arrived.id) = {}
     THEN HandleUnknown
     ELSE \E r \in Req :
            \/ HandleHeaders(r) \/ HandleData(r) \/ HandleEnd(r)
            \/ HandleError(r) \/ HandleKey(r)
            \/ \E k \in KeyReq : HandleEndAndAskKey(r, k)

Crowd(S) == \E q, r, t \in S : q # r /\ r # t /\ q # t

\* Live \cup Live' also counts a channel that ends while the key it asks for is registered.
Observe == crowded' = (crowded \/ Crowd(Live \cup Live'))

Next ==
  /\ \/ \E r \in Req : Ask(r) \/ AskLeaks(r) \/ AskUndone(r) \/ Answer(r)
     \/ HandlePacket
  /\ Observe

Spec == Init /\ [][Next]_vars

-----------------------------------------------------------------------------
(* Properties. *)

\* Types of the variables.
TypeOK ==
  /\ id \in [Req -> Nat \cup {None}]
  /\ state \in [Req -> ChannelState]
  /\ next \in Nat
  /\ asked \in [Req -> Nat \cup {None}]
  /\ srv \in [Req -> SrvPhase]
  /\ said \in [Req -> Seq(What)]
  /\ wire \in Seq(Packet)
  /\ view \in [Req -> Seq(What)]

\* No two channels in the list share an id and the next id to hand out is not in
\* use, although freed ids are reused and the counter moves in both directions
\* (channel_register, channel_unregister).
IdsDistinct ==
  /\ \A q, r \in Live : q # r => id[q] # id[r]
  /\ \A r \in Live : id[r] # next

\* Every id in the list can be told from the others in a packet.  Once false, false for
\* ever: the answer to a channel past the 16 bits is never handed to it, so it stays.
Fits == \A r \in Live : id[r] < IdSpace

\* Until three channels overlap, only the ids 0 and 1 are ever used, however many requests
\* are made: each id freed lowers the counter again (channel_unregister).  With three the
\* ids may drift upwards without end, and Fits may fail.
NoDrift == crowded \/ \A r \in Live : id[r] <= 1

\* Every packet that is still on its way is addressed to a channel that is in the
\* list, and it is the channel of the request the packet answers: while the ids fit
\* into a packet, a reused one never hands a late packet to the wrong callback
\* (channel_process, channel_by_id).
RightChannel ==
  Fits => \A i \in DOMAIN wire : /\ wire[i].req \in Live
                               /\ wire[i].id = id[wire[i].req]

\* channel_process never trips over a packet its channel is not ready for: header
\* parsing only sees headers (its two assertions hold) and no header is handed to a
\* callback as data, while the ids fit into a packet.
NeverGarbled == Fits => \A r \in Req : state[r] # "garbled"

\* A channel that is in the list is one the server still owes an answer to, or one
\* whose request failed in packet_write; nothing else is left behind while the ids fit
\* into a packet.
OnlyFailedWritesLeak ==
  Fits => \A r \in Live :
            \/ srv[r] \in {"headers", "data", "key", "lost"}
            \/ \E i \in DOMAIN wire : wire[i].req = r /\ wire[i].what \in Closing

\* As long as the ids fit into a packet, the connection shared by all requests gives each
\* of them a private ordered pipe.
Pipes == INSTANCE ChannelPipes WITH open <- Live
ImplementsPipes == Pipes!Init /\ [][Fits' => Pipes!Next]_(Pipes!pvars)
=============================================================================
