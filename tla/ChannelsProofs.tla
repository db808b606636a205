--------------------------- MODULE ChannelsProofs ---------------------------
(***************************************************************************)
(* Proofs about Channels, for any set of requests and any bounds: ids are  *)
(* distinct and stay 0 and 1 until three channels overlap; while the ids   *)
(* fit into a packet, every packet reaches the channel of its own request  *)
(* in a state that expects it, and the layer implements ChannelPipes.      *)
(***************************************************************************)
EXTENDS Channels, TLAPS

\* A request the server is answering has its channel in the list, under the id the
\* server was given; a request not made yet has none.
Addressed ==
  \A r \in Req : /\ srv[r] \in {"headers", "data", "key"} => r \in Live /\ asked[r] = id[r]
                 /\ srv[r] = "idle" => r \notin Live

\* The packet that closes a channel is the last one of its request: an id is free
\* again only when nothing addressed to it is on its way.
ClosingIsLast ==
  \A i \in DOMAIN wire :
    wire[i].what \in Closing => /\ srv[wire[i].req] = "over"
                                /\ \A j \in DOMAIN wire : i < j => wire[j].req # wire[i].req

\* The last header of packet i's request is still in front of it.
HeaderAhead(i) ==
  \E j \in DOMAIN wire : /\ j < i
                         /\ wire[j].req = wire[i].req
                         /\ wire[j].what = "lastHeader"

HeaderOnWire(r) == \E j \in DOMAIN wire : wire[j].req = r /\ wire[j].what = "lastHeader"

\* Each packet on its way will find its channel in the state that expects it.
Expected ==
  /\ \A i \in DOMAIN wire :
       /\ wire[i].what \in {"headers", "lastHeader"} => /\ state[wire[i].req] = "header"
                                                        /\ ~HeaderAhead(i)
       /\ wire[i].what \in {"data", "empty"} => state[wire[i].req] = "data" \/ HeaderAhead(i)
  /\ \A r \in Req :
       /\ srv[r] = "headers" => state[r] = "header" /\ ~HeaderOnWire(r)
       /\ srv[r] = "data" => state[r] = "data" \/ HeaderOnWire(r)

\* What holds even when an id no longer fits into a packet: a request not made yet has no
\* channel, and what the server was given and sends back is a number of 16 bits.
Made ==
  /\ \A r \in Req : /\ srv[r] = "idle" => r \notin Live
                    /\ srv[r] \in {"headers", "data", "key"} => asked[r] \in Nat /\ asked[r] < IdSpace
  /\ \A i \in DOMAIN wire : wire[i].id < IdSpace

Base == TypeOK /\ IdsDistinct /\ Made

\* None of the properties is inductive alone: that the lookup finds the right channel
\* needs distinct ids, that a freed id is safe to reuse needs ClosingIsLast, and that
\* a closing packet does close needs the channel's state to expect it.
Orderly ==
  /\ TypeOK /\ IdsDistinct /\ Fits /\ RightChannel /\ NeverGarbled /\ OnlyFailedWritesLeak
  /\ Addressed /\ ClosingIsLast /\ Expected

\* The inductive invariant: Base always, and all of it as long as the ids fit.
IInv == Base /\ (Fits => Orderly)

-----------------------------------------------------------------------------
(* Lemmas. *)

\* An id below the bound goes over the wire unchanged.
LEMMA WireIdIdentity ==
  ASSUME NEW i \in Nat, i < IdSpace
  PROVE  WireId(i) = i
BY IdSpaceAssumption DEF WireId

\* The counter after channel_register is a number above every id in use.
LEMMA AdvancedAbove ==
  ASSUME TypeOK, NEW m \in Advanced
  PROVE  m \in Nat /\ m > next /\ \A q \in Live : m > id[q]
<1>1. \A q \in Live : id[q] \in Nat
  BY DEF TypeOK, Live, None
<1>2. m \in Candidates /\ \A c \in Candidates : c <= m
  BY DEF Advanced
<1>3. m \in Nat
  BY <1>1, <1>2 DEF TypeOK, Candidates
<1> HIDE DEF Live
<1>4. next + 1 <= m
  BY <1>2 DEF Candidates
<1>5. ASSUME NEW q \in Live PROVE m > id[q]
  <2>1. id[q] + 1 <= m
    BY <1>2 DEF Candidates
  <2> QED
    BY <2>1, <1>1, <1>3
<1> QED
  BY <1>3, <1>4, <1>5 DEF TypeOK

\* Taking the head off the wire shifts the rest by one place.
LEMMA TailShifts ==
  ASSUME NEW s \in Seq(Packet), s # <<>>
  PROVE  /\ Tail(s) \in Seq(Packet)
         /\ \A i \in DOMAIN Tail(s) : i + 1 \in DOMAIN s /\ Tail(s)[i] = s[i + 1]
         /\ \A i \in DOMAIN s : i # 1 => i - 1 \in DOMAIN Tail(s) /\ Tail(s)[i - 1] = s[i]
         /\ 1 \in DOMAIN s /\ Head(s) = s[1]
         /\ \A i \in DOMAIN s : i \in Nat /\ i >= 1
         /\ \A i \in DOMAIN Tail(s) : i \in Nat /\ i >= 1
OBVIOUS

\* Sending a packet leaves those in front of it where they are.
LEMMA AppendKeeps ==
  ASSUME NEW s \in Seq(Packet), NEW p \in Packet
  PROVE  /\ Append(s, p) \in Seq(Packet)
         /\ DOMAIN Append(s, p) = DOMAIN s \cup {Len(s) + 1}
         /\ \A i \in DOMAIN s : Append(s, p)[i] = s[i] /\ i \in Nat /\ i < Len(s) + 1
         /\ Append(s, p)[Len(s) + 1] = p
OBVIOUS

\* The invariant holds before anything has been asked.
LEMMA InitIInv == Init => IInv
<1> SUFFICES ASSUME Init PROVE IInv
  OBVIOUS
<1>1. DOMAIN wire = {}
  BY DEF Init
<1> QED
  BY <1>1 DEF Init, IInv, Base, Made, Orderly, TypeOK, IdsDistinct, Fits, RightChannel,
     NeverGarbled, OnlyFailedWritesLeak,
     Addressed, ClosingIsLast, Expected, HeaderAhead, HeaderOnWire, Live, None, ChannelState,
     SrvPhase

-----------------------------------------------------------------------------
(* A request is made. *)

\* Registering a channel keeps the invariant, whether or not the request is sent.
LEMMA AskKeeps ==
  ASSUME Orderly, Fits', NEW r \in Req, Ask(r) \/ AskLeaks(r)
  PROVE  Orderly'
<1> USE DEF Orderly
<1>0. next < IdSpace
  <2>1. id' = [id EXCEPT ![r] = next] /\ next \in Nat /\ id \in [Req -> Nat \cup {None}]
    BY DEF Ask, AskLeaks, TypeOK
  <2>2. id'[r] = next /\ r \in Live'
    BY <2>1 DEF Live, None
  <2> QED
    BY <2>2 DEF Fits
<1>1. /\ srv[r] = "idle" /\ next < IdSpace
      /\ id' = [id EXCEPT ![r] = next]
      /\ state' = [state EXCEPT ![r] = StartState(r)]
      /\ next' \in Advanced
      /\ UNCHANGED <<said, wire, view>>
      /\ \/ srv' = [srv EXCEPT ![r] = "lost"] /\ asked' = asked
         \/ srv' = [srv EXCEPT ![r] = FirstPhase(r)] /\ asked' = [asked EXCEPT ![r] = next]
  BY <1>0, WireIdIdentity DEF Ask, AskLeaks, TypeOK
<1>2. next' \in Nat /\ next' > next /\ \A q \in Live : next' > id[q]
  BY <1>1, AdvancedAbove
<1>3. TypeOK'
  BY <1>1, <1>2 DEF TypeOK, StartState, FirstPhase, ChannelState, SrvPhase
<1>4. r \notin Live /\ Live' = Live \cup {r}
  BY <1>1 DEF Addressed, TypeOK, Live, None
<1>5. id'[r] = next /\ \A q \in Req \ {r} : /\ id'[q] = id[q]
                                             /\ state'[q] = state[q]
                                             /\ srv'[q] = srv[q]
                                             /\ asked'[q] = asked[q]
  BY <1>1 DEF TypeOK
<1>6. \A i \in DOMAIN wire : wire[i].req \in Req \ {r}
  BY <1>4 DEF RightChannel, Live
<1>7. IdsDistinct'
  <2>1. \A q \in Live : q # r /\ id'[q] = id[q] /\ id[q] # next /\ id[q] < next' /\ id[q] \in Nat
    BY <1>2, <1>4, <1>5 DEF IdsDistinct, TypeOK, Live, None
  <2>2. \A q, s \in Live : q # s => id'[q] # id'[s]
    BY <2>1 DEF IdsDistinct
  <2> HIDE DEF Orderly
  <2> QED
    BY <1>2, <1>4, <1>5, <2>1, <2>2 DEF IdsDistinct
<1>8. RightChannel'
  BY <1>1, <1>4, <1>5, <1>6 DEF RightChannel
<1>9. NeverGarbled'
  BY <1>1 DEF NeverGarbled, TypeOK, StartState
<1>10. OnlyFailedWritesLeak'
  BY <1>1, <1>4, <1>5 DEF OnlyFailedWritesLeak, TypeOK, FirstPhase, Live
<1>11. Addressed'
  BY <1>1, <1>4, <1>5 DEF Addressed, TypeOK, FirstPhase
<1>12. ClosingIsLast'
  BY <1>1, <1>5, <1>6 DEF ClosingIsLast
<1>13. Expected'
  <2>1. ~HeaderOnWire(r)
    BY <1>6 DEF HeaderOnWire
  <2>2. \A i : HeaderAhead(i)' = HeaderAhead(i)
    BY <1>1 DEF HeaderAhead
  <2>3. \A q : HeaderOnWire(q)' = HeaderOnWire(q)
    BY <1>1 DEF HeaderOnWire
  <2>4. srv'[r] = "headers" => state'[r] = "header"
    BY <1>1, RequestAssumption DEF FirstPhase, StartState, TypeOK
  <2>5. srv'[r] # "data"
    BY <1>1 DEF FirstPhase, TypeOK
  <2> QED
    BY <1>1, <1>5, <1>6, <2>1, <2>2, <2>3, <2>4, <2>5 DEF Expected
<1> QED
  BY <1>3, <1>7, <1>8, <1>9, <1>10, <1>11, <1>12, <1>13

\* Undoing a registration keeps the invariant.
LEMMA UndoneKeeps ==
  ASSUME Orderly, Fits', NEW r \in Req, AskUndone(r)
  PROVE  Orderly'
<1> USE DEF Orderly
<1>1. PICK m \in Advanced : next' = Lowered(m, next)
  BY DEF AskUndone
<1>2. m \in Nat /\ m > next
  BY AdvancedAbove
<1>3. next' = next
  BY <1>1, <1>2 DEF Lowered, TypeOK
<1>4. /\ srv[r] = "idle"
      /\ srv' = [srv EXCEPT ![r] = "lost"]
      /\ UNCHANGED <<id, state, asked, said, wire, view>>
  BY DEF AskUndone
<1>5. r \notin Live /\ Live' = Live
  BY <1>4 DEF Addressed, Live
<1>6. \A i \in DOMAIN wire : wire[i].req \in Req \ {r}
  BY <1>5 DEF RightChannel, Live
<1>7. \A i, q : HeaderAhead(i)' = HeaderAhead(i) /\ HeaderOnWire(q)' = HeaderOnWire(q)
  BY <1>4 DEF HeaderAhead, HeaderOnWire
<1>8. TypeOK'
  BY <1>3, <1>4 DEF TypeOK, SrvPhase
<1>9. IdsDistinct' /\ RightChannel' /\ NeverGarbled'
  BY <1>3, <1>4, <1>5 DEF IdsDistinct, RightChannel, NeverGarbled
<1>10. OnlyFailedWritesLeak' /\ Addressed'
  BY <1>4, <1>5 DEF OnlyFailedWritesLeak, Addressed, TypeOK
<1>11. ClosingIsLast'
  BY <1>4, <1>6 DEF ClosingIsLast, TypeOK
<1>12. Expected'
  BY <1>4, <1>6, <1>7 DEF Expected, TypeOK
<1> QED
  BY <1>8, <1>9, <1>10, <1>11, <1>12

-----------------------------------------------------------------------------
(* The server speaks. *)

\* A packet of the server is addressed to a channel in the list and comes last.
LEMMA SayKeeps ==
  ASSUME Orderly, Fits', NEW r \in Req, NEW t \in Conversation, Say(r, t)
  PROVE  Orderly'
<1> USE DEF Orderly
<1> DEFINE p == [id |-> asked[r], what |-> t[2], req |-> r, n |-> Len(said[r]) + 1]
<1>1. /\ srv[r] = t[1]
      /\ said' = [said EXCEPT ![r] = Append(@, t[2])]
      /\ wire' = Append(wire, p)
      /\ srv' = [srv EXCEPT ![r] = t[3]]
      /\ UNCHANGED <<id, state, next, asked, view>>
  BY DEF Say
<1>2. /\ t[1] \in {"headers", "data", "key"}
      /\ t[2] \in What
      /\ t[3] \in {"headers", "data", "key", "over"}
      /\ t[2] \in Closing <=> t[3] = "over"
      /\ t[3] = "headers" => t[1] = "headers" /\ t[2] = "headers"
      /\ t[3] = "data" /\ t[1] = "headers" => t[2] = "lastHeader"
      /\ t[3] = "data" => t[1] \in {"headers", "data"} /\ t[2] # "headers"
      /\ t[3] = "data" /\ t[1] = "data" => t[2] = "data"
      /\ t[2] \in {"headers", "lastHeader"} => t[1] = "headers"
      /\ t[2] \in {"data", "empty"} => t[1] = "data"
  BY DEF Conversation, What, Closing
<1>3. r \in Live /\ asked[r] = id[r] /\ id[r] \in Nat /\ Live' = Live
  BY <1>1, <1>2 DEF Addressed, TypeOK, Live, None
<1>4. p \in Packet
  BY <1>2, <1>3 DEF Packet, TypeOK
<1>5. /\ wire' \in Seq(Packet)
      /\ DOMAIN wire' = DOMAIN wire \cup {Len(wire) + 1}
      /\ \A i \in DOMAIN wire : wire'[i] = wire[i] /\ i \in Nat /\ i < Len(wire) + 1
      /\ wire'[Len(wire) + 1] = p
      /\ Len(wire) \in Nat
  BY <1>1, <1>4, AppendKeeps DEF TypeOK
<1> HIDE DEF p
<1>6. p.id = id[r] /\ p.what = t[2] /\ p.req = r
  BY <1>3 DEF p
<1>7. /\ srv'[r] = t[3]
      /\ \A q \in Req \ {r} : srv'[q] = srv[q]
  BY <1>1 DEF TypeOK
<1>8. TypeOK'
  BY <1>1, <1>2, <1>5 DEF TypeOK, SrvPhase
<1>9. IdsDistinct' /\ NeverGarbled'
  BY <1>1, <1>3 DEF IdsDistinct, NeverGarbled
<1>10. RightChannel'
  BY <1>1, <1>3, <1>5, <1>6 DEF RightChannel
<1>11. OnlyFailedWritesLeak'
  BY <1>2, <1>3, <1>5, <1>6, <1>7 DEF OnlyFailedWritesLeak, Live
<1>12. Addressed'
  BY <1>1, <1>2, <1>3, <1>7 DEF Addressed
<1>13. \A i \in DOMAIN wire : wire[i].req \in Req /\ (wire[i].what \in Closing => wire[i].req # r)
  BY <1>1, <1>2 DEF ClosingIsLast, RightChannel, Live
<1>14. ClosingIsLast'
  BY <1>2, <1>5, <1>6, <1>7, <1>13 DEF ClosingIsLast
<1>15. Expected'
  <2>1. \A i \in DOMAIN wire : HeaderAhead(i)' <=> HeaderAhead(i)
    BY <1>5 DEF HeaderAhead
  <2>2. ASSUME NEW i, i = Len(wire) + 1 PROVE HeaderAhead(i)' <=> HeaderOnWire(r)
    BY <1>5, <1>6, <2>2 DEF HeaderAhead, HeaderOnWire
  <2>3. \A q \in Req : HeaderOnWire(q)' <=> (HeaderOnWire(q) \/ (q = r /\ t[2] = "lastHeader"))
    BY <1>5, <1>6 DEF HeaderOnWire
  <2>4. /\ t[1] = "headers" => state[r] = "header" /\ ~HeaderOnWire(r)
        /\ t[1] = "data" => state[r] = "data" \/ HeaderOnWire(r)
    BY <1>1 DEF Expected
  <2>5. ASSUME NEW i \in DOMAIN wire'
        PROVE  /\ wire'[i].what \in {"headers", "lastHeader"} => /\ state'[wire'[i].req] = "header"
                                                                  /\ ~HeaderAhead(i)'
               /\ wire'[i].what \in {"data", "empty"} =>
                    state'[wire'[i].req] = "data" \/ HeaderAhead(i)'
    <3>1. CASE i \in DOMAIN wire
      BY <3>1, <1>1, <1>5, <2>1 DEF Expected
    <3>2. CASE i = Len(wire) + 1
      BY <3>2, <1>1, <1>2, <1>5, <1>6, <2>2, <2>4
    <3> QED
      BY <3>1, <3>2, <1>5
  <2>6. ASSUME NEW q \in Req
        PROVE  /\ srv'[q] = "headers" => state'[q] = "header" /\ ~HeaderOnWire(q)'
               /\ srv'[q] = "data" => state'[q] = "data" \/ HeaderOnWire(q)'
    BY <1>1, <1>2, <1>7, <2>3, <2>4 DEF Expected
  <2> QED
    BY <2>5, <2>6 DEF Expected
<1> QED
  BY <1>8, <1>9, <1>10, <1>11, <1>12, <1>14, <1>15

-----------------------------------------------------------------------------
(* A packet is handled. *)

\* What taking the head off the wire does to the headers that are still to come.
LEMMA HeadersShift ==
  ASSUME TypeOK, wire # <<>>, wire' = Tail(wire)
  PROVE  /\ \A i \in DOMAIN wire' :
              /\ HeaderAhead(i)' => HeaderAhead(i + 1)
              /\ HeaderAhead(i + 1) => \/ HeaderAhead(i)'
                                       \/ wire[1].req = wire[i + 1].req /\ wire[1].what = "lastHeader"
         /\ \A q :
              /\ HeaderOnWire(q)' => HeaderOnWire(q)
              /\ HeaderOnWire(q) => \/ HeaderOnWire(q)'
                                    \/ wire[1].req = q /\ wire[1].what = "lastHeader"
<1>1. /\ \A i \in DOMAIN wire' : i \in Nat /\ i + 1 \in DOMAIN wire /\ wire'[i] = wire[i + 1]
      /\ \A i \in DOMAIN wire : i # 1 => i - 1 \in DOMAIN wire' /\ wire'[i - 1] = wire[i]
      /\ \A i \in DOMAIN wire : i \in Nat /\ i >= 1
  BY TailShifts DEF TypeOK
<1>2. ASSUME NEW i \in DOMAIN wire', HeaderAhead(i)'
      PROVE  HeaderAhead(i + 1)
  <2>1. PICK j \in DOMAIN wire' : j < i /\ wire'[j].req = wire'[i].req /\ wire'[j].what = "lastHeader"
    BY <1>2 DEF HeaderAhead
  <2>2. j + 1 \in DOMAIN wire /\ j + 1 < i + 1
    BY <1>1, <2>1
  <2> QED
    BY <1>1, <2>1, <2>2 DEF HeaderAhead
<1>3. ASSUME NEW i \in DOMAIN wire', HeaderAhead(i + 1),
             ~(wire[1].req = wire[i + 1].req /\ wire[1].what = "lastHeader")
      PROVE  HeaderAhead(i)'
  <2>1. PICK j \in DOMAIN wire :
          j < i + 1 /\ wire[j].req = wire[i + 1].req /\ wire[j].what = "lastHeader"
    BY <1>3 DEF HeaderAhead
  <2>2. j # 1
    BY <1>3, <2>1
  <2>3. j - 1 \in DOMAIN wire' /\ wire'[j - 1] = wire[j] /\ j - 1 < i
    BY <1>1, <2>1, <2>2
  <2> QED
    BY <1>1, <2>1, <2>3 DEF HeaderAhead
<1>4. ASSUME NEW q, HeaderOnWire(q)'
      PROVE  HeaderOnWire(q)
  BY <1>1, <1>4 DEF HeaderOnWire
<1>5. ASSUME NEW q, HeaderOnWire(q), ~(wire[1].req = q /\ wire[1].what = "lastHeader")
      PROVE  HeaderOnWire(q)'
  <2>1. PICK j \in DOMAIN wire : wire[j].req = q /\ wire[j].what = "lastHeader"
    BY <1>5 DEF HeaderOnWire
  <2>2. j # 1
    BY <1>5, <2>1
  <2>3. j - 1 \in DOMAIN wire' /\ wire'[j - 1] = wire[j]
    BY <1>1, <2>1, <2>2
  <2> QED
    BY <2>1, <2>3 DEF HeaderOnWire
<1> QED
  BY <1>2, <1>3, <1>4, <1>5

\* The lookup finds the channel of the request the packet answers, and no other.
LEMMA HeadFound ==
  ASSUME Orderly, wire # <<>>
  PROVE  /\ wire[1].req \in Live
         /\ Arrived = wire[1] /\ Arrived \in Packet
         /\ 1 \in DOMAIN wire
         /\ Lookup(Arrived.id) = {wire[1].req}
<1>1. Arrived = wire[1] /\ 1 \in DOMAIN wire /\ Arrived \in Packet
  BY TailShifts DEF Orderly, TypeOK, Arrived
<1>2. wire[1].req \in Live /\ wire[1].id = id[wire[1].req]
  BY <1>1 DEF Orderly, RightChannel
<1>3. \A q \in Live : q # wire[1].req => id[q] # id[wire[1].req]
  BY <1>2 DEF Orderly, IdsDistinct
<1> HIDE DEF Live
<1>4. Lookup(Arrived.id) = {wire[1].req}
  BY <1>1, <1>2, <1>3 DEF Lookup
<1> QED
  BY <1>1, <1>2, <1>4

\* The packet that goes on with an answer leaves the list alone and moves its channel
\* along; the one that ends it takes the channel out of the list.
GoesOn(r) ==
  /\ wire[1].what \in {"headers", "lastHeader", "data"}
  /\ state' = [state EXCEPT ![r] = IF wire[1].what = "headers" THEN "header" ELSE "data"]
  /\ UNCHANGED <<id, next, asked, srv, said>>

Closes(r) ==
  /\ wire[1].what \in Closing
  /\ \E st \in ChannelState \ {"garbled"} : state' = [state EXCEPT ![r] = st]
  /\ Unregister(r)
  /\ UNCHANGED <<asked, srv, said>>

\* Every branch of handle_packet consumes the head of the wire for its own request,
\* and then the request goes on, closes, or closes and asks for a key.
LEMMA PacketHandled ==
  ASSUME Orderly, HandlePacket, NEW r, r = wire[1].req
  PROVE  /\ wire # <<>>
         /\ wire' = Tail(wire)
         /\ view' = [view EXCEPT ![r] = Append(@, wire[1].what)]
         /\ GoesOn(r) \/ Closes(r) \/ \E k \in KeyReq : HandleEndAndAskKey(r, k)
<1>1. wire # <<>>
  BY DEF HandlePacket
<1>2. r \in Live /\ r \in Req /\ Arrived = wire[1] /\ Arrived \in Packet /\ 1 \in DOMAIN wire
      /\ Lookup(Arrived.id) = {r}
  BY <1>1, HeadFound DEF Live
<1>3. HandleHeaders(r) \/ HandleData(r) \/ HandleEnd(r) \/ HandleError(r) \/ HandleKey(r)
      \/ \E k \in KeyReq : HandleEndAndAskKey(r, k)
  <2>1. PICK q \in Req :
          \/ HandleHeaders(q) \/ HandleData(q) \/ HandleEnd(q) \/ HandleError(q) \/ HandleKey(q)
          \/ \E k \in KeyReq : HandleEndAndAskKey(q, k)
    BY <1>2 DEF HandlePacket
  <2>2. q \in Lookup(Arrived.id)
    BY <2>1 DEF HandleHeaders, HandleData, HandleEnd, HandleError, HandleKey,
                HandleEndAndAskKey, Take
  <2>3. q = r
    BY <1>2, <2>2
  <2> QED
    BY <2>1, <2>3
<1>4. ~HeaderAhead(1)
  BY <1>1, TailShifts DEF HeaderAhead, Orderly, TypeOK
<1>5. /\ wire[1].what \in {"headers", "lastHeader"} => state[r] = "header"
      /\ wire[1].what \in {"data", "empty"} => state[r] = "data"
  BY <1>2, <1>4 DEF Orderly, Expected
<1>6. wire[1].what \in What
  BY <1>2 DEF Packet
<1>7. state \in [Req -> ChannelState]
  BY DEF Orderly, TypeOK
<1>8. CASE HandleHeaders(r)
  BY <1>8, <1>1, <1>2, <1>5, <1>6, <1>7 DEF HandleHeaders, Take, GoesOn, server, What
<1>9. CASE HandleData(r)
  <2>1. wire[1].what = "data" /\ state[r] = "data"
    BY <1>9, <1>2, <1>5 DEF HandleData
  <2>2. state' = [state EXCEPT ![r] = "data"]
    BY <1>9, <1>2, <1>7, <2>1 DEF HandleData
  <2> QED
    BY <1>9, <1>1, <1>2, <2>1, <2>2 DEF HandleData, Take, GoesOn, server
<1>10. CASE HandleEnd(r)
  BY <1>10, <1>1, <1>2 DEF HandleEnd, Take, Closes, server, Closing, ChannelState
<1>11. CASE HandleError(r)
  BY <1>11, <1>1, <1>2 DEF HandleError, Take, Closes, server, Closing, ChannelState
<1>12. CASE HandleKey(r)
  <2>1. state[r] # "garbled" /\ state[r] \in ChannelState
    BY <1>2, <1>7 DEF Orderly, NeverGarbled
  <2>2. state' = [state EXCEPT ![r] = state[r]]
    BY <1>12, <1>7 DEF HandleKey
  <2> QED
    BY <1>12, <1>1, <1>2, <2>1, <2>2 DEF HandleKey, Take, Closes, server, Closing
<1>13. CASE \E k \in KeyReq : HandleEndAndAskKey(r, k)
  BY <1>13, <1>1, <1>2 DEF HandleEndAndAskKey, Take
<1> QED
  BY <1>3, <1>8, <1>9, <1>10, <1>11, <1>12, <1>13

\* A packet that goes on with an answer keeps the invariant.
LEMMA GoesOnKeeps ==
  ASSUME Orderly, Fits', wire # <<>>, wire' = Tail(wire), NEW r, r = wire[1].req,
         view' = [view EXCEPT ![r] = Append(@, wire[1].what)], GoesOn(r)
  PROVE  Orderly'
<1> USE DEF Orderly
<1>1. r \in Live /\ r \in Req /\ 1 \in DOMAIN wire /\ wire[1] \in Packet
  BY HeadFound DEF Live
<1>2. /\ wire' \in Seq(Packet)
      /\ \A i \in DOMAIN wire' : i \in Nat /\ i + 1 \in DOMAIN wire /\ wire'[i] = wire[i + 1]
      /\ \A i \in DOMAIN wire : i # 1 => i - 1 \in DOMAIN wire' /\ wire'[i - 1] = wire[i]
      /\ \A i \in DOMAIN wire : i \in Nat /\ i >= 1
  BY TailShifts DEF TypeOK
<1>3. /\ UNCHANGED <<id, next, asked, srv, said>>
      /\ Live' = Live
      /\ state'[r] = IF wire[1].what = "headers" THEN "header" ELSE "data"
      /\ \A q \in Req : q # r => state'[q] = state[q]
      /\ wire[1].what \in {"headers", "lastHeader", "data"}
  BY <1>1 DEF GoesOn, TypeOK, Live
<1>4. TypeOK'
  <2>1. state' \in [Req -> ChannelState]
    BY <1>1 DEF TypeOK, GoesOn, ChannelState
  <2>2. wire[1].what \in What
    BY <1>1 DEF Packet
  <2>3. view' \in [Req -> Seq(What)]
    BY <1>1, <2>2 DEF TypeOK
  <2> QED
    BY <1>2, <1>3, <2>1, <2>3 DEF TypeOK
<1>5. IdsDistinct' /\ Addressed'
  BY <1>3 DEF IdsDistinct, Addressed
<1>6. RightChannel'
  BY <1>2, <1>3 DEF RightChannel
<1>7. NeverGarbled'
  BY <1>3 DEF NeverGarbled
<1>8. OnlyFailedWritesLeak'
  <2> SUFFICES ASSUME NEW q \in Live, srv[q] \notin {"headers", "data", "key", "lost"}
               PROVE  \E i \in DOMAIN wire' : wire'[i].req = q /\ wire'[i].what \in Closing
    BY <1>3 DEF OnlyFailedWritesLeak
  <2>1. PICK i \in DOMAIN wire : wire[i].req = q /\ wire[i].what \in Closing
    BY DEF OnlyFailedWritesLeak
  <2>2. i # 1
    BY <1>3, <2>1 DEF Closing
  <2> QED
    BY <1>2, <2>1, <2>2
<1>9. ClosingIsLast'
  <2> SUFFICES ASSUME NEW i \in DOMAIN wire', wire'[i].what \in Closing
               PROVE  /\ srv[wire'[i].req] = "over"
                      /\ \A j \in DOMAIN wire' : i < j => wire'[j].req # wire'[i].req
    BY <1>3 DEF ClosingIsLast
  <2>1. \A j \in DOMAIN wire' : i < j => i + 1 < j + 1
    BY <1>2
  <2> QED
    BY <1>2, <2>1 DEF ClosingIsLast
<1>10. Expected'
  <2>1. \A i \in DOMAIN wire' : wire'[i].req \in Req
    BY <1>2 DEF RightChannel, Live
  <2>2. wire[1].what \in {"headers", "lastHeader"} => state[r] = "header"
    BY <1>1 DEF Expected
  <2>3. wire[1].what = "data" => state[r] = "data"
    <3>1. ~HeaderAhead(1)
      BY <1>2 DEF HeaderAhead
    <3> QED
      BY <1>1, <3>1 DEF Expected
  <2>4. wire[1].what # "lastHeader" => state'[r] = state[r]
    BY <1>3, <2>2, <2>3
  <2>5. ASSUME NEW i \in DOMAIN wire'
        PROVE  /\ wire'[i].what \in {"headers", "lastHeader"} => /\ state'[wire'[i].req] = "header"
                                                                  /\ ~HeaderAhead(i)'
               /\ wire'[i].what \in {"data", "empty"} =>
                    state'[wire'[i].req] = "data" \/ HeaderAhead(i)'
    <3> DEFINE q == wire[i + 1].req
    <3>1. i + 1 \in DOMAIN wire /\ wire'[i] = wire[i + 1] /\ q \in Req
      BY <1>2, <2>1
    <3>2. /\ wire[i + 1].what \in {"headers", "lastHeader"} => /\ state[q] = "header"
                                                               /\ ~HeaderAhead(i + 1)
          /\ wire[i + 1].what \in {"data", "empty"} => state[q] = "data" \/ HeaderAhead(i + 1)
      BY <3>1 DEF Expected
    <3>3. /\ HeaderAhead(i)' => HeaderAhead(i + 1)
          /\ HeaderAhead(i + 1) => HeaderAhead(i)' \/ (r = q /\ wire[1].what = "lastHeader")
      BY HeadersShift
    <3>4. q = r /\ wire[1].what = "lastHeader" => HeaderAhead(i + 1)
      BY <1>1, <1>2, <3>1 DEF HeaderAhead
    <3> HIDE DEF q, Orderly
    <3>5. CASE q = r /\ wire[1].what = "lastHeader"
      <4>1. state'[q] = "data"
        BY <3>5, <1>3
      <4>2. wire[i + 1].what \notin {"headers", "lastHeader"}
        BY <3>2, <3>4, <3>5
      <4> QED
        BY <4>1, <4>2, <3>1 DEF q
    <3>6. CASE ~(q = r /\ wire[1].what = "lastHeader")
      <4>1. state'[q] = state[q]
        BY <3>6, <3>1, <1>3, <2>4
      <4> QED
        BY <4>1, <3>1, <3>2, <3>3, <3>6 DEF q
    <3> QED
      BY <3>5, <3>6
  <2>6. ASSUME NEW q \in Req
        PROVE  /\ srv'[q] = "headers" => state'[q] = "header" /\ ~HeaderOnWire(q)'
               /\ srv'[q] = "data" => state'[q] = "data" \/ HeaderOnWire(q)'
    <3>1. /\ srv[q] = "headers" => state[q] = "header" /\ ~HeaderOnWire(q)
          /\ srv[q] = "data" => state[q] = "data" \/ HeaderOnWire(q)
      BY DEF Expected
    <3>2. /\ HeaderOnWire(q)' => HeaderOnWire(q)
          /\ HeaderOnWire(q) => HeaderOnWire(q)' \/ (r = q /\ wire[1].what = "lastHeader")
      BY HeadersShift
    <3>3. q = r /\ wire[1].what = "lastHeader" => HeaderOnWire(q)
      BY <1>1 DEF HeaderOnWire
    <3> HIDE DEF Orderly
    <3> QED
      BY <1>3, <2>4, <3>1, <3>2, <3>3
  <2> QED
    BY <2>5, <2>6 DEF Expected
<1> QED
  BY <1>4, <1>5, <1>6, <1>7, <1>8, <1>9, <1>10

\* What is left on the wire when the packet that ends r's answer has been taken: nothing
\* of r, and everything else as it was.
LEMMA AfterClosing ==
  ASSUME Orderly, wire # <<>>, wire' = Tail(wire), NEW r, r = wire[1].req, wire[1].what \in Closing
  PROVE  /\ r \in Live /\ srv[r] = "over"
         /\ wire' \in Seq(Packet)
         /\ \A i \in DOMAIN wire' : wire'[i].req \in Live \ {r} /\ wire'[i].id = id[wire'[i].req]
         /\ \A i \in DOMAIN wire' :
              wire'[i].what \in Closing =>
                /\ srv[wire'[i].req] = "over"
                /\ \A j \in DOMAIN wire' : i < j => wire'[j].req # wire'[i].req
         /\ \A i \in DOMAIN wire' :
              /\ wire'[i].what \in {"headers", "lastHeader"} => /\ state[wire'[i].req] = "header"
                                                                 /\ ~HeaderAhead(i)'
              /\ wire'[i].what \in {"data", "empty"} =>
                   state[wire'[i].req] = "data" \/ HeaderAhead(i)'
         /\ \A q \in Req :
              /\ srv[q] = "headers" => state[q] = "header" /\ ~HeaderOnWire(q)'
              /\ srv[q] = "data" => state[q] = "data" \/ HeaderOnWire(q)'
         /\ \A q \in Live \ {r} :
              \/ srv[q] \in {"headers", "data", "key", "lost"}
              \/ \E i \in DOMAIN wire' : wire'[i].req = q /\ wire'[i].what \in Closing
<1> USE DEF Orderly
<1>1. r \in Live /\ 1 \in DOMAIN wire
  BY HeadFound
<1>2. /\ wire' \in Seq(Packet)
      /\ \A i \in DOMAIN wire' : i \in Nat /\ i >= 1 /\ i + 1 \in DOMAIN wire /\ wire'[i] = wire[i + 1]
      /\ \A i \in DOMAIN wire : i # 1 => i - 1 \in DOMAIN wire' /\ wire'[i - 1] = wire[i]
      /\ \A i \in DOMAIN wire : i \in Nat /\ i >= 1
  BY TailShifts DEF TypeOK
<1>3. srv[r] = "over"
  BY <1>1 DEF ClosingIsLast
<1>4. \A i \in DOMAIN wire' : wire'[i].req \in Live \ {r} /\ wire'[i].id = id[wire'[i].req]
  BY <1>1, <1>2 DEF RightChannel, ClosingIsLast
<1>5. ASSUME NEW i \in DOMAIN wire', wire'[i].what \in Closing
      PROVE  /\ srv[wire'[i].req] = "over"
             /\ \A j \in DOMAIN wire' : i < j => wire'[j].req # wire'[i].req
  <2>1. \A j \in DOMAIN wire' : i < j => i + 1 < j + 1
    BY <1>2
  <2> QED
    BY <1>2, <1>5, <2>1 DEF ClosingIsLast
<1>6. wire[1].what # "lastHeader"
  BY DEF Closing
<1>7. ASSUME NEW i \in DOMAIN wire'
      PROVE  /\ wire'[i].what \in {"headers", "lastHeader"} => /\ state[wire'[i].req] = "header"
                                                                /\ ~HeaderAhead(i)'
             /\ wire'[i].what \in {"data", "empty"} =>
                  state[wire'[i].req] = "data" \/ HeaderAhead(i)'
  <2>1. i + 1 \in DOMAIN wire /\ wire'[i] = wire[i + 1]
    BY <1>2
  <2>2. HeaderAhead(i)' <=> HeaderAhead(i + 1)
    BY <1>6, HeadersShift
  <2> QED
    BY <2>1, <2>2 DEF Expected
<1>8. \A q : HeaderOnWire(q)' <=> HeaderOnWire(q)
  BY <1>6, HeadersShift
<1>9. \A q \in Req : /\ srv[q] = "headers" => state[q] = "header" /\ ~HeaderOnWire(q)'
                     /\ srv[q] = "data" => state[q] = "data" \/ HeaderOnWire(q)'
  BY <1>8 DEF Expected
<1>10. ASSUME NEW q \in Live \ {r}, srv[q] \notin {"headers", "data", "key", "lost"}
       PROVE  \E i \in DOMAIN wire' : wire'[i].req = q /\ wire'[i].what \in Closing
  <2>1. PICK i \in DOMAIN wire : wire[i].req = q /\ wire[i].what \in Closing
    BY <1>10 DEF OnlyFailedWritesLeak
  <2>2. i # 1
    BY <2>1
  <2> QED
    BY <1>2, <2>1, <2>2
<1> QED
  BY <1>1, <1>2, <1>3, <1>4, <1>5, <1>7, <1>9, <1>10

\* A packet that ends an answer keeps the invariant.
LEMMA ClosesKeeps ==
  ASSUME Orderly, Fits', wire # <<>>, wire' = Tail(wire), NEW r, r = wire[1].req,
         view' = [view EXCEPT ![r] = Append(@, wire[1].what)], Closes(r)
  PROVE  Orderly'
<1> USE DEF Orderly
<1>1. r \in Live /\ r \in Req /\ wire[1] \in Packet /\ wire[1].what \in Closing /\ srv[r] = "over"
  BY HeadFound, AfterClosing DEF Live, Closes
<1>2. PICK st \in ChannelState \ {"garbled"} : state' = [state EXCEPT ![r] = st]
  BY DEF Closes
<1>3. /\ id' = [id EXCEPT ![r] = None]
      /\ next' = Lowered(next, id[r])
      /\ UNCHANGED <<asked, srv, said>>
  BY DEF Closes, Unregister
<1>4. Live' = Live \ {r} /\ \A q \in Live' : id'[q] = id[q]
  BY <1>1, <1>3 DEF TypeOK, Live
<1>5. TypeOK'
  <2>1. wire' \in Seq(Packet) /\ wire[1].what \in What
    BY <1>1, AfterClosing DEF Packet
  <2>2. next' \in Nat
    BY <1>1, <1>3 DEF TypeOK, Lowered, Live, None
  <2> QED
    BY <1>1, <1>2, <1>3, <2>1, <2>2 DEF TypeOK
<1>6. IdsDistinct'
  <2>1. next' \in {next, id[r]}
    BY <1>3 DEF Lowered
  <2> QED
    BY <1>1, <1>4, <2>1 DEF IdsDistinct
<1>7. RightChannel'
  BY <1>1, <1>4, AfterClosing DEF RightChannel
<1>8. NeverGarbled'
  BY <1>2 DEF NeverGarbled, TypeOK
<1>9. OnlyFailedWritesLeak'
  BY <1>1, <1>3, <1>4, AfterClosing DEF OnlyFailedWritesLeak
<1>10. Addressed'
  BY <1>1, <1>3, <1>4 DEF Addressed
<1>11. ClosingIsLast'
  BY <1>1, <1>3, AfterClosing DEF ClosingIsLast
<1>12. Expected'
  <2>1. \A q \in Req \ {r} : state'[q] = state[q]
    BY <1>2 DEF TypeOK
  <2>2. \A i \in DOMAIN wire' : wire'[i].req \in Req \ {r}
    BY <1>1, AfterClosing DEF Live
  <2>3. ASSUME NEW i \in DOMAIN wire'
        PROVE  /\ wire'[i].what \in {"headers", "lastHeader"} => /\ state'[wire'[i].req] = "header"
                                                                  /\ ~HeaderAhead(i)'
               /\ wire'[i].what \in {"data", "empty"} =>
                    state'[wire'[i].req] = "data" \/ HeaderAhead(i)'
    BY <1>1, <2>1, <2>2, AfterClosing
  <2>4. ASSUME NEW q \in Req
        PROVE  /\ srv'[q] = "headers" => state'[q] = "header" /\ ~HeaderOnWire(q)'
               /\ srv'[q] = "data" => state'[q] = "data" \/ HeaderOnWire(q)'
    BY <1>1, <1>3, <2>1, AfterClosing
  <2> QED
    BY <2>3, <2>4 DEF Expected
<1> QED
  BY <1>5, <1>6, <1>7, <1>8, <1>9, <1>10, <1>11, <1>12

\* The packet that ends a track and asks for the next key keeps the invariant.
LEMMA CloseAndAskKeeps ==
  ASSUME Orderly, Fits', wire # <<>>, NEW r, r = wire[1].req, NEW k \in KeyReq, HandleEndAndAskKey(r, k)
  PROVE  Orderly'
<1> USE DEF Orderly
<1>1. /\ wire' = Tail(wire)
      /\ Arrived = wire[1] /\ wire[1] \in Packet
      /\ view' = [view EXCEPT ![r] = Append(@, wire[1].what)]
      /\ wire[1].what = "empty" /\ wire[1].what \in Closing
  BY HeadFound DEF HandleEndAndAskKey, Take, Closing
<1>0. next < IdSpace
  <2>1. id' = [id EXCEPT ![k] = next, ![r] = None] /\ next \in Nat /\ id \in [Req -> Nat \cup {None}]
        /\ k \in Req /\ k # r
    BY <1>1, AfterClosing, RequestAssumption DEF HandleEndAndAskKey, TypeOK, Addressed
  <2>2. id'[k] = next /\ k \in Live'
    BY <2>1 DEF Live, None
  <2> QED
    BY <2>2 DEF Fits
<1>2. /\ srv[k] = "idle" /\ next < IdSpace
      /\ id' = [id EXCEPT ![k] = next, ![r] = None]
      /\ state' = [state EXCEPT ![k] = "data", ![r] = "end"]
      /\ UNCHANGED said
      /\ \/ srv' = [srv EXCEPT ![k] = "lost"] /\ asked' = asked
         \/ srv' = [srv EXCEPT ![k] = "key"] /\ asked' = [asked EXCEPT ![k] = next]
  BY <1>0, WireIdIdentity DEF HandleEndAndAskKey, TypeOK
<1>3. PICK m \in Advanced : next' = Lowered(m, id[r])
  BY DEF HandleEndAndAskKey
<1>4. /\ r \in Live /\ r \in Req /\ k \in Req /\ r # k /\ srv[r] = "over"
      /\ k \notin Live
  BY <1>1, <1>2, AfterClosing, RequestAssumption DEF Live, Addressed
<1>5. /\ Live' = (Live \ {r}) \cup {k}
      /\ id'[k] = next /\ \A q \in Live \ {r} : id'[q] = id[q]
      /\ next \in Nat /\ id[r] \in Nat
      /\ \A q \in Req \ {k} : srv'[q] = srv[q] /\ asked'[q] = asked[q]
      /\ srv'[k] \in {"lost", "key"}
      /\ srv'[k] = "key" => asked'[k] = next
      /\ \A q \in Req \ {k, r} : state'[q] = state[q]
      /\ state'[k] = "data" /\ state'[r] = "end"
  BY <1>2, <1>4 DEF TypeOK, Live, None
<1>6. m \in Nat /\ m > next /\ \A q \in Live : m > id[q]
  BY AdvancedAbove
<1>7. TypeOK'
  <2>1. wire' \in Seq(Packet) /\ wire[1].what \in What
    BY <1>1, AfterClosing DEF Packet
  <2>2. next' \in Nat
    BY <1>3, <1>5, <1>6 DEF Lowered
  <2>3. id' \in [Req -> Nat \cup {None}] /\ state' \in [Req -> ChannelState]
    BY <1>2, <1>5 DEF TypeOK, ChannelState
  <2>4. srv' \in [Req -> SrvPhase] /\ asked' \in [Req -> Nat \cup {None}]
    <3>1. CASE srv' = [srv EXCEPT ![k] = "lost"] /\ asked' = asked
      BY <3>1 DEF TypeOK, SrvPhase
    <3>2. CASE srv' = [srv EXCEPT ![k] = "key"] /\ asked' = [asked EXCEPT ![k] = next]
      BY <3>2, <1>5 DEF TypeOK, SrvPhase
    <3> QED
      BY <1>2, <3>1, <3>2
  <2>5. view' \in [Req -> Seq(What)]
    BY <1>1, <1>4, <2>1 DEF TypeOK
  <2> QED
    BY <1>2, <2>1, <2>2, <2>3, <2>4, <2>5 DEF TypeOK
<1>8. IdsDistinct'
  <2>1. \A q \in Live : /\ id[q] \in Nat /\ id[q] # next /\ id[q] < m
                        /\ q # r => id[q] # id[r]
    BY <1>4, <1>6 DEF IdsDistinct, TypeOK, Live, None
  <2>2. next' \in {m, id[r]}
    BY <1>3 DEF Lowered
  <2>3. \A q, s \in Live : q # s => id[q] # id[s]
    BY DEF IdsDistinct
  <2> HIDE DEF Orderly
  <2>4. \A q, s \in Live' : q # s => id'[q] # id'[s]
    BY <1>4, <1>5, <2>1, <2>3
  <2>5. \A q \in Live' : id'[q] # next'
    BY <1>4, <1>5, <1>6, <2>1, <2>2
  <2> QED
    BY <2>4, <2>5 DEF IdsDistinct
<1>9. RightChannel'
  BY <1>1, <1>4, <1>5, AfterClosing DEF RightChannel
<1>10. NeverGarbled'
  BY <1>4, <1>5 DEF NeverGarbled
<1>11. OnlyFailedWritesLeak'
  BY <1>1, <1>4, <1>5, AfterClosing DEF OnlyFailedWritesLeak, Live
<1>12. Addressed'
  BY <1>4, <1>5 DEF Addressed, Live
<1>13. \A i \in DOMAIN wire' : wire'[i].req \in Req \ {k, r}
  BY <1>1, <1>4, AfterClosing DEF Live
<1>14. ClosingIsLast'
  BY <1>1, <1>5, <1>13, AfterClosing, SMTT(60) DEF ClosingIsLast
<1>15. Expected'
  <2>1. ASSUME NEW i \in DOMAIN wire'
        PROVE  /\ wire'[i].what \in {"headers", "lastHeader"} => /\ state'[wire'[i].req] = "header"
                                                                  /\ ~HeaderAhead(i)'
               /\ wire'[i].what \in {"data", "empty"} =>
                    state'[wire'[i].req] = "data" \/ HeaderAhead(i)'
    BY <1>1, <1>5, <1>13, AfterClosing
  <2>2. ASSUME NEW q \in Req
        PROVE  /\ srv'[q] = "headers" => state'[q] = "header" /\ ~HeaderOnWire(q)'
               /\ srv'[q] = "data" => state'[q] = "data" \/ HeaderOnWire(q)'
    BY <1>1, <1>4, <1>5, AfterClosing
  <2> QED
    BY <2>1, <2>2 DEF Expected
<1> QED
  BY <1>7, <1>8, <1>9, <1>10, <1>11, <1>12, <1>14, <1>15

-----------------------------------------------------------------------------
(* The invariants. *)

\* Every step after which the ids still fit keeps the invariant.
LEMMA NextOrderly == Orderly /\ Fits' /\ [Next]_vars => Orderly'
<1> SUFFICES ASSUME Orderly, Fits', [Next]_vars PROVE Orderly'
  OBVIOUS
<1>1. ASSUME NEW r \in Req, Ask(r) \/ AskLeaks(r) PROVE Orderly'
  BY <1>1, AskKeeps
<1>2. ASSUME NEW r \in Req, AskUndone(r) PROVE Orderly'
  BY <1>2, UndoneKeeps
<1>3. ASSUME NEW r \in Req, Answer(r) PROVE Orderly'
  BY <1>3, SayKeeps DEF Answer
<1>4. CASE HandlePacket
  <2> DEFINE r == wire[1].req
  <2>1. /\ wire # <<>> /\ wire' = Tail(wire)
        /\ view' = [view EXCEPT ![r] = Append(@, wire[1].what)]
        /\ GoesOn(r) \/ Closes(r) \/ \E k \in KeyReq : HandleEndAndAskKey(r, k)
    BY <1>4, PacketHandled
  <2>2. CASE GoesOn(r)
    BY <2>1, <2>2, GoesOnKeeps
  <2>3. CASE Closes(r)
    BY <2>1, <2>3, ClosesKeeps
  <2>4. ASSUME NEW k \in KeyReq, HandleEndAndAskKey(r, k) PROVE Orderly'
    BY <2>1, <2>4, CloseAndAskKeeps
  <2> QED
    BY <2>1, <2>2, <2>3, <2>4
<1>5. CASE UNCHANGED vars
  BY <1>5 DEF vars, Orderly, TypeOK, IdsDistinct, Fits, RightChannel, NeverGarbled, OnlyFailedWritesLeak,
     Addressed, ClosingIsLast, Expected, HeaderAhead, HeaderOnWire, Live
<1> QED
  BY <1>1, <1>2, <1>3, <1>4, <1>5 DEF Next

\* The packet taken off the wire and the view it is added to are well formed, whichever
\* channel the lookup found.
LEMMA TakeTypes ==
  ASSUME Base, wire # <<>>, NEW r, Take(r)
  PROVE  /\ r \in Live /\ r \in Req /\ id[r] < IdSpace
         /\ wire' \in Seq(Packet) /\ view' \in [Req -> Seq(What)]
<1> USE DEF Base
<1>1. Arrived \in Packet /\ Arrived.id < IdSpace
  BY TailShifts DEF TypeOK, Arrived, Made
<1>2. Arrived.what \in What
  BY <1>1 DEF Packet
<1>3. r \in Live /\ r \in Req /\ id[r] < IdSpace
  BY <1>1 DEF Take, Lookup, Live
<1>4. wire' \in Seq(Packet)
  BY TailShifts DEF Take, TypeOK
<1>5. view' \in [Req -> Seq(What)]
  BY <1>2, <1>3 DEF Take, TypeOK
<1> QED
  BY <1>3, <1>4, <1>5

\* What handle_packet does to the list, whichever channel the lookup found.
LEMMA HandledBy ==
  ASSUME Base, HandlePacket
  PROVE  /\ state' \in [Req -> ChannelState] /\ wire' \in Seq(Packet)
         /\ view' \in [Req -> Seq(What)] /\ said' = said
         /\ \/ UNCHANGED <<id, next, asked, srv>>
            \/ \E r \in Live : id[r] < IdSpace /\ Unregister(r) /\ UNCHANGED <<asked, srv>>
            \/ \E r \in Live, k \in KeyReq : id[r] < IdSpace /\ HandleEndAndAskKey(r, k)
<1>1. wire # <<>> /\ TypeOK
  BY DEF HandlePacket, Base
<1>2. CASE HandleUnknown
  BY <1>1, <1>2, TailShifts DEF HandleUnknown, TypeOK, server
<1>3. ASSUME NEW r \in Req, HandleHeaders(r) \/ HandleData(r)
      PROVE  /\ state' \in [Req -> ChannelState] /\ wire' \in Seq(Packet)
             /\ view' \in [Req -> Seq(What)] /\ said' = said
             /\ UNCHANGED <<id, next, asked, srv>>
  <2>1. wire' \in Seq(Packet) /\ view' \in [Req -> Seq(What)]
    BY <1>1, <1>3, TakeTypes DEF HandleHeaders, HandleData
  <2>2. state' \in [Req -> ChannelState]
    BY <1>1, <1>3 DEF HandleHeaders, HandleData, TypeOK, ChannelState
  <2> QED
    BY <1>3, <2>1, <2>2 DEF HandleHeaders, HandleData, server
<1>4. ASSUME NEW r \in Req, HandleEnd(r) \/ HandleError(r) \/ HandleKey(r)
      PROVE  /\ state' \in [Req -> ChannelState] /\ wire' \in Seq(Packet)
             /\ view' \in [Req -> Seq(What)] /\ said' = said
             /\ r \in Live /\ id[r] < IdSpace /\ Unregister(r) /\ UNCHANGED <<asked, srv>>
  <2>1. wire' \in Seq(Packet) /\ view' \in [Req -> Seq(What)] /\ r \in Live /\ id[r] < IdSpace
    BY <1>1, <1>4, TakeTypes DEF HandleEnd, HandleError, HandleKey
  <2>2. state' \in [Req -> ChannelState]
    BY <1>1, <1>4 DEF HandleEnd, HandleError, HandleKey, TypeOK, ChannelState
  <2> QED
    BY <1>4, <2>1, <2>2 DEF HandleEnd, HandleError, HandleKey, server
<1>5. ASSUME NEW r \in Req, NEW k \in KeyReq, HandleEndAndAskKey(r, k)
      PROVE  /\ state' \in [Req -> ChannelState] /\ wire' \in Seq(Packet)
             /\ view' \in [Req -> Seq(What)] /\ said' = said /\ r \in Live /\ id[r] < IdSpace
  <2>1. wire' \in Seq(Packet) /\ view' \in [Req -> Seq(What)] /\ r \in Live /\ id[r] < IdSpace
    BY <1>1, <1>5, TakeTypes DEF HandleEndAndAskKey
  <2>2. state' \in [Req -> ChannelState]
    BY <1>1, <1>5, RequestAssumption DEF HandleEndAndAskKey, TypeOK, ChannelState
  <2> QED
    BY <1>5, <2>1, <2>2 DEF HandleEndAndAskKey
<1> QED
  BY <1>2, <1>3, <1>4, <1>5 DEF HandlePacket

\* Registering a channel gives it the free id and moves the counter past every other.
LEMMA RegisterKeepsIds ==
  ASSUME Base, NEW r \in Req, r \notin Live, id' = [id EXCEPT ![r] = next], next' \in Advanced
  PROVE  /\ Live' = Live \cup {r} /\ id'[r] = next /\ \A q \in Live : q # r /\ id'[q] = id[q]
         /\ id' \in [Req -> Nat \cup {None}] /\ next' \in Nat /\ IdsDistinct'
<1>1. next' \in Nat /\ next' > next /\ \A q \in Live : next' > id[q]
  BY AdvancedAbove DEF Base
<1>2. next \in Nat /\ id \in [Req -> Nat \cup {None}]
  BY DEF Base, TypeOK
<1>3. id'[r] = next /\ Live' = Live \cup {r} /\ \A q \in Live : q # r /\ id'[q] = id[q]
  BY <1>2 DEF Live, None
<1>4. \A q \in Live : id[q] \in Nat /\ id[q] # next
  BY <1>2 DEF Base, IdsDistinct, Live, None
<1>5. \A q, s \in Live : q # s => id[q] # id[s]
  BY DEF Base, IdsDistinct
<1> HIDE DEF Live
<1>6. IdsDistinct'
  BY <1>1, <1>2, <1>3, <1>4, <1>5 DEF IdsDistinct
<1> QED
  BY <1>1, <1>2, <1>3, <1>6

\* Unregistering a channel may lower the counter to the id it frees, which nobody has.
LEMMA UnregisterKeepsIds ==
  ASSUME Base, NEW r \in Live, Unregister(r)
  PROVE  /\ Live' = Live \ {r} /\ \A q \in Live' : id'[q] = id[q]
         /\ id' \in [Req -> Nat \cup {None}] /\ next' \in Nat /\ IdsDistinct'
<1>1. r \in Req /\ id[r] \in Nat /\ next \in Nat /\ id \in [Req -> Nat \cup {None}]
  BY DEF Base, TypeOK, Live, None
<1>2. id' = [id EXCEPT ![r] = None] /\ next' \in {next, id[r]}
  BY DEF Unregister, Lowered
<1>3. Live' = Live \ {r} /\ \A q \in Live' : id'[q] = id[q]
  BY <1>1, <1>2 DEF Live
<1>4. IdsDistinct'
  BY <1>1, <1>2, <1>3 DEF IdsDistinct, Base
<1> QED
  BY <1>1, <1>2, <1>3, <1>4

\* The end of a track that asks for the next key does both at once.
LEMMA EndAndAskKeepsIds ==
  ASSUME Base, NEW r \in Live, NEW k \in KeyReq, HandleEndAndAskKey(r, k)
  PROVE  /\ k \in Req /\ k \notin Live /\ k # r
         /\ Live' = (Live \ {r}) \cup {k} /\ id'[k] = next /\ \A q \in Live \ {r} : id'[q] = id[q]
         /\ id' \in [Req -> Nat \cup {None}] /\ next' \in Nat /\ IdsDistinct'
         /\ \E m \in Nat : m > next /\ (\A q \in Live : m > id[q]) /\ next' = Lowered(m, id[r])
<1>1. /\ r \in Req /\ id[r] \in Nat /\ next \in Nat /\ id \in [Req -> Nat \cup {None}]
  BY DEF Base, TypeOK, Live, None
<1>2. k \in Req /\ k \notin Live /\ k # r
  BY RequestAssumption DEF HandleEndAndAskKey, Base, Made
<1>3. id' = [id EXCEPT ![k] = next, ![r] = None]
  BY DEF HandleEndAndAskKey
<1>4. PICK m \in Advanced : next' = Lowered(m, id[r])
  BY DEF HandleEndAndAskKey
<1>5. m \in Nat /\ m > next /\ \A q \in Live : m > id[q]
  BY AdvancedAbove DEF Base
<1>6. next' \in {m, id[r]} /\ next' \in Nat
  BY <1>1, <1>4, <1>5 DEF Lowered
<1>7. /\ Live' = (Live \ {r}) \cup {k} /\ id'[k] = next
      /\ \A q \in Live \ {r} : id'[q] = id[q]
  BY <1>1, <1>2, <1>3 DEF Live, None
<1>8. id' \in [Req -> Nat \cup {None}]
  BY <1>1, <1>3
<1>9. \A q \in Live : /\ id[q] \in Nat /\ id[q] # next
                      /\ q # r => id[q] # id[r]
  BY <1>1 DEF Base, IdsDistinct, TypeOK, Live, None
<1>10. \A q, s \in Live : q # s => id[q] # id[s]
  BY DEF Base, IdsDistinct
<1> HIDE DEF Live
<1>11. \A q, s \in Live' : q # s => id'[q] # id'[s]
  BY <1>7, <1>9, <1>10
<1>12. \A q \in Live' : id'[q] # next'
  BY <1>1, <1>5, <1>6, <1>7, <1>9
<1> QED
  BY <1>2, <1>4, <1>5, <1>6, <1>7, <1>8, <1>11, <1>12 DEF IdsDistinct

\* The steps, told apart by what they do to the list.
LEMMA NextCases ==
  ASSUME Base, Next
  PROVE  \/ UNCHANGED <<id, next>>
         \/ \E r \in Req : /\ r \notin Live /\ id' = [id EXCEPT ![r] = next] /\ next' \in Advanced
                           /\ Ask(r) \/ AskLeaks(r)
         \/ \E r \in Live : id[r] < IdSpace /\ Unregister(r) /\ UNCHANGED <<asked, srv>>
         \/ \E r \in Live, k \in KeyReq : id[r] < IdSpace /\ HandleEndAndAskKey(r, k)
<1>1. ASSUME NEW r \in Req, Ask(r) \/ AskLeaks(r)
      PROVE  r \notin Live /\ id' = [id EXCEPT ![r] = next] /\ next' \in Advanced
  BY <1>1 DEF Ask, AskLeaks, Base, Made
<1>2. ASSUME NEW r \in Req, AskUndone(r) PROVE UNCHANGED <<id, next>>
  <2>1. PICK m \in Advanced : next' = Lowered(m, next)
    BY <1>2 DEF AskUndone
  <2>2. m \in Nat /\ m > next /\ next \in Nat
    BY AdvancedAbove DEF Base, TypeOK
  <2> QED
    BY <1>2, <2>1, <2>2 DEF AskUndone, Lowered
<1>3. ASSUME NEW r \in Req, Answer(r) PROVE UNCHANGED <<id, next>>
  BY <1>3 DEF Answer, Say
<1>4. CASE HandlePacket
  BY <1>4, HandledBy
<1> QED
  BY <1>1, <1>2, <1>3, <1>4 DEF Next

\* A channel whose id does not fit into a packet is never found again, so it stays in the
\* list: if the ids fit now, they have always fitted.
LEMMA FitsBefore == Base /\ Fits' /\ [Next]_vars => Fits
<1> SUFFICES ASSUME Base, Fits', Next PROVE Fits
  BY DEF vars, Fits, Live
<1>1. CASE UNCHANGED <<id, next>>
  BY <1>1 DEF Fits, Live
<1>2. ASSUME NEW r \in Req, r \notin Live, id' = [id EXCEPT ![r] = next], next' \in Advanced
      PROVE  Fits
  BY <1>2, RegisterKeepsIds DEF Fits
<1>3. ASSUME NEW r \in Live, id[r] < IdSpace, Unregister(r) PROVE Fits
  BY <1>3, UnregisterKeepsIds DEF Fits
<1>4. ASSUME NEW r \in Live, NEW k \in KeyReq, id[r] < IdSpace, HandleEndAndAskKey(r, k) PROVE Fits
  BY <1>4, EndAndAskKeepsIds DEF Fits
<1> QED
  BY <1>1, <1>2, <1>3, <1>4, NextCases

\* The numbers in the packets are 16 bits wide, and the channel of a request is registered
\* when the request is made and not before.
LEMMA NextBase == Base /\ [Next]_vars => Base'
<1> SUFFICES ASSUME Base, [Next]_vars PROVE Base'
  OBVIOUS
<1> USE DEF Base
<1>0. \A i \in Nat : WireId(i) \in Nat /\ WireId(i) < IdSpace
  BY IdSpaceAssumption DEF WireId
<1>1. ASSUME NEW r \in Req, Ask(r) \/ AskLeaks(r) PROVE Base'
  <2>1. /\ r \notin Live /\ id' = [id EXCEPT ![r] = next] /\ next' \in Advanced
        /\ state' = [state EXCEPT ![r] = StartState(r)]
        /\ UNCHANGED <<said, wire, view>>
        /\ \/ srv' = [srv EXCEPT ![r] = "lost"] /\ asked' = asked
           \/ srv' = [srv EXCEPT ![r] = FirstPhase(r)] /\ asked' = [asked EXCEPT ![r] = WireId(next)]
    BY <1>1 DEF Ask, AskLeaks, Made
  <2>2. next \in Nat
    BY DEF TypeOK
  <2>3. TypeOK'
    <3>1. asked' \in [Req -> Nat \cup {None}] /\ srv' \in [Req -> SrvPhase]
      BY <1>0, <2>1, <2>2 DEF TypeOK, FirstPhase, SrvPhase
    <3>2. state' \in [Req -> ChannelState]
      BY <2>1 DEF TypeOK, StartState, ChannelState
    <3> QED
      BY <2>1, <3>1, <3>2, RegisterKeepsIds DEF TypeOK
  <2>4. ASSUME NEW q \in Req
        PROVE  /\ srv'[q] = "idle" => q \notin Live'
               /\ srv'[q] \in {"headers", "data", "key"} => asked'[q] \in Nat /\ asked'[q] < IdSpace
    <3>1. CASE q = r
      BY <3>1, <1>0, <2>1, <2>2 DEF TypeOK, FirstPhase
    <3>2. CASE q # r
      <4>1. srv'[q] = srv[q] /\ asked'[q] = asked[q]
        BY <3>2, <2>1 DEF TypeOK
      <4>2. Live' = Live \cup {r}
        BY <2>1, RegisterKeepsIds
      <4>3. q \in Live' <=> q \in Live
        BY <3>2, <4>2
      <4> QED
        BY <4>1, <4>3 DEF Made
    <3> QED
      BY <3>1, <3>2
  <2> QED
    BY <2>1, <2>3, <2>4, RegisterKeepsIds DEF Made
<1>2. ASSUME NEW r \in Req, AskUndone(r) PROVE Base'
  <2>1. PICK m \in Advanced : next' = Lowered(m, next)
    BY <1>2 DEF AskUndone
  <2>2. m \in Nat /\ m > next /\ next \in Nat
    BY AdvancedAbove DEF TypeOK
  <2>3. next' = next /\ srv' = [srv EXCEPT ![r] = "lost"] /\ UNCHANGED <<id, state, asked, said, wire, view>>
    BY <1>2, <2>1, <2>2 DEF AskUndone, Lowered
  <2>4. Live' = Live
    BY <2>3 DEF Live
  <2>5. TypeOK' /\ IdsDistinct'
    BY <2>3, <2>4 DEF TypeOK, IdsDistinct, SrvPhase
  <2>6. Made'
    BY <2>3, <2>4 DEF Made, TypeOK
  <2> QED
    BY <2>5, <2>6
<1>3. ASSUME NEW r \in Req, NEW t \in Conversation, Say(r, t) PROVE Base'
  <2> DEFINE p == [id |-> asked[r], what |-> t[2], req |-> r, n |-> Len(said[r]) + 1]
  <2>1. /\ srv[r] = t[1]
        /\ said' = [said EXCEPT ![r] = Append(@, t[2])]
        /\ wire' = Append(wire, p)
        /\ srv' = [srv EXCEPT ![r] = t[3]]
        /\ UNCHANGED <<id, state, next, asked, view>>
    BY <1>3 DEF Say
  <2>2. /\ t[1] \in {"headers", "data", "key"} /\ t[2] \in What
        /\ t[3] \in {"headers", "data", "key", "over"}
    BY DEF Conversation, What
  <2>3. asked[r] \in Nat /\ asked[r] < IdSpace
    BY <2>1, <2>2 DEF Made
  <2>4. p \in Packet
    BY <2>2, <2>3 DEF Packet, TypeOK
  <2>5. /\ wire' \in Seq(Packet)
        /\ DOMAIN wire' = DOMAIN wire \cup {Len(wire) + 1}
        /\ \A i \in DOMAIN wire : wire'[i] = wire[i]
        /\ wire'[Len(wire) + 1].id = asked[r]
    BY <2>1, <2>4, AppendKeeps DEF TypeOK
  <2> HIDE DEF p
  <2>6. Live' = Live
    BY <2>1 DEF Live
  <2>7. TypeOK'
    BY <2>1, <2>2, <2>5 DEF TypeOK, SrvPhase
  <2>8. IdsDistinct'
    BY <2>1, <2>6 DEF IdsDistinct
  <2>9. \A i \in DOMAIN wire' : wire'[i].id < IdSpace
    BY <2>3, <2>5 DEF Made
  <2>10. \A q \in Req : /\ srv'[q] = "idle" => q \notin Live'
                        /\ srv'[q] \in {"headers", "data", "key"} =>
                             asked'[q] \in Nat /\ asked'[q] < IdSpace
    BY <2>1, <2>2, <2>3, <2>6 DEF Made, TypeOK
  <2> QED
    BY <2>7, <2>8, <2>9, <2>10 DEF Made
<1>4. CASE HandlePacket
  <2>1. /\ state' \in [Req -> ChannelState] /\ wire' \in Seq(Packet)
        /\ view' \in [Req -> Seq(What)] /\ said' = said
    BY <1>4, HandledBy
  <2>2. \A i \in DOMAIN wire' : wire'[i].id < IdSpace
    <3>1. wire # <<>> /\ wire' = Tail(wire)
      BY <1>4 DEF HandlePacket, HandleUnknown, HandleHeaders, HandleData, HandleEnd, HandleError,
                  HandleKey, HandleEndAndAskKey, Take
    <3> QED
      BY <3>1, TailShifts DEF Made, TypeOK
  <2>3. CASE UNCHANGED <<id, next, asked, srv>>
    <3>1. Live' = Live
      BY <2>3 DEF Live
    <3>2. TypeOK' /\ IdsDistinct'
      BY <2>1, <2>3, <3>1 DEF TypeOK, IdsDistinct
    <3> QED
      BY <2>2, <2>3, <3>1, <3>2 DEF Made
  <2>4. ASSUME NEW r \in Live, Unregister(r), UNCHANGED <<asked, srv>> PROVE Base'
    <3>1. TypeOK' /\ IdsDistinct'
      BY <2>1, <2>4, UnregisterKeepsIds DEF TypeOK
    <3>2. \A q \in Req : q \in Live' => q \in Live
      BY <2>4, UnregisterKeepsIds
    <3> QED
      BY <2>2, <2>4, <3>1, <3>2 DEF Made
  <2>5. ASSUME NEW r \in Live, NEW k \in KeyReq, HandleEndAndAskKey(r, k) PROVE Base'
    <3>1. /\ next \in Nat /\ k \in Req
          /\ \/ srv' = [srv EXCEPT ![k] = "lost"] /\ asked' = asked
             \/ srv' = [srv EXCEPT ![k] = "key"] /\ asked' = [asked EXCEPT ![k] = WireId(next)]
      BY <2>5, RequestAssumption DEF HandleEndAndAskKey, TypeOK
    <3>2. srv' \in [Req -> SrvPhase] /\ asked' \in [Req -> Nat \cup {None}]
      BY <1>0, <3>1 DEF TypeOK, SrvPhase
    <3>3. TypeOK' /\ IdsDistinct'
      BY <2>1, <2>5, <3>2, EndAndAskKeepsIds DEF TypeOK
    <3>4. ASSUME NEW q \in Req
          PROVE  /\ srv'[q] = "idle" => q \notin Live'
                 /\ srv'[q] \in {"headers", "data", "key"} => asked'[q] \in Nat /\ asked'[q] < IdSpace
      <4>1. CASE q = k
        BY <4>1, <1>0, <3>1 DEF TypeOK
      <4>2. CASE q # k
        <5>1. srv'[q] = srv[q] /\ asked'[q] = asked[q]
          BY <4>2, <3>1 DEF TypeOK
        <5>2. q \in Live' => q \in Live
          BY <4>2, <2>5, EndAndAskKeepsIds
        <5> QED
          BY <5>1, <5>2 DEF Made
      <4> QED
        BY <4>1, <4>2
    <3> QED
      BY <2>2, <3>3, <3>4 DEF Made
  <2> QED
    BY <1>4, <2>3, <2>4, <2>5, HandledBy
<1>5. CASE UNCHANGED vars
  BY <1>5 DEF vars, TypeOK, IdsDistinct, Made, Live
<1> QED
  BY <1>1, <1>2, <1>3, <1>4, <1>5 DEF Next, Answer

\* Every step keeps the inductive invariant.
LEMMA NextIInv == IInv /\ [Next]_vars => IInv'
BY NextBase, FitsBefore, NextOrderly DEF IInv

\* The inductive invariant holds in every reachable state.
THEOREM Invariance == Spec => []IInv
BY InitIInv, NextIInv, PTL DEF Spec

\* Every variable keeps its type, for any set of requests (channel.c).
THEOREM TypeCorrect == Spec => []TypeOK
<1>1. IInv => TypeOK
  BY DEF IInv, Base
<1> QED
  BY Invariance, <1>1, PTL

\* However ids are freed and reused, no two channels in the list share one, and the
\* next one to hand out is free (channel_register, channel_unregister).
THEOREM IdsAreDistinct == Spec => []IdsDistinct
<1>1. IInv => IdsDistinct
  BY DEF IInv, Base
<1> QED
  BY Invariance, <1>1, PTL

\* While the ids fit into a packet, every packet on its way finds the channel of the
\* request it answers: a reused id never hands a late packet to the wrong callback (channel_by_id, channel_process).
THEOREM PacketsFindTheirChannel == Spec => []RightChannel
<1>1. IInv => RightChannel
  BY DEF IInv, Orderly, RightChannel
<1> QED
  BY Invariance, <1>1, PTL

\* While the ids fit into a packet, the assertions of channel_process never fail: a
\* channel is in the state that the next packet for it expects.
THEOREM HeadersAreHeaders == Spec => []NeverGarbled
<1>1. IInv => NeverGarbled
  BY DEF IInv, Orderly, NeverGarbled
<1> QED
  BY Invariance, <1>1, PTL

\* While the ids fit into a packet, only a request whose packet_write failed leaves its
\* channel behind (commands.c).
THEOREM LeaksAreFailedWrites == Spec => []OnlyFailedWritesLeak
<1>1. IInv => OnlyFailedWritesLeak
  BY DEF IInv, Orderly, OnlyFailedWritesLeak
<1> QED
  BY Invariance, <1>1, PTL

-----------------------------------------------------------------------------
(* The counter. *)

\* While no three channels have overlapped, the counter is the least free id.
LeastFree ==
  ~crowded => /\ \A r \in Live : id[r] <= 1
              /\ next \in {0, 1, 2}
              /\ next # 0 => \E r \in Live : id[r] = 0
              /\ next = 2 => \E r \in Live : id[r] = 1

\* NoDrift alone is not inductive: a counter above the least free id would let the ids
\* drift with only two channels.
LEMMA NextLeastFree == Base /\ LeastFree /\ [Next]_vars => LeastFree'
<1> SUFFICES ASSUME Base, LeastFree, [Next]_vars, ~crowded'
             PROVE  LeastFree'
  BY DEF LeastFree
<1>1. CASE UNCHANGED vars
  BY <1>1 DEF vars, LeastFree, Live
<1> SUFFICES ASSUME Next PROVE LeastFree'
  BY <1>1
<1>2. ~crowded /\ ~Crowd(Live \cup Live')
  <2>1. crowded' = (crowded \/ Crowd(Live \cup Live'))
    BY DEF Next, Observe
  <2> QED
    BY <2>1
<1>3. /\ \A r \in Live : id[r] \in Nat /\ id[r] <= 1 /\ id[r] # next
      /\ \A q, r \in Live : q # r => id[q] # id[r]
      /\ next \in {0, 1, 2}
      /\ next # 0 => \E r \in Live : id[r] = 0
      /\ next = 2 => \E r \in Live : id[r] = 1
  <2>1. \A r \in Live : id[r] \in Nat /\ id[r] # next
    BY DEF Base, TypeOK, IdsDistinct, Live, None
  <2> QED
    BY <1>2, <2>1 DEF LeastFree, Base, IdsDistinct
<1>4. \A q, r, t \in Live \cup Live' : q = r \/ r = t \/ q = t
  BY <1>2 DEF Crowd
<1>5. CASE UNCHANGED <<id, next>>
  BY <1>5, <1>3 DEF LeastFree, Live
<1>6. ASSUME NEW r \in Req, r \notin Live, id' = [id EXCEPT ![r] = next], next' \in Advanced
      PROVE  LeastFree'
  <2>1. /\ Live' = Live \cup {r} /\ id'[r] = next
        /\ \A q \in Live : q # r /\ id'[q] = id[q]
    BY <1>6, RegisterKeepsIds
  <2>2. /\ next' \in Nat
        /\ next' = next + 1 \/ \E q \in Live : next' = id[q] + 1
        /\ next' >= next + 1
        /\ \A q \in Live : next' >= id[q] + 1
    <3>1. next' \in Nat /\ next' > next /\ \A q \in Live : next' > id[q]
      BY <1>6, AdvancedAbove DEF Base
    <3>2. next' \in Candidates
      BY <1>6 DEF Advanced
    <3> HIDE DEF Live
    <3> QED
      BY <1>3, <3>1, <3>2 DEF Candidates
  <2> HIDE DEF Live
  <2>3. next # 2
    <3> SUFFICES ASSUME next = 2 PROVE FALSE
      OBVIOUS
    <3>1. PICK q \in Live, t \in Live : id[q] = 0 /\ id[t] = 1
      BY <1>3
    <3>2. q # t /\ q # r /\ t # r
      BY <3>1, <2>1
    <3> QED
      BY <1>4, <2>1, <3>2
  <2>4. \A q \in Live' : id'[q] <= 1
    BY <1>3, <2>1, <2>3
  <2>5. next' \in {1, 2}
    BY <1>3, <2>2, <2>3
  <2>6. \E q \in Live' : id'[q] = 0
    BY <1>3, <2>1
  <2>7. next' = 2 => \E q \in Live' : id'[q] = 1
    BY <1>3, <2>1, <2>2, <2>3
  <2> QED
    BY <2>4, <2>5, <2>6, <2>7 DEF LeastFree
<1>7. ASSUME NEW r \in Live, Unregister(r) PROVE LeastFree'
  <2>1. /\ Live' = Live \ {r} /\ \A q \in Live' : id'[q] = id[q]
        /\ next' = IF id[r] < next THEN id[r] ELSE next
    BY <1>7, UnregisterKeepsIds DEF Unregister, Lowered
  <2> HIDE DEF Live
  <2>2. next' \in {0, 1, 2} /\ next' # 2
    BY <1>3, <2>1
  <2>3. next' # 0 => \E q \in Live' : id'[q] = 0
    BY <1>3, <2>1
  <2> QED
    BY <1>3, <2>1, <2>2, <2>3 DEF LeastFree
<1>8. ASSUME NEW r \in Live, NEW k \in KeyReq, HandleEndAndAskKey(r, k) PROVE LeastFree'
  <2>1. /\ k \notin Live /\ k # r /\ Live' = (Live \ {r}) \cup {k} /\ id'[k] = next
        /\ \A q \in Live \ {r} : id'[q] = id[q]
    BY <1>8, EndAndAskKeepsIds
  <2>2. PICK m \in Nat : m > next /\ (\A q \in Live : m > id[q]) /\ next' = Lowered(m, id[r])
    BY <1>8, EndAndAskKeepsIds
  <2> HIDE DEF Live
  <2>3. \A q \in Live : q = r
    BY <1>4, <2>1
  <2>4. next' = id[r]
    BY <1>3, <2>2 DEF Lowered
  <2>5. next # 2
    BY <1>3, <2>3
  <2>6. \A q \in Live' : q = k
    BY <2>1, <2>3
  <2>7. id[r] \in {0, 1} /\ next \in {0, 1} /\ id[r] # next
    BY <1>3, <2>5
  <2> QED
    BY <2>1, <2>4, <2>6, <2>7 DEF LeastFree
<1> QED
  BY <1>5, <1>6, <1>7, <1>8, NextCases

\* Until three channels overlap only two ids are ever used, however long the session runs
\* and however many requests it makes (channel_register, channel_unregister).
THEOREM IdsDoNotDrift == Spec => []NoDrift
<1>1. Init => LeastFree
  BY DEF Init, LeastFree, Live
<1>2. IInv => Base
  BY DEF IInv
<1>3. LeastFree => NoDrift
  BY DEF LeastFree, NoDrift
<1> QED
  BY <1>1, <1>2, <1>3, NextLeastFree, Invariance, PTL DEF Spec

-----------------------------------------------------------------------------
(* The refinement. *)

\* The packets of one request that are on their way are, in order and without a gap,
\* what the server has said and channel_process has not consumed yet.
Stamped ==
  /\ \A r \in Req : Len(view[r]) <= Len(said[r])
  /\ \A i \in DOMAIN wire :
       /\ wire[i].n > Len(view[wire[i].req]) /\ wire[i].n <= Len(said[wire[i].req])
       /\ wire[i].what = said[wire[i].req][wire[i].n]
       /\ \A j \in DOMAIN wire : i < j /\ wire[j].req = wire[i].req => wire[i].n < wire[j].n
  /\ \A r \in Req : \A m \in Nat :
       m > Len(view[r]) /\ m <= Len(said[r]) => \E i \in DOMAIN wire : wire[i].req = r /\ wire[i].n = m

\* Nothing is on the wire at first, so every packet on it is stamped.
LEMMA InitStamped == Init => Stamped
<1> SUFFICES ASSUME Init PROVE Stamped
  OBVIOUS
<1>1. DOMAIN wire = {}
  BY DEF Init
<1>2. \A r \in Req : Len(said[r]) = 0 /\ Len(view[r]) = 0
  BY DEF Init
<1> QED
  BY <1>1, <1>2 DEF Stamped

\* The fields of a packet on the wire have their types.
LEMMA WireTyped ==
  ASSUME Orderly
  PROVE  \A i \in DOMAIN wire : wire[i].req \in Req /\ wire[i].n \in Nat
<1> SUFFICES ASSUME NEW i \in DOMAIN wire PROVE wire[i] \in Packet
  BY DEF Packet
<1>1. wire \in Seq(Packet)
  BY DEF Orderly, TypeOK
<1> QED
  BY <1>1

\* The next packet taken off the wire is the next one its request is waiting for.
LEMMA HeadIsNext ==
  ASSUME Orderly, Stamped, wire # <<>>, NEW r, r = wire[1].req
  PROVE  wire[1].n = Len(view[r]) + 1 /\ Len(view[r]) \in Nat /\ Len(said[r]) \in Nat
<1>1. r \in Req /\ 1 \in DOMAIN wire /\ wire[1] \in Packet
  BY HeadFound DEF Live
<1>2. Len(view[r]) \in Nat /\ Len(said[r]) \in Nat /\ wire[1].n \in Nat
  BY <1>1 DEF Orderly, TypeOK, Packet
<1>3. wire[1].n > Len(view[r]) /\ wire[1].n <= Len(said[r])
  BY <1>1 DEF Stamped
<1>4. PICK i \in DOMAIN wire : wire[i].req = r /\ wire[i].n = Len(view[r]) + 1
  BY <1>1, <1>2, <1>3 DEF Stamped
<1>5. i = 1 \/ 1 < i
  BY <1>4, TailShifts DEF Orderly, TypeOK
<1>6. 1 < i => wire[1].n < wire[i].n
  BY <1>1, <1>4 DEF Stamped
<1> QED
  BY <1>2, <1>3, <1>4, <1>5, <1>6

\* What the server says is stamped with its place in the answer.
LEMMA SayStamps ==
  ASSUME Orderly, Stamped, NEW r \in Req, NEW t \in Conversation, Say(r, t)
  PROVE  Stamped'
<1> DEFINE p == [id |-> asked[r], what |-> t[2], req |-> r, n |-> Len(said[r]) + 1]
<1>1. /\ said' = [said EXCEPT ![r] = Append(@, t[2])]
      /\ wire' = Append(wire, p)
      /\ UNCHANGED view
  BY DEF Say
<1>2. asked[r] \in Nat /\ t[2] \in What
  BY DEF Orderly, TypeOK, Addressed, Live, None, Say, Conversation, What
<1>3. p \in Packet
  BY <1>2 DEF Packet, Orderly, TypeOK
<1>4. /\ DOMAIN wire' = DOMAIN wire \cup {Len(wire) + 1}
      /\ \A i \in DOMAIN wire : wire'[i] = wire[i] /\ i \in Nat /\ i < Len(wire) + 1
      /\ wire'[Len(wire) + 1] = p
      /\ Len(wire) \in Nat
  BY <1>1, <1>3, AppendKeeps DEF Orderly, TypeOK
<1>5. p.req = r /\ p.what = t[2] /\ p.n = Len(said[r]) + 1
  OBVIOUS
<1> HIDE DEF p
<1>6. \A q \in Req : Len(view[q]) \in Nat /\ Len(said[q]) \in Nat /\ said[q] \in Seq(What)
  BY DEF Orderly, TypeOK
<1>7. /\ Len(said'[r]) = Len(said[r]) + 1
      /\ said'[r][Len(said[r]) + 1] = t[2]
      /\ \A m \in Nat : m >= 1 /\ m <= Len(said[r]) => said'[r][m] = said[r][m]
      /\ \A q \in Req \ {r} : said'[q] = said[q]
  BY <1>1, <1>2, <1>6 DEF Orderly, TypeOK
<1>8. \A i \in DOMAIN wire : wire[i].req \in Req /\ wire[i].n \in Nat
  BY WireTyped
<1>9. Len(view[r]) <= Len(said[r])
  BY DEF Stamped
<1>10. \A q \in Req : Len(view'[q]) <= Len(said'[q])
  BY <1>1, <1>6, <1>7 DEF Stamped
<1>11. ASSUME NEW i \in DOMAIN wire'
       PROVE  /\ wire'[i].n > Len(view'[wire'[i].req]) /\ wire'[i].n <= Len(said'[wire'[i].req])
              /\ wire'[i].what = said'[wire'[i].req][wire'[i].n]
              /\ \A j \in DOMAIN wire' : i < j /\ wire'[j].req = wire'[i].req => wire'[i].n < wire'[j].n
  <2>1. CASE i \in DOMAIN wire
    <3> DEFINE q == wire[i].req
    <3>1. /\ q \in Req /\ wire[i].n \in Nat
          /\ wire[i].n > Len(view[q]) /\ wire[i].n <= Len(said[q])
          /\ wire[i].what = said[q][wire[i].n]
          /\ \A j \in DOMAIN wire : i < j /\ wire[j].req = q => wire[i].n < wire[j].n
      BY <2>1, <1>8 DEF Stamped
    <3>2. wire'[i] = wire[i]
      BY <2>1, <1>4
    <3>3. said'[q][wire[i].n] = said[q][wire[i].n] /\ Len(said'[q]) >= Len(said[q])
      <4>1. wire[i].n >= 1
        BY <3>1, <1>6
      <4> HIDE DEF q
      <4>2. CASE q = r
        BY <3>1, <4>1, <4>2, <1>6, <1>7
      <4>3. CASE q # r
        BY <3>1, <4>3, <1>6, <1>7
      <4> QED
        BY <4>2, <4>3
    <3>4. \A j \in DOMAIN wire' : i < j /\ wire'[j].req = q => wire[i].n < wire'[j].n
      BY <3>1, <1>4, <1>5, <1>6
    <3> QED
      BY <3>1, <3>2, <3>3, <3>4, <1>1, <1>6, <1>7, SMTT(60)
  <2>2. CASE i = Len(wire) + 1
    BY <2>2, <1>1, <1>4, <1>5, <1>6, <1>7, <1>9
  <2> QED
    BY <2>1, <2>2, <1>4
<1>12. ASSUME NEW q \in Req, NEW m \in Nat, m > Len(view'[q]), m <= Len(said'[q])
       PROVE  \E i \in DOMAIN wire' : wire'[i].req = q /\ wire'[i].n = m
  <2>1. CASE q = r /\ m = Len(said[r]) + 1
    BY <2>1, <1>4, <1>5
  <2>2. CASE ~(q = r /\ m = Len(said[r]) + 1)
    <3>1. m > Len(view[q]) /\ m <= Len(said[q])
      BY <2>2, <1>1, <1>6, <1>7, <1>12
    <3>2. PICK i \in DOMAIN wire : wire[i].req = q /\ wire[i].n = m
      BY <3>1 DEF Stamped
    <3> QED
      BY <3>2, <1>4
  <2> QED
    BY <2>1, <2>2
<1> QED
  BY <1>10, <1>11, <1>12 DEF Stamped

\* Taking the head off the wire keeps the stamps of the others in step with view.
LEMMA PacketStamps ==
  ASSUME Orderly, Stamped, wire # <<>>, wire' = Tail(wire), NEW r, r = wire[1].req,
         view' = [view EXCEPT ![r] = Append(@, wire[1].what)], said' = said
  PROVE  Stamped'
<1>1. r \in Req /\ 1 \in DOMAIN wire /\ wire[1] \in Packet
  BY HeadFound DEF Live
<1>2. /\ \A i \in DOMAIN wire' : i \in Nat /\ i >= 1 /\ i + 1 \in DOMAIN wire /\ wire'[i] = wire[i + 1]
      /\ \A i \in DOMAIN wire : i # 1 => i - 1 \in DOMAIN wire' /\ wire'[i - 1] = wire[i]
  BY TailShifts DEF Orderly, TypeOK
<1>3. wire[1].n = Len(view[r]) + 1
  BY HeadIsNext
<1>4. \A q \in Req : Len(view[q]) \in Nat /\ Len(said[q]) \in Nat
  BY DEF Orderly, TypeOK
<1>5. /\ Len(view'[r]) = Len(view[r]) + 1
      /\ \A q \in Req \ {r} : view'[q] = view[q]
  BY <1>1 DEF Orderly, TypeOK, Packet
<1>6. \A i \in DOMAIN wire : wire[i].req \in Req /\ wire[i].n \in Nat
  BY WireTyped
<1>7. \A q \in Req : Len(view'[q]) <= Len(said'[q])
  BY <1>1, <1>3, <1>4, <1>5 DEF Stamped
<1>8. ASSUME NEW i \in DOMAIN wire'
      PROVE  /\ wire'[i].n > Len(view'[wire'[i].req]) /\ wire'[i].n <= Len(said'[wire'[i].req])
             /\ wire'[i].what = said'[wire'[i].req][wire'[i].n]
             /\ \A j \in DOMAIN wire' : i < j /\ wire'[j].req = wire'[i].req => wire'[i].n < wire'[j].n
  <2>1. i + 1 \in DOMAIN wire /\ wire'[i] = wire[i + 1] /\ 1 < i + 1
    BY <1>2
  <2>2. wire[i + 1].req = r => wire[1].n < wire[i + 1].n
    BY <1>1, <2>1 DEF Stamped
  <2>3. wire[i + 1].n > Len(view'[wire[i + 1].req])
    BY <1>3, <1>4, <1>5, <1>6, <2>1, <2>2 DEF Stamped
  <2>4. \A j \in DOMAIN wire' : i < j => i + 1 < j + 1
    BY <1>2
  <2> QED
    BY <1>2, <2>1, <2>3, <2>4 DEF Stamped
<1>9. ASSUME NEW q \in Req, NEW m \in Nat, m > Len(view'[q]), m <= Len(said'[q])
      PROVE  \E i \in DOMAIN wire' : wire'[i].req = q /\ wire'[i].n = m
  <2>1. m > Len(view[q]) /\ m <= Len(said[q]) /\ (q = r => m # wire[1].n)
    BY <1>3, <1>4, <1>5, <1>9
  <2>2. PICK i \in DOMAIN wire : wire[i].req = q /\ wire[i].n = m
    BY <2>1 DEF Stamped
  <2>3. i # 1
    BY <2>1, <2>2
  <2> QED
    BY <1>2, <2>2, <2>3
<1> QED
  BY <1>7, <1>8, <1>9 DEF Stamped

\* Every step keeps the stamps while the ids fit.
LEMMA NextStamped == Orderly /\ Stamped /\ [Next]_vars => Stamped'
<1> SUFFICES ASSUME Orderly, Stamped, [Next]_vars PROVE Stamped'
  OBVIOUS
<1>1. CASE UNCHANGED <<said, wire, view>>
  BY <1>1 DEF Stamped
<1>2. ASSUME NEW r \in Req, Answer(r) PROVE Stamped'
  BY <1>2, SayStamps DEF Answer
<1>3. CASE HandlePacket
  <2> DEFINE r == wire[1].req
  <2>1. /\ wire # <<>> /\ wire' = Tail(wire)
        /\ view' = [view EXCEPT ![r] = Append(@, wire[1].what)]
        /\ GoesOn(r) \/ Closes(r) \/ \E k \in KeyReq : HandleEndAndAskKey(r, k)
    BY <1>3, PacketHandled
  <2>2. said' = said
    BY <2>1 DEF GoesOn, Closes, HandleEndAndAskKey
  <2> QED
    BY <2>1, <2>2, PacketStamps
<1>4. Next => \/ UNCHANGED <<said, wire, view>>
              \/ \E r \in Req : Answer(r)
              \/ HandlePacket
  BY DEF Next, Ask, AskLeaks, AskUndone
<1> QED
  BY <1>1, <1>2, <1>3, <1>4 DEF vars

\* The initial state is one of the pipes.
LEMMA InitMaps == Init => Pipes!Init
BY DEF Init, Pipes!Init, Live, None

\* Every request that is made, and every one that fails, is one of ChannelPipes.
LEMMA AskMaps ==
  ASSUME Orderly, NEW r \in Req, Ask(r) \/ AskLeaks(r) \/ AskUndone(r)
  PROVE  Pipes!Next
<1>1. r \notin Live
  BY DEF Orderly, Addressed, Ask, AskLeaks, AskUndone
<1>2. next \in Nat /\ id \in [Req -> Nat \cup {None}]
  BY DEF Orderly, TypeOK
<1>3. CASE Ask(r)
  <2>1. Live' = Live \cup {r}
    BY <1>2, <1>3 DEF Ask, Live, None
  <2> QED
    BY <1>3, <2>1 DEF Ask, Pipes!Next, Pipes!Ask, FirstPhase, Pipes!FirstPhase
<1>4. CASE AskLeaks(r)
  <2>1. Live' = Live \cup {r}
    BY <1>2, <1>4 DEF AskLeaks, Live, None
  <2> QED
    BY <1>4, <2>1 DEF AskLeaks, Pipes!Next, Pipes!Lose
<1>5. CASE AskUndone(r)
  <2>1. Live' = Live
    BY <1>5 DEF AskUndone, Live
  <2> QED
    BY <1>5, <2>1 DEF AskUndone, Pipes!Next, Pipes!Lose
<1> QED
  BY <1>3, <1>4, <1>5

\* The server's packets are the pipes' packets.
LEMMA SayMaps ==
  ASSUME NEW r \in Req, Answer(r)
  PROVE  Pipes!Next
<1>1. PICK t \in Conversation : Say(r, t)
  BY DEF Answer
<1>2. Live' = Live
  BY <1>1 DEF Say, Live
<1>3. Pipes!Say(r)
  <2>1. Pipes!Conversation = Conversation
    BY DEF Conversation, Pipes!Conversation
  <2> QED
    BY <1>1, <1>2, <2>1 DEF Say, Pipes!Say
<1> QED
  BY <1>3 DEF Pipes!Next

\* A packet taken off the shared connection is the next one of its own pipe.
LEMMA PacketMaps ==
  ASSUME Orderly, Stamped, HandlePacket
  PROVE  Pipes!Next
<1> DEFINE r == wire[1].req
<1>1. /\ wire # <<>> /\ wire' = Tail(wire)
      /\ view' = [view EXCEPT ![r] = Append(@, wire[1].what)]
      /\ GoesOn(r) \/ Closes(r) \/ \E k \in KeyReq : HandleEndAndAskKey(r, k)
  BY PacketHandled
<1>2. r \in Live /\ r \in Req /\ 1 \in DOMAIN wire
  BY <1>1, HeadFound DEF Live
<1>3. wire[1].n = Len(view[r]) + 1 /\ Len(view[r]) \in Nat /\ Len(said[r]) \in Nat
  BY <1>1, HeadIsNext
<1>4. /\ Len(view[r]) < Len(said[r])
      /\ wire[1].what = said[r][Len(view[r]) + 1]
  BY <1>2, <1>3 DEF Stamped
<1>5. view' = [view EXCEPT ![r] = Append(@, said[r][Len(@) + 1])]
  BY <1>1, <1>4
<1>6. id \in [Req -> Nat \cup {None}] /\ next \in Nat
  BY DEF Orderly, TypeOK
<1>7. Pipes!Closing = Closing
  BY DEF Closing, Pipes!Closing
<1> HIDE DEF r
<1>8. CASE GoesOn(r)
  <2>1. Live' = Live /\ srv' = srv /\ said' = said /\ wire[1].what \notin Closing
    BY <1>8 DEF GoesOn, Live, Closing
  <2>2. Pipes!Deliver(r)
    BY <1>2, <1>4, <1>5, <2>1, <1>7 DEF Pipes!Deliver
  <2> QED
    BY <1>2, <2>2 DEF Pipes!Next
<1>9. CASE Closes(r)
  <2>1. id' = [id EXCEPT ![r] = None] /\ srv' = srv /\ said' = said /\ wire[1].what \in Closing
    BY <1>9 DEF Closes, Unregister
  <2>2. Live' = Live \ {r}
    BY <1>2, <1>6, <2>1 DEF Live
  <2>3. Pipes!Deliver(r)
    BY <1>2, <1>4, <1>5, <2>1, <2>2, <1>7 DEF Pipes!Deliver
  <2> QED
    BY <1>2, <2>3 DEF Pipes!Next
<1>10. ASSUME NEW k \in KeyReq, HandleEndAndAskKey(r, k)
      PROVE  Pipes!Next
  <2>1. /\ Arrived = wire[1] /\ wire[1].what = "empty" /\ wire[1].what \in Closing
        /\ srv[k] = "idle"
        /\ id' = [id EXCEPT ![k] = next, ![r] = None]
        /\ said' = said
        /\ srv' \in {[srv EXCEPT ![k] = "key"], [srv EXCEPT ![k] = "lost"]}
    BY <1>1, <1>10, HeadFound DEF HandleEndAndAskKey, Closing
  <2>2. k \in Req /\ k \notin Live
    BY <2>1, RequestAssumption DEF Orderly, Addressed
  <2>3. k # r
    BY <1>2, <2>2
  <2>4. Live' = (Live \ {r}) \cup {k}
    BY <1>2, <1>6, <2>1, <2>2, <2>3 DEF Live, None
  <2>5. Pipes!Deliver(r)
    BY <1>2, <1>4, <1>5, <2>1, <2>3, <2>4, <1>7 DEF Pipes!Deliver
  <2> QED
    BY <1>2, <2>5 DEF Pipes!Next
<1> QED
  BY <1>1, <1>8, <1>9, <1>10

\* Every step after which the ids still fit is a step of the pipes or changes nothing they
\* show.
LEMMA StepMaps ==
  IInv /\ (Fits => Stamped) /\ [Next]_vars => [Fits' => Pipes!Next]_<<srv, said, view, Live>>
<1> SUFFICES ASSUME IInv, Fits => Stamped, Next, Fits' PROVE Pipes!Next
  BY DEF vars, Live
<1>1. Orderly /\ Stamped
  BY FitsBefore DEF IInv
<1> QED
  BY <1>1, AskMaps, SayMaps, PacketMaps DEF Next

\* One ordered connection, reused ids and all, gives every request a private ordered
\* pipe that closes with the end of its answer, for any number of requests and as long
\* as the ids of the list fit into a packet.
THEOREM Refinement == Spec => ImplementsPipes
<1>1. Init => (Fits => Stamped)
  BY InitStamped
<1>2. IInv /\ (Fits => Stamped) /\ [Next]_vars => (Fits' => Stamped')
  BY FitsBefore, NextStamped DEF IInv
<1>3. Spec => [](Fits => Stamped)
  BY <1>1, <1>2, Invariance, PTL DEF Spec
<1> QED
  BY InitMaps, StepMaps, <1>3, Invariance, PTL DEF Spec, ImplementsPipes, Pipes!pvars
=============================================================================
