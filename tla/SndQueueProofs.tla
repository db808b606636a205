---------------------------- MODULE SndQueueProofs ----------------------------
(***************************************************************************)
(* For every list, every size of packets, pages, reads and of the queue,   *)
(* and any number of failed requests: the variables of the sound queue     *)
(* keep their types; never more than one substream is fetched at a time,   *)
(* although the two threads share dlstate without a lock; what is queued   *)
(* has no gap and its own keys, and is counted exactly; a playlist that is *)
(* ended early was about to go on, and only after that is a substream      *)
(* asked for without a track.                                              *)
(***************************************************************************)
EXTENDS SndQueue, SequenceTheorems, FiniteSetTheorems, TLAPS

\* What has been used up of the first buffer is no more than is in it, and only data is.
Consumed ==
  consumed = 0 \/ (fifo # <<>> /\ Head(fifo).cmd = "DATA" /\ consumed <= Head(fifo).len)

\* N offers packets whole; only Push cuts.
WholePackets == buff.cmd = "DATA" => buff.len = PacketLen

-----------------------------------------------------------------------------
(* Types. *)

\* The flags stay Boolean, in every step.
LEMMA FlagsKept == FlagTypes /\ [Next]_vars => FlagTypes'
<1> SUFFICES ASSUME FlagTypes, [Next]_vars PROVE FlagTypes'
  OBVIOUS
<1> USE DEF FlagTypes, session, call, history, dvars
<1>1. CASE AesCallback \/ AesKeyError \/ SubstreamData \/ SubstreamError \/ SubstreamEnd
  BY <1>1, Zenon DEF AesCallback, AesKeyError, SubstreamData, SubstreamError, SubstreamEnd
<1>2. CASE AdvanceTrack \/ EndIoctl \/ OfferEnd \/ PushNull \/ Push \/ Signal \/ AfterEnd \/ ChannelEnd
  BY <1>2, Zenon DEF AdvanceTrack, EndIoctl, OfferEnd, PushNull, Push, Signal, AfterEnd, ChannelEnd
<1>3. CASE GetPcm \/ FillFifo \/ Choose \/ SayBusy \/ SendRequest
  BY <1>3, Zenon DEF GetPcm, FillFifo, Choose, SayBusy, SendRequest
<1>4. CASE Decode
  BY <1>4, Zenon DEF Decode
<1>5. CASE CondWait \/ CondWake \/ NothingThere \/ TakeStart \/ TakeData \/ LeaveEnd
  BY <1>5, Zenon DEF CondWait, CondWake, NothingThere, TakeStart, TakeData, LeaveEnd
<1>6. CASE Lock \/ Return \/ UseFreed
  BY <1>6, Zenon DEF Lock, Return, UseFreed
<1>7. CASE TakeEnd
  <2>1. sawEnd' \in BOOLEAN /\ early' \in BOOLEAN
    BY <1>7, Zenon DEF TakeEnd
  <2> QED
    BY <1>7, <2>1, Zenon DEF TakeEnd
<1>8. CASE StopLook \/ StopAbort \/ StopWait
  BY <1>8, Zenon DEF StopLook, StopAbort, StopWait
<1>9. CASE StopClear \/ Report
  BY <1>9, Zenon DEF StopClear, Report
<1>10. CASE UNCHANGED vars
  BY <1>10, Zenon DEF vars
<1> QED
  BY <1>1, <1>2, <1>3, <1>4, <1>5, <1>6, <1>7, <1>8, <1>9, <1>10, Zenon
     DEF Next, Network, Decoder

\* Every step leads to a place of the program.
LEMMA PlacesKept == PlaceTypes /\ QueueTypes /\ [Next]_vars => PlaceTypes'
<1> SUFFICES ASSUME PlaceTypes, QueueTypes, [Next]_vars PROVE PlaceTypes'
  OBVIOUS
<1> USE DEF PlaceTypes, Cmd, fifoVars, session, nvars, call, history, dvars, Offer
<1>1. CASE AesCallback \/ AesKeyError \/ SubstreamData
  BY <1>1 DEF AesCallback, AesKeyError, SubstreamData
<1>2. CASE SubstreamError \/ SubstreamEnd \/ AdvanceTrack \/ EndIoctl \/ OfferEnd \/ PushNull
  BY <1>2 DEF SubstreamError, SubstreamEnd, AdvanceTrack, EndIoctl, OfferEnd, PushNull
<1>3. CASE Push \/ AfterEnd \/ ChannelEnd
  BY <1>3 DEF Push, AfterEnd, ChannelEnd
<1>4. CASE Signal
  BY <1>4 DEF Signal, QueueTypes, Buffer
<1>5. CASE GetPcm \/ FillFifo \/ Choose
  BY <1>5 DEF GetPcm, FillFifo, Choose
<1>6. CASE SayBusy \/ SendRequest \/ Decode
  BY <1>6 DEF SayBusy, SendRequest, Decode
<1>7. CASE Lock \/ CondWait \/ CondWake \/ NothingThere
  BY <1>7 DEF Lock, CondWait, CondWake, NothingThere
<1>8. CASE TakeStart \/ LeaveEnd \/ TakeEnd
  BY <1>8 DEF TakeStart, LeaveEnd, TakeEnd
<1>9. CASE TakeData
  BY <1>9 DEF TakeData
<1>10. CASE Return \/ UseFreed
  BY <1>10 DEF Return, UseFreed
<1>11. CASE StopLook \/ StopAbort \/ StopWait \/ StopClear \/ Report
  BY <1>11 DEF StopLook, StopAbort, StopWait, StopClear, Report
<1>12. CASE UNCHANGED vars
  <2>1. lastcmd' = lastcmd /\ lock' = lock /\ dlstate' = dlstate /\ vf' = vf /\ npc' = npc
    BY <1>12, Zenon DEF vars, nvars
  <2>2. dpc' = dpc /\ back' = back /\ use' = use
    BY <1>12, Zenon DEF vars
  <2> QED
    <3>1. lastcmd' \in Cmd /\ lock' \in {"free", "D"}
      BY <2>1
    <3>2. dlstate' \in {"FILLING", "BUSY", "DRAINING", "END_OF_LIST"}
      BY <2>1
    <3>3. vf' \in {"null", "opening", "open", "broken"}
      BY <2>1
    <3> QED
      BY <2>1, <2>2, <3>1, <3>2, <3>3
<1> QED
  BY <1>1, <1>2, <1>3, <1>4, <1>5, <1>6, <1>7, <1>8, <1>9, <1>10, <1>11, <1>12
     DEF Next, Network, Decoder

\* NULL is not a track.
LEMMA NoTrackIsNone == NoTrack \notin TrackNo
<1>1. \A n \in Nat : 0 \notin 1..n
  OBVIOUS
<1>2. Len(Tracks) \in Nat
  BY SizesAssumption
<1> QED
  BY <1>1, <1>2, Zenon DEF TrackNo, NoTrack

\* START and END are buffers.
LEMMA CommandBuffers ==
  ASSUME NEW t \in TrackNo
  PROVE  /\ StartOf(t) \in Buffer /\ StartOf(t).cmd = "START"
         /\ EndOf(t) \in Buffer /\ EndOf(t).cmd = "END"
BY SizesAssumption DEF StartOf, EndOf, Buffer, Cmd

\* The cut leaves a buffer, because the first page is shorter than a packet.
LEMMA CutBuffer ==
  ASSUME NEW b \in Buffer, b.len = PacketLen
  PROVE  [b EXCEPT !.len = @ - PageLen] \in Buffer
<1>1. PacketLen - PageLen \in 0..PacketLen
  BY SizesAssumption
<1>2. [b EXCEPT !.len = @ - PageLen] = [b EXCEPT !.len = PacketLen - PageLen]
  BY DEF Buffer
<1> QED
  BY <1>1, <1>2 DEF Buffer

\* A buffer offered to snd_ioctl is dropped, or kept for the critical section.
LEMMA OfferedBuffer ==
  ASSUME NEW b \in Buffer, NEW dropped, Offer(b, dropped), QueueTypes, WholePackets,
         b.cmd = "DATA" => b.len = PacketLen
  PROVE  buff' \in Buffer /\ WholePackets'
BY DEF Offer, QueueTypes, WholePackets

\* What the network thread does next is always a buffer that is whole.
LEMMA BuffKept ==
  ASSUME QueueTypes, WholePackets, NetTypes, [Next]_vars
  PROVE  buff' \in Buffer /\ WholePackets'
<1> SUFFICES ASSUME buff' # buff PROVE buff' \in Buffer /\ WholePackets'
  BY DEF QueueTypes, WholePackets
<1>1. CASE AesCallback
  <2>1. track \in TrackNo
    BY <1>1 DEF AesCallback, NetTypes
  <2> QED
    BY <1>1, <2>1, CommandBuffers, OfferedBuffer DEF AesCallback
<1>2. CASE SubstreamData
  <2> DEFINE q == Head(pending)
             b == [cmd |-> "DATA", track |-> q.track, n |-> q.offset + arrived + 1,
                   len |-> PacketLen, key |-> aes]
  <2>1. q \in [kind : {"key", "stream"}, track : TrackNo, offset : Nat]
    BY <1>2, HeadTailProperties DEF SubstreamData, Answering, NetTypes
  <2>4. q.track \in TrackNo /\ q.offset + arrived + 1 \in Nat
    BY <2>1, SizesAssumption DEF NetTypes
  <2>2. b \in Buffer
    BY <2>4, SizesAssumption DEF Buffer, Cmd, NetTypes
  <2>3. Offer(b, "idle") /\ b.len = PacketLen
    BY <1>2 DEF SubstreamData
  <2> HIDE DEF b
  <2> QED
    BY <2>2, <2>3, OfferedBuffer
<1>3. CASE SubstreamEnd
  <2>1. arrived < Substream /\ buff' = EndOf(track) /\ (track # NoTrack \/ arrived = Substream)
    BY <1>3, Zenon DEF SubstreamEnd
  <2>2. track \in TrackNo
    BY <2>1, SizesAssumption DEF NetTypes
  <2> QED
    BY <2>1, <2>2, CommandBuffers DEF WholePackets
<1>4. CASE OfferEnd
  BY <1>4 DEF OfferEnd, Offer
<1>5. CASE \/ AesKeyError \/ SubstreamError \/ AdvanceTrack \/ EndIoctl \/ Push \/ PushNull
           \/ Signal \/ AfterEnd \/ ChannelEnd
  BY <1>5, Zenon DEF AesKeyError, SubstreamError, AdvanceTrack, EndIoctl, Push, PushNull, Signal,
                     AfterEnd, ChannelEnd, nvars
<1>6. CASE Decoder \/ UseFreed
  <2>1. UNCHANGED nvars
    BY <1>6, Zenon DEF Decoder, UseFreed, GetPcm, FillFifo, Choose, SayBusy, SendRequest, Decode,
                       Lock, CondWait, CondWake, NothingThere, TakeStart, TakeData, LeaveEnd,
                       TakeEnd, Return, StopLook, StopAbort, StopWait, StopClear, Report
  <2> QED
    BY <2>1, Zenon DEF nvars
<1>7. CASE UNCHANGED vars
  BY <1>7, Zenon DEF vars, nvars
<1> QED
  BY <1>1, <1>2, <1>3, <1>4, <1>5, <1>6, <1>7, Zenon DEF Next, Network

\* A buffer pushed onto the queue leaves the first one where it is.
LEMMA PushKeeps ==
  ASSUME QueueTypes, Consumed, WholePackets, Push
  PROVE  fifo' \in Seq(Buffer) /\ totbytes' \in Int /\ Consumed'
<1> DEFINE b == IF lastcmd = "START" /\ buff.cmd = "DATA"
                THEN [buff EXCEPT !.len = @ - PageLen] ELSE buff
<1>1. b \in Buffer
  BY CutBuffer DEF QueueTypes, WholePackets
<1>2. fifo' = Append(fifo, b) /\ totbytes' = totbytes + b.len /\ consumed' = consumed
  BY Zenon DEF Push
<1> HIDE DEF b
<1>3. b.len \in Int
  BY <1>1 DEF Buffer
<1>4. fifo' \in Seq(Buffer) /\ (fifo # <<>> => fifo' # <<>> /\ Head(fifo') = Head(fifo))
  BY <1>1, <1>2, HeadTailAppend DEF QueueTypes
<1> QED
  BY <1>2, <1>3, <1>4 DEF QueueTypes, Consumed

\* TakeData copies within the first buffer, and no more than was asked for.
LEMMA TakeDataKeeps ==
  ASSUME QueueTypes, Consumed, TakeData
  PROVE  /\ fifo' \in Seq(Buffer) /\ totbytes' \in Int /\ Consumed'
         /\ got' \in 0..ReadLen /\ consumed' \in 0..PacketLen
<1> DEFINE b == Head(fifo)
           length == MinOf(b.len - consumed, ReadLen - got)
<1>1. fifo # <<>> /\ b.cmd = "DATA"
  BY DEF TakeData, AtBuffer
<1>2. b \in Buffer /\ Tail(fifo) \in Seq(Buffer)
  BY <1>1, HeadTailProperties DEF QueueTypes
<1>3. b.len \in 0..PacketLen /\ consumed <= b.len
  BY <1>2 DEF Buffer, Consumed
<1>4. length \in Nat /\ got + length \in 0..ReadLen /\ consumed + length \in 0..b.len
  <2>1. b.len - consumed \in Nat /\ ReadLen - got \in Nat
    BY <1>3, SizesAssumption DEF QueueTypes
  <2>2. length \in Nat /\ length <= b.len - consumed /\ length <= ReadLen - got
    BY <2>1 DEF MinOf
  <2> HIDE DEF b, length
  <2> QED
    BY <1>3, <2>2, SizesAssumption DEF QueueTypes
<1>5. /\ got' = got + length
      /\ fifo' = IF consumed + length = b.len THEN Tail(fifo) ELSE fifo
      /\ consumed' = IF consumed + length = b.len THEN 0 ELSE consumed + length
      /\ totbytes' = IF consumed + length = b.len THEN totbytes - b.len ELSE totbytes
  BY Zenon DEF TakeData
<1> HIDE DEF b, length
<1>6. got' \in 0..ReadLen /\ totbytes' \in Int /\ fifo' \in Seq(Buffer)
  BY <1>2, <1>3, <1>4, <1>5 DEF QueueTypes
<1>7. consumed' \in 0..PacketLen
  BY <1>3, <1>4, <1>5, SizesAssumption
<1>8. Consumed'
  <2>1. CASE consumed + length = b.len
    BY <1>5, <2>1 DEF Consumed
  <2>2. CASE consumed + length # b.len
    <3>1. fifo' = fifo /\ consumed' <= b.len
      BY <1>3, <1>4, <1>5, <2>2
    <3> QED
      BY <1>1, <3>1 DEF Consumed, b
  <2> QED
    BY <2>1, <2>2
<1> QED
  BY <1>6, <1>7, <1>8

\* The queue keeps its types.
LEMMA QueueKept ==
  ASSUME QueueTypes, NetTypes, Consumed, WholePackets, [Next]_vars
  PROVE  QueueTypes' /\ Consumed' /\ WholePackets'
<1>1. buff' \in Buffer /\ WholePackets'
  BY BuffKept
<1> SUFFICES /\ fifo' \in Seq(Buffer) /\ consumed' \in 0..PacketLen /\ totbytes' \in Int
             /\ got' \in 0..ReadLen /\ ended' \in TrackNo \cup {NoTrack}
             /\ Consumed'
  BY <1>1 DEF QueueTypes
<1>2. CASE Push
  <2>1. UNCHANGED <<consumed, got, ended>>
    BY <1>2, Zenon DEF Push, dvars, call, history
  <2> QED
    BY <1>2, <2>1, PushKeeps DEF QueueTypes
<1>3. CASE TakeData
  <2>1. UNCHANGED ended
    BY <1>3, Zenon DEF TakeData, history
  <2> QED
    BY <1>3, <2>1, TakeDataKeeps DEF QueueTypes
<1>4. CASE TakeStart \/ TakeEnd
  <2>1. /\ fifo # <<>> /\ Head(fifo).cmd # "DATA" /\ fifo' = Tail(fifo)
        /\ UNCHANGED <<consumed, totbytes, got>>
    BY <1>4 DEF TakeStart, TakeEnd, AtBuffer, call
  <2>2. Tail(fifo) \in Seq(Buffer) /\ Head(fifo) \in Buffer
    BY <2>1, HeadTailProperties DEF QueueTypes
  <2>3. ended' = ended \/ ended' = Head(fifo).track
    BY <1>4, Zenon DEF TakeStart, TakeEnd, history
  <2>4. ended' \in TrackNo \cup {NoTrack}
    BY <2>2, <2>3 DEF QueueTypes, Buffer
  <2> QED
    BY <2>1, <2>2, <2>4 DEF QueueTypes, Consumed
<1>5. CASE StopClear
  <2>1. fifo' = <<>> /\ consumed' = 0 /\ totbytes' = 0 /\ got' = got /\ ended' = ended
    BY <1>5, Zenon DEF StopClear, call, history
  <2> QED
    BY <2>1, SizesAssumption DEF QueueTypes, Consumed
<1>6. CASE Lock \/ Return
  <2>1. got' = 0 /\ UNCHANGED <<fifo, consumed, totbytes, ended>>
    BY <1>6, Zenon DEF Lock, Return, fifoVars, history
  <2> QED
    BY <2>1, SizesAssumption DEF QueueTypes, Consumed
<1> DEFINE Same == UNCHANGED <<fifo, consumed, totbytes, got, ended>>
<1>7. CASE \/ AesCallback \/ SubstreamData \/ SubstreamEnd \/ AdvanceTrack \/ EndIoctl \/ OfferEnd
           \/ PushNull \/ Signal \/ AfterEnd
           \/ ChannelEnd \/ AesKeyError \/ SubstreamError
  <2>1. Same
    BY <1>7, Zenon DEF AesCallback, SubstreamData, SubstreamEnd, AdvanceTrack, EndIoctl, OfferEnd,
       PushNull, Signal, AfterEnd,
                       ChannelEnd, AesKeyError, SubstreamError, fifoVars, dvars, call, history
  <2> QED
    BY <2>1 DEF QueueTypes, Consumed
<1>8. CASE \/ GetPcm \/ FillFifo \/ Choose \/ SayBusy \/ SendRequest \/ Decode \/ CondWait
           \/ CondWake \/ NothingThere
  <2>1. Same
    BY <1>8, Zenon DEF GetPcm, FillFifo, Choose, SayBusy, SendRequest, Decode, CondWait, CondWake,
                       NothingThere, fifoVars, call, history
  <2> QED
    BY <2>1 DEF QueueTypes, Consumed
<1>9. CASE LeaveEnd \/ StopLook \/ StopAbort \/ StopWait \/ Report \/ UseFreed
  <2>1. Same
    BY <1>9, Zenon DEF LeaveEnd, StopLook, StopAbort, StopWait, Report, UseFreed, fifoVars, call,
                       history
  <2> QED
    BY <2>1 DEF QueueTypes, Consumed
<1>10. CASE UNCHANGED vars
  <2>1. Same
    BY <1>10, Zenon DEF vars, fifoVars, dvars, call, history
  <2> QED
    BY <2>1 DEF QueueTypes, Consumed
<1> QED
  BY <1>2, <1>3, <1>4, <1>5, <1>6, <1>7, <1>8, <1>9, <1>10, Zenon DEF Next, Network, Decoder

\* What may be pending.
Requests == [kind : {"key", "stream"}, track : TrackNo, offset : Nat]

\* The next track is a track of the list, or none.
LEMMA NextTrackType ==
  ASSUME NEW t \in TrackNo
  PROVE  NextTrack(t) \in TrackNo \cup {NoTrack}
BY SizesAssumption DEF NextTrack, TrackNo

\* The server has no more than a substream for a request.
LEMMA AmountType ==
  ASSUME NEW q \in Requests
  PROVE  Amount(q) \in 0..Substream
<1>1. q.track \in 1..Len(Tracks) /\ q.offset \in Nat
  BY DEF Requests, TrackNo
<1>2. Tracks[q.track] \in Nat
  BY <1>1, SizesAssumption
<1> QED
  BY <1>1, <1>2, SizesAssumption DEF Amount, MinOf

\* A request that is answered leaves the others.
LEMMA AnsweredRequest ==
  ASSUME NetTypes, NEW kind, Answering(kind)
  PROVE  /\ Head(pending) \in Requests /\ Head(pending).kind = kind
         /\ Tail(pending) \in Seq(Requests)
BY HeadTailProperties DEF NetTypes, Answering, Requests

\* A new request is of a type that may be pending.
LEMMA NewRequests ==
  ASSUME NetTypes, NEW t \in TrackNo, NEW o \in Nat
  PROVE  /\ KeyRequest(t) \in Requests /\ Append(pending, KeyRequest(t)) \in Seq(Requests)
         /\ StreamRequest(t, o) \in Requests
         /\ Append(pending, StreamRequest(t, o)) \in Seq(Requests)
<1>1. KeyRequest(t) \in Requests /\ StreamRequest(t, o) \in Requests
  BY DEF KeyRequest, StreamRequest, Requests
<1> QED
  BY <1>1, AppendProperties DEF NetTypes, Requests

\* Another failed request.
LEMMA FaultTypes ==
  ASSUME NetTypes, faults < MaxFaults, faults' = faults + 1, NEW t \in TrackNo,
         lost' = lost \cup {<<"stream">>} \/ lost' = lost \cup {<<"key", t>>}
  PROVE  /\ faults' \in 0..MaxFaults
         /\ lost' \subseteq ({<<"stream">>} \cup ({"key"} \X (TrackNo \cup {NoTrack})))
<1>1. faults' \in 0..MaxFaults
  BY SizesAssumption DEF NetTypes
<1>2. <<"key", t>> \in {"key"} \X (TrackNo \cup {NoTrack})
  OBVIOUS
<1> QED
  BY <1>1, <1>2, Zenon DEF NetTypes

\* What is asked for and answered keeps its types.
LEMMA NetKept ==
  ASSUME NetTypes, QueueTypes, [Next]_vars
  PROVE  NetTypes'
<1> USE DEF Requests
<1> DEFINE Lost == {<<"stream">>} \cup ({"key"} \X (TrackNo \cup {NoTrack}))
<1> SUFFICES /\ track' \in TrackNo \cup {NoTrack} /\ offset' \in Nat
             /\ aes' \in TrackNo \cup {NoTrack}
             /\ pending' \in Seq(Requests) /\ arrived' \in 0..Substream
             /\ faults' \in 0..MaxFaults /\ lost' \subseteq Lost
  BY DEF NetTypes
<1>1. CASE AesCallback
  <2>1. /\ Answering("key") /\ pending' = Tail(pending) /\ aes' = Head(pending).track
        /\ track' = track /\ offset' = offset /\ arrived' = arrived
    BY <1>1, Zenon DEF AesCallback
  <2>2. faults' = faults /\ lost' = lost
    BY <1>1, Zenon DEF AesCallback, faultVars
  <2>3. aes' \in TrackNo /\ pending' \in Seq(Requests)
    BY <2>1, AnsweredRequest
  <2> QED
    BY <2>1, <2>2, <2>3, Zenon DEF NetTypes
<1>2. CASE AesKeyError
  <2>1. /\ Answering("key") /\ pending' = Tail(pending)
        /\ faults < MaxFaults /\ faults' = faults + 1
        /\ lost' = lost \cup {<<"key", Head(pending).track>>}
    BY <1>2, Zenon DEF AesKeyError
  <2>2. aes' = aes /\ track' = track /\ offset' = offset /\ arrived' = arrived
    BY <1>2, Zenon DEF AesKeyError, session
  <2>3. Head(pending).track \in TrackNo /\ pending' \in Seq(Requests)
    BY <2>1, AnsweredRequest
  <2>4. faults' \in 0..MaxFaults /\ lost' \subseteq Lost
    BY <2>1, <2>3, FaultTypes, Zenon
  <2> QED
    BY <2>2, <2>3, <2>4, Zenon DEF NetTypes
<1>3. CASE SubstreamData
  <2>1. Answering("stream") /\ arrived < Amount(Head(pending)) /\ arrived' = arrived + 1
    BY <1>3, Zenon DEF SubstreamData
  <2>2. /\ aes' = aes /\ track' = track /\ offset' = offset /\ pending' = pending
        /\ faults' = faults /\ lost' = lost
    BY <1>3, Zenon DEF SubstreamData, session, faultVars
  <2>3. Amount(Head(pending)) \in 0..Substream
    BY <2>1, AnsweredRequest, AmountType
  <2>4. arrived' \in 0..Substream
    BY <2>1, <2>3, SizesAssumption DEF NetTypes
  <2> QED
    BY <2>2, <2>4, Zenon DEF NetTypes
<1>4. CASE SubstreamError
  <2>1. /\ Answering("stream") /\ pending' = Tail(pending) /\ arrived' = 0
        /\ faults < MaxFaults /\ faults' = faults + 1 /\ lost' = lost \cup {<<"stream">>}
    BY <1>4, Zenon DEF SubstreamError
  <2>2. aes' = aes /\ track' = track /\ offset' = offset
    BY <1>4, Zenon DEF SubstreamError, session
  <2>3. Head(pending).track \in TrackNo /\ pending' \in Seq(Requests)
    BY <2>1, AnsweredRequest
  <2>4. faults' \in 0..MaxFaults /\ lost' \subseteq Lost
    BY <2>1, <2>3, FaultTypes, Zenon
  <2>5. arrived' \in 0..Substream
    BY <2>1, SizesAssumption
  <2> QED
    BY <2>2, <2>3, <2>4, <2>5, Zenon DEF NetTypes
<1>5. CASE SubstreamEnd
  <2>1. /\ Answering("stream") /\ pending' = Tail(pending) /\ arrived' = 0
        /\ offset' = offset + arrived /\ track' = track
    BY <1>5, Zenon DEF SubstreamEnd
  <2>2. aes' = aes /\ faults' = faults /\ lost' = lost
    BY <1>5, Zenon DEF SubstreamEnd, faultVars
  <2>3. pending' \in Seq(Requests)
    BY <2>1, AnsweredRequest
  <2>4. arrived' \in 0..Substream /\ offset' \in Nat
    BY <2>1, SizesAssumption DEF NetTypes
  <2> QED
    BY <2>1, <2>2, <2>3, <2>4, Zenon DEF NetTypes
<1>6. CASE AfterEnd
  <2>1. aes' = aes /\ track' = track /\ arrived' = arrived /\ offset' = 0
    BY <1>6, Zenon DEF AfterEnd
  <2>2. \/ pending' = pending /\ UNCHANGED faultVars
        \/ /\ track # NoTrack /\ pending' = Append(pending, KeyRequest(track))
           /\ UNCHANGED faultVars
        \/ /\ track # NoTrack /\ faults < MaxFaults /\ faults' = faults + 1
           /\ lost' = lost \cup {<<"key", track>>} /\ pending' = pending
    BY <1>6, Zenon DEF AfterEnd
  <2>3. track # NoTrack => track \in TrackNo
    BY DEF NetTypes
  <2>4. 0 \in Nat
    OBVIOUS
  <2>5. pending' \in Seq(Requests)
    BY <2>2, <2>3, <2>4, NewRequests, Zenon DEF NetTypes
  <2>6. faults' \in 0..MaxFaults /\ lost' \subseteq Lost
    BY <2>2, <2>3, FaultTypes, Zenon DEF NetTypes, faultVars
  <2> QED
    BY <2>1, <2>4, <2>5, <2>6, Zenon DEF NetTypes
<1>7. CASE SendRequest
  <2>1. aes' = aes /\ track' = track /\ offset' = offset /\ arrived' = arrived
    BY <1>7, Zenon DEF SendRequest, session
  <2>2. \/ pending' = pending /\ UNCHANGED faultVars
        \/ /\ track # NoTrack /\ pending' = Append(pending, StreamRequest(track, offset))
           /\ UNCHANGED faultVars
        \/ /\ track # NoTrack /\ faults < MaxFaults /\ faults' = faults + 1
           /\ lost' = lost \cup {<<"stream">>} /\ pending' = pending
    BY <1>7, Zenon DEF SendRequest
  <2>3. track # NoTrack => track \in TrackNo
    BY DEF NetTypes
  <2>4. pending' \in Seq(Requests)
    BY <2>2, <2>3, NewRequests, Zenon DEF NetTypes
  <2>5. faults' \in 0..MaxFaults /\ lost' \subseteq Lost
    BY <2>2, <2>3, FaultTypes, Zenon DEF NetTypes, faultVars
  <2> QED
    BY <2>1, <2>4, <2>5, Zenon DEF NetTypes
<1> DEFINE Same == /\ track' = track /\ offset' = offset /\ aes' = aes /\ pending' = pending
                   /\ arrived' = arrived /\ faults' = faults /\ lost' = lost
<1>8. Same => NetTypes'
  BY Zenon DEF NetTypes
<1>9. CASE \/ EndIoctl \/ OfferEnd \/ PushNull \/ Push \/ Signal \/ ChannelEnd \/ GetPcm
           \/ FillFifo \/ Choose \/ SayBusy \/ Decode
  <2>1. Same
    BY <1>9, Zenon DEF EndIoctl, OfferEnd, PushNull, Push, Signal, ChannelEnd, GetPcm, FillFifo,
                       Choose, SayBusy, Decode, session, net, faultVars
  <2> QED
    BY <1>8, <2>1, Zenon DEF NetTypes
<1>10. CASE \/ Lock \/ CondWait \/ CondWake \/ NothingThere \/ TakeStart \/ TakeData \/ LeaveEnd
            \/ TakeEnd
  <2>1. Same
    BY <1>10, Zenon DEF Lock, CondWait, CondWake, NothingThere, TakeStart, TakeData, LeaveEnd,
                        TakeEnd, session, net, faultVars
  <2> QED
    BY <1>8, <2>1, Zenon DEF NetTypes
<1>11. CASE Return \/ UseFreed \/ StopLook \/ StopAbort \/ StopWait \/ StopClear \/ Report
  <2>1. Same
    BY <1>11, Zenon DEF Return, UseFreed, StopLook, StopAbort, StopWait, StopClear, Report, session, net,
                        faultVars
  <2> QED
    BY <1>8, <2>1, Zenon DEF NetTypes
<1>12. CASE UNCHANGED vars
  <2>1. Same
    BY <1>12, Zenon DEF vars, session, net, faultVars
  <2> QED
    BY <1>8, <2>1, Zenon DEF NetTypes
<1>13. CASE AdvanceTrack
  <2>1. /\ offset' = offset /\ aes' = aes /\ pending' = pending /\ arrived' = arrived
        /\ faults' = faults /\ lost' = lost
    BY <1>13, Zenon DEF AdvanceTrack, net, faultVars
  <2>2. buff.track \in TrackNo
    BY DEF QueueTypes, Buffer
  <2>3. track' \in TrackNo \cup {NoTrack}
    BY <1>13, <2>2, NextTrackType, Zenon DEF AdvanceTrack
  <2> QED
    BY <2>1, <2>3, Zenon DEF NetTypes
<1> QED
  BY <1>1, <1>2, <1>3, <1>4, <1>5, <1>6, <1>7, <1>9, <1>10, <1>11, <1>12, <1>13, Zenon
     DEF Next, Network, Decoder

\* Types, and what they rest on.
TypeInv == TypeOK /\ Consumed /\ WholePackets

LEMMA TypeInit == Init => TypeInv
<1> SUFFICES ASSUME Init PROVE TypeInv
  OBVIOUS
<1>1. 1 \in TrackNo
  BY SizesAssumption DEF TrackNo
<1>2. FlagTypes
  BY Zenon DEF Init, FlagTypes
<1>3. PlaceTypes
  BY DEF Init, PlaceTypes, Cmd
<1>4. QueueTypes /\ Consumed
  BY <1>1, CommandBuffers, SizesAssumption DEF Init, QueueTypes, Consumed
<1>5. WholePackets
  BY <1>1, CommandBuffers DEF Init, WholePackets
<1>6. NetTypes
  <2>1. KeyRequest(1) \in Requests
    BY <1>1 DEF KeyRequest, Requests
  <2>2. pending \in Seq(Requests)
    BY <2>1 DEF Init
  <2> QED
    BY <1>1, <2>2, SizesAssumption DEF Init, NetTypes, Requests
<1> QED
  BY <1>2, <1>3, <1>4, <1>5, <1>6 DEF TypeInv, TypeOK

LEMMA TypeKept == TypeInv /\ [Next]_vars => TypeInv'
BY FlagsKept, PlacesKept, QueueKept, NetKept, Zenon DEF TypeInv, TypeOK

\* The variables of the sound queue have their types: what is queued are buffers of tracks of the
\* list, no longer than a packet, and the read callback never copies more than libvorbis asked
\* for (snd_ioctl, snd_ov_read_callback).
THEOREM SndTypeCorrect == Spec => []TypeOK
<1>1. TypeInv => TypeOK
  BY DEF TypeInv
<1> QED
  BY <1>1, TypeInit, TypeKept, PTL DEF Spec

-----------------------------------------------------------------------------
(* One fetch at a time. *)

StreamsOf(s) == {i \in DOMAIN s : s[i].kind = "stream"}
AtMostOne(s) == \A i, j \in StreamsOf(s) : i = j

\* A key request changes nothing about the substreams.
LEMMA AppendKey ==
  ASSUME NEW s \in Seq(Requests), NEW e \in Requests, e.kind = "key"
  PROVE  StreamsOf(Append(s, e)) = StreamsOf(s)
BY AppendProperties DEF StreamsOf

\* The first substream request is the only one.
LEMMA AppendStream ==
  ASSUME NEW s \in Seq(Requests), NEW e \in Requests, StreamsOf(s) = {}
  PROVE  AtMostOne(Append(s, e))
BY AppendProperties DEF StreamsOf, AtMostOne

\* An answer leaves no more substreams than there were.
LEMMA TailKeeps ==
  ASSUME NEW s \in Seq(Requests), s # <<>>, AtMostOne(s)
  PROVE  /\ AtMostOne(Tail(s))
         /\ StreamsOf(Tail(s)) # {} => StreamsOf(s) # {}
<1>1. \A i \in StreamsOf(Tail(s)) : i \in Int /\ i + 1 \in StreamsOf(s)
  BY HeadTailProperties DEF StreamsOf
<1> QED
  BY <1>1 DEF AtMostOne

\* The answer to the only substream leaves none.
LEMMA TailTakesIt ==
  ASSUME NEW s \in Seq(Requests), s # <<>>, AtMostOne(s), Head(s).kind = "stream"
  PROVE  StreamsOf(s) # {} /\ StreamsOf(Tail(s)) = {}
<1>1. 1 \in StreamsOf(s)
  BY DEF StreamsOf
<1>2. \A i \in StreamsOf(Tail(s)) : i \in Int /\ i >= 1 /\ i + 1 \in StreamsOf(s)
  BY HeadTailProperties DEF StreamsOf
<1> QED
  BY <1>1, <1>2 DEF AtMostOne

\* N is in the middle of the end of a substream.
Ending ==
  \/ npc \in {"advance", "end", "offer", "after end", "channel end", "dead"}
  \/ npc \in {"push", "signal"} /\ buff.cmd = "END"

\* D is about to ask for a substream.
Asking == dpc \in {"busy", "send"}

\* A substream is pending or ending only while dlstate is DL_BUSY and D asks for no other; after
\* the last track dlstate may be anything, and there is nothing left to ask for.
Fetch ==
  /\ AtMostOne(pending)
  /\ StreamsOf(pending) # {} => dlstate = "BUSY" /\ ~Asking /\ ~Ending
  /\ Ending => \/ dlstate = "BUSY" /\ ~Asking
               \/ track = NoTrack /\ npc \notin {"advance", "end"}
  /\ dpc = "send" => dlstate = "BUSY" \/ track = NoTrack
  /\ dpc = "stop clear" => dlstate # "BUSY"

LEMMA FetchInit == TypeInv /\ Init => Fetch
<1> SUFFICES ASSUME TypeInv, Init PROVE Fetch
  OBVIOUS
<1>1. StreamsOf(pending) = {}
  BY DEF Init, StreamsOf, KeyRequest
<1>2. ~Ending /\ dpc = "idle"
  BY DEF Init, Ending
<1> QED
  BY <1>1, <1>2 DEF Fetch, AtMostOne

\* The steps of the network thread.
LEMMA FetchNetwork ==
  ASSUME TypeInv, Fetch, Network \/ AesKeyError \/ SubstreamError
  PROVE  Fetch'
<1> USE DEF Fetch
<1>0. pending \in Seq(Requests)
  BY DEF TypeInv, TypeOK, NetTypes, Requests
<1>1. CASE AesCallback
  <2>1. /\ npc = "idle" /\ pending # <<>> /\ pending' = Tail(pending) /\ track \in TrackNo
        /\ npc' = "idle" \/ (npc' = "push" /\ buff' = StartOf(track))
        /\ UNCHANGED <<dlstate, track, dpc>>
    BY <1>1 DEF AesCallback, Answering, Offer, dvars, TypeInv, TypeOK, NetTypes
  <2>2. ~Ending'
    BY <2>1, CommandBuffers DEF Ending
  <2>3. AtMostOne(pending') /\ (StreamsOf(pending') # {} => StreamsOf(pending) # {})
    BY <1>0, <2>1, TailKeeps
  <2> QED
    BY <2>1, <2>2, <2>3 DEF Asking
<1>2. CASE AesKeyError
  <2>1. /\ npc = "idle" /\ pending # <<>> /\ pending' = Tail(pending)
        /\ UNCHANGED <<dlstate, track, dpc, npc>>
    BY <1>2 DEF AesKeyError, Answering, dvars, nvars, session
  <2>2. ~Ending'
    BY <2>1 DEF Ending
  <2>3. AtMostOne(pending') /\ (StreamsOf(pending') # {} => StreamsOf(pending) # {})
    BY <1>0, <2>1, TailKeeps
  <2> QED
    BY <2>1, <2>2, <2>3 DEF Asking
<1>3. CASE SubstreamData
  <2> DEFINE q == Head(pending)
             b == [cmd |-> "DATA", track |-> q.track, n |-> q.offset + arrived + 1,
                   len |-> PacketLen, key |-> aes]
  <2>0. npc = "idle" /\ Offer(b, "idle") /\ b.cmd = "DATA"
    BY <1>3 DEF SubstreamData, Answering
  <2> HIDE DEF b
  <2>1. /\ npc = "idle" /\ (npc' = "idle" \/ (npc' = "push" /\ buff'.cmd = "DATA"))
        /\ UNCHANGED <<dlstate, track, dpc, pending>>
    BY <1>3, <2>0 DEF SubstreamData, Offer, dvars, session
  <2>2. ~Ending'
    BY <2>1 DEF Ending
  <2> QED
    BY <2>1, <2>2 DEF Asking
<1>4. CASE SubstreamError
  <2>1. /\ npc = "idle" /\ pending # <<>> /\ Head(pending).kind = "stream"
        /\ pending' = Tail(pending)
        /\ UNCHANGED <<dlstate, track, dpc, npc>>
    BY <1>4 DEF SubstreamError, Answering, dvars, nvars, session
  <2>2. ~Ending'
    BY <2>1 DEF Ending
  <2>3. StreamsOf(pending') = {}
    BY <1>0, <2>1, TailTakesIt
  <2> QED
    BY <2>1, <2>2, <2>3 DEF AtMostOne
<1>5. CASE SubstreamEnd
  <2>1. /\ pending # <<>> /\ Head(pending).kind = "stream" /\ pending' = Tail(pending)
        /\ npc' \in {"advance", "channel end"}
        /\ UNCHANGED <<dlstate, dpc>>
    BY <1>5 DEF SubstreamEnd, Answering, dvars
  <2>2. StreamsOf(pending) # {} /\ StreamsOf(pending') = {}
    BY <1>0, <2>1, TailTakesIt
  <2> QED
    BY <2>1, <2>2 DEF AtMostOne, Asking
<1>6. CASE EndIoctl
  <2>1. /\ npc = "end" /\ dlstate' = (IF track = NoTrack THEN "END_OF_LIST" ELSE dlstate)
        /\ npc' = "offer"
        /\ UNCHANGED <<track, dpc, pending>>
    BY <1>6 DEF EndIoctl, dvars, net
  <2>2. Ending
    BY <2>1 DEF Ending
  <2> QED
    BY <2>1, <2>2 DEF Asking
<1>11. CASE AdvanceTrack
  <2>1. npc = "advance" /\ npc' = "end" /\ UNCHANGED <<dlstate, dpc, pending>>
    BY <1>11 DEF AdvanceTrack, dvars, net
  <2>2. Ending
    BY <2>1 DEF Ending
  <2> QED
    BY <2>1, <2>2 DEF Asking
<1>12. CASE OfferEnd
  <2>1. npc = "offer" /\ npc' \in {"push", "after end"} /\ UNCHANGED <<dlstate, track, dpc, pending>>
    BY <1>12 DEF OfferEnd, Offer, dvars, net, session
  <2>2. Ending
    BY <2>1 DEF Ending
  <2> QED
    BY <2>1, <2>2 DEF Asking
<1>13. CASE PushNull
  <2>1. npc' = "dead" /\ UNCHANGED <<dlstate, track, dpc, pending>>
    BY <1>13 DEF PushNull, dvars, net, session
  <2>2. Ending
    BY <1>13 DEF PushNull, Headless, Ending
  <2> QED
    BY <2>1, <2>2 DEF Asking
<1>7. CASE Push
  <2>1. /\ npc = "push" /\ npc' = "signal"
        /\ UNCHANGED <<buff, dlstate, track, dpc, pending>>
    BY <1>7 DEF Push, session, net, dvars
  <2>2. Ending' => Ending
    BY <2>1 DEF Ending
  <2> QED
    BY <2>1, <2>2 DEF Asking
<1>8. CASE Signal
  <2>1. /\ npc = "signal" /\ npc' = (IF buff.cmd = "END" THEN "after end" ELSE "idle")
        /\ dpc' = dpc \/ (dpc = "waiting" /\ dpc' = "woken")
        /\ UNCHANGED <<dlstate, track, pending>>
    BY <1>8 DEF Signal, session, net
  <2>2. Ending' => Ending
    BY <2>1 DEF Ending
  <2> QED
    BY <2>1, <2>2 DEF Asking
<1>9. CASE AfterEnd
  <2>1. /\ npc = "after end" /\ npc' = "channel end"
        /\ UNCHANGED <<dlstate, track, dpc>>
    BY <1>9 DEF AfterEnd, dvars
  <2>2. pending' = pending \/ (track # NoTrack /\ pending' = Append(pending, KeyRequest(track)))
    BY <1>9, Zenon DEF AfterEnd
  <2>3. StreamsOf(pending') = StreamsOf(pending)
    <3>1. CASE track \in TrackNo /\ pending' = Append(pending, KeyRequest(track))
      <4>1. KeyRequest(track) \in Requests /\ KeyRequest(track).kind = "key"
        BY <3>1 DEF KeyRequest, Requests
      <4> QED
        BY <1>0, <3>1, <4>1, AppendKey
    <3> QED
      BY <2>2, <3>1 DEF TypeInv, TypeOK, NetTypes
  <2>4. Ending
    BY <2>1 DEF Ending
  <2> QED
    BY <2>1, <2>3, <2>4 DEF Asking, AtMostOne
<1>10. CASE ChannelEnd
  <2>1. /\ npc = "channel end" /\ npc' = "idle"
        /\ dlstate' = (IF dlabort THEN "DRAINING"
                       ELSE IF dlstate # "END_OF_LIST" THEN "FILLING" ELSE dlstate)
        /\ UNCHANGED <<track, dpc, pending>>
    BY <1>10 DEF ChannelEnd, net, dvars
  <2>2. Ending /\ ~Ending'
    BY <2>1 DEF Ending
  <2> QED
    BY <2>1, <2>2 DEF Asking
<1> QED
  BY <1>1, <1>2, <1>3, <1>4, <1>5, <1>6, <1>7, <1>8, <1>9, <1>10, <1>11, <1>12, <1>13, Zenon
     DEF Network

\* The steps of the decoder thread.
LEMMA FetchDecoder ==
  ASSUME TypeInv, Fetch, Decoder \/ UseFreed
  PROVE  Fetch'
<1> USE DEF Fetch
<1>1. UNCHANGED <<npc, buff, track>>
  BY Zenon DEF Decoder, UseFreed, GetPcm, FillFifo, Choose, SayBusy, SendRequest, Decode, Lock,
               CondWait, CondWake, NothingThere, TakeStart, TakeData, LeaveEnd, TakeEnd, Return,
               StopLook, StopAbort, StopWait, StopClear, Report, nvars, session
<1>2. Ending' = Ending
  BY <1>1 DEF Ending
<1>3. back \in {"idle", "decode"}
  BY DEF TypeInv, TypeOK, PlaceTypes
<1>4. CASE Choose
  <2>1. /\ UNCHANGED pending
        /\ \/ dlstate # "BUSY" /\ dlstate' = dlstate /\ dpc' = "busy"
           \/ dlstate' = dlstate /\ dpc' = back
           \/ dlstate = "FILLING" /\ dlstate' = "DRAINING" /\ dpc' = back
    BY <1>4 DEF Choose, LowOnData, net
  <2> QED
    BY <1>1, <1>2, <1>3, <2>1 DEF Asking
<1>5. CASE SayBusy
  <2>1. dpc = "busy" /\ dpc' = "send" /\ dlstate' = "BUSY" /\ UNCHANGED pending
    BY <1>5 DEF SayBusy, net
  <2> QED
    BY <1>1, <1>2, <2>1 DEF Asking
<1>6. CASE SendRequest
  <2>1. dpc = "send" /\ dpc' = (IF track = NoTrack THEN "dead" ELSE back) /\ dlstate' = dlstate
    BY <1>6 DEF SendRequest, session
  <2>2. \/ pending' = pending
        \/ track # NoTrack /\ pending' = Append(pending, StreamRequest(track, offset))
    BY <1>6, Zenon DEF SendRequest
  <2>3. StreamsOf(pending) = {} /\ pending \in Seq(Requests)
    BY <2>1 DEF Asking, TypeInv, TypeOK, NetTypes, Requests
  <2>4. CASE track \in TrackNo /\ pending' = Append(pending, StreamRequest(track, offset))
    <3>1. StreamRequest(track, offset) \in Requests
      BY <2>4 DEF StreamRequest, Requests, TypeInv, TypeOK, NetTypes
    <3>2. AtMostOne(pending')
      BY <2>3, <2>4, <3>1, AppendStream
    <3>3. track # NoTrack
      BY <2>4, NoTrackIsNone
    <3> QED
      BY <1>1, <1>2, <1>3, <2>1, <3>2, <3>3 DEF Asking
  <2>5. CASE pending' = pending
    BY <1>1, <1>2, <1>3, <2>1, <2>3, <2>5 DEF Asking
  <2> QED
    BY <2>2, <2>4, <2>5 DEF TypeInv, TypeOK, NetTypes
<1>7. CASE StopWait
  <2>1. /\ dlstate # "BUSY" /\ dlstate' = "DRAINING" /\ dpc' = "stop clear"
        /\ UNCHANGED pending
    BY <1>7 DEF StopWait, net
  <2> QED
    BY <1>1, <1>2, <2>1 DEF Asking
<1>8. CASE StopClear
  <2>1. dpc = "stop clear" /\ dlstate' = "DRAINING" /\ dpc' = "report" /\ UNCHANGED pending
    BY <1>8 DEF StopClear, net
  <2> QED
    BY <1>1, <1>2, <2>1 DEF Asking
<1> DEFINE Elsewhere == UNCHANGED <<pending, dlstate>> /\ dpc' \notin {"busy", "send", "stop clear"}
<1>9. CASE GetPcm \/ FillFifo \/ Decode \/ Lock \/ CondWait \/ CondWake \/ NothingThere
  <2>1. Elsewhere
    BY <1>9 DEF GetPcm, FillFifo, Decode, Lock, CondWait, CondWake, NothingThere, net, session
  <2> QED
    BY <1>1, <1>2, <2>1 DEF Asking
<1>10. CASE TakeStart \/ TakeData \/ LeaveEnd \/ TakeEnd
  <2>1. Elsewhere
    BY <1>10 DEF TakeStart, TakeData, LeaveEnd, TakeEnd, net, session
  <2> QED
    BY <1>1, <1>2, <2>1 DEF Asking
<1>11. CASE Return \/ UseFreed \/ StopLook \/ StopAbort \/ Report
  <2>1. Elsewhere
    BY <1>11 DEF Return, UseFreed, StopLook, StopAbort, Report, net, session
  <2> QED
    BY <1>1, <1>2, <2>1 DEF Asking
<1> QED
  BY <1>4, <1>5, <1>6, <1>7, <1>8, <1>9, <1>10, <1>11, Zenon DEF Decoder

LEMMA FetchKept == TypeInv /\ Fetch /\ [Next]_vars => Fetch'
<1> SUFFICES ASSUME TypeInv, Fetch, [Next]_vars PROVE Fetch'
  OBVIOUS
<1>1. CASE UNCHANGED vars
  <2>1. UNCHANGED <<pending, dlstate, dpc, npc, buff, track>>
    BY <1>1, Zenon DEF vars, net, session, dvars, nvars
  <2> QED
    BY <2>1 DEF Fetch, Ending, Asking
<1> QED
  BY <1>1, FetchNetwork, FetchDecoder, Zenon DEF Next

\* Never more than one substream is fetched at a time, and while one is asked for or under way
\* dlstate is DL_BUSY, for every list, however the two threads interleave on dlstate, which no
\* lock guards (snd_fill_fifo, snd_ioctl).
THEOREM SndOneFetchAtATime == Spec => []OneFetchAtATime
<1>1. TypeInv /\ Fetch => OneFetchAtATime
  <2> SUFFICES ASSUME TypeInv, Fetch PROVE OneFetchAtATime
    OBVIOUS
  <2>1. StreamsPending = StreamsOf(pending)
    BY DEF StreamsPending, StreamsOf
  <2>2. Cardinality(StreamsOf(pending)) <= 1
    <3>1. CASE StreamsOf(pending) = {}
      BY <3>1, FS_EmptySet
    <3>2. CASE \E i : i \in StreamsOf(pending)
      <4>1. PICK i : i \in StreamsOf(pending)
        BY <3>2
      <4>2. StreamsOf(pending) = {i}
        BY <4>1 DEF Fetch, AtMostOne
      <4>3. Cardinality({i}) = 1
        BY FS_Singleton, Zenon
      <4> QED
        BY <4>2, <4>3
    <3> QED
      BY <3>1, <3>2
  <2> QED
    BY <2>1, <2>2 DEF OneFetchAtATime, Fetch, Ending, Asking, TypeInv, TypeOK, PlaceTypes
<1> QED
  BY <1>1, TypeInit, TypeKept, FetchInit, FetchKept, PTL DEF Spec

-----------------------------------------------------------------------------
(* The right key. *)

\* N has come to the end of a track and not yet asked for the key of the next.
EndingTrack ==
  \/ npc \in {"advance", "end", "offer", "after end", "dead"}
  \/ npc \in {"push", "signal"} /\ buff.cmd = "END"

\* N holds the END that it is to offer.
HoldingEnd == npc \in {"advance", "end", "offer"}

\* The key of track t is set up, or was never going to be.
HasKey(t) == aes = t \/ <<"key", t>> \in lost \/ ~(play_as_list \/ t = 1)

KeyPending == \E i \in DOMAIN pending : pending[i].kind = "key"

\* Whatever is pending is for the current track, and its key comes before its data.
Keyed ==
  /\ HoldingEnd => buff.cmd = "END"
  /\ npc = "advance" => pending = <<>>
  /\ EndingTrack /\ npc # "advance" => track # 1
  /\ \A i \in DOMAIN pending : pending[i].track = track
  /\ \A i \in StreamsOf(pending) : i = Len(pending)
  /\ EndingTrack \/ track = NoTrack \/ HasKey(track) \/ KeyPending

\* A buffer of data was decrypted with the key of its track, if there was one.
GoodKey(b) == b.cmd = "DATA" => b.key = b.track \/ <<"key", b.track>> \in lost
                                \/ ~(play_as_list \/ b.track = 1)
GoodKeys == (npc = "push" => GoodKey(buff)) /\ \A i \in DOMAIN fifo : GoodKey(fifo[i])

\* A good buffer stays good.
LEMMA GoodStays ==
  ASSUME lost \subseteq lost', play_as_list' = play_as_list, NEW b, GoodKey(b)
  PROVE  GoodKey(b)'
BY Zenon DEF GoodKey

\* What is lost stays lost, and play_as_list is chosen once.
LEMMA LostStays == [Next]_vars => lost \subseteq lost' /\ play_as_list' = play_as_list
<1> SUFFICES ASSUME [Next]_vars PROVE lost \subseteq lost' /\ play_as_list' = play_as_list
  OBVIOUS
<1> USE DEF faultVars
<1>1. CASE AesCallback \/ AesKeyError \/ SubstreamData \/ SubstreamError \/ SubstreamEnd
  BY <1>1, Zenon DEF AesCallback, AesKeyError, SubstreamData, SubstreamError, SubstreamEnd
<1>2. CASE AdvanceTrack \/ EndIoctl \/ OfferEnd \/ PushNull \/ Push \/ Signal \/ AfterEnd \/ ChannelEnd
  BY <1>2, Zenon DEF AdvanceTrack, EndIoctl, OfferEnd, PushNull, Push, Signal, AfterEnd, ChannelEnd
<1>3. CASE GetPcm \/ FillFifo \/ Choose \/ SayBusy \/ SendRequest \/ Decode
  BY <1>3, Zenon DEF GetPcm, FillFifo, Choose, SayBusy, SendRequest, Decode
<1>4. CASE Lock \/ CondWait \/ CondWake \/ NothingThere \/ TakeStart \/ TakeData \/ LeaveEnd
  BY <1>4, Zenon DEF Lock, CondWait, CondWake, NothingThere, TakeStart, TakeData, LeaveEnd
<1>5. CASE TakeEnd \/ Return \/ UseFreed \/ StopLook \/ StopAbort \/ StopWait \/ StopClear \/ Report
  BY <1>5, Zenon DEF TakeEnd, Return, UseFreed, StopLook, StopAbort, StopWait, StopClear, Report
<1>6. CASE UNCHANGED vars
  BY <1>6, Zenon DEF vars
<1> QED
  BY <1>1, <1>2, <1>3, <1>4, <1>5, <1>6, Zenon DEF Next, Network, Decoder

\* When a substream is answered it is the only request, so the key of its track is set up.
LEMMA StreamIsAlone ==
  ASSUME TypeInv, Keyed, Answering("stream")
  PROVE  /\ Head(pending).track = track /\ Tail(pending) = <<>> /\ track # NoTrack
         /\ HasKey(track)
<1>1. pending \in Seq(Requests) /\ pending # <<>> /\ Head(pending).kind = "stream" /\ npc = "idle"
  BY DEF Answering, TypeInv, TypeOK, NetTypes, Requests
<1>2. 1 \in StreamsOf(pending) /\ Head(pending) = pending[1] /\ 1 \in DOMAIN pending
  BY <1>1 DEF StreamsOf
<1>3. Len(pending) = 1
  BY <1>2 DEF Keyed
<1>4. pending[1].track = track /\ track \in TrackNo
  <2>1. pending[1] \in Requests
    BY <1>1, <1>2
  <2> QED
    BY <1>2, <2>1 DEF Keyed, Requests
<1>5. ~KeyPending
  BY <1>1, <1>2, <1>3 DEF KeyPending
<1>6. Tail(pending) = <<>>
  <2>1. Tail(pending) \in Seq(Requests) /\ Len(Tail(pending)) = 0
    BY <1>1, <1>3, HeadTailProperties
  <2> QED
    BY <2>1, EmptySeq
<1>7. ~EndingTrack
  BY <1>1 DEF EndingTrack
<1> QED
  BY <1>2, <1>4, <1>5, <1>6, <1>7, NoTrackIsNone, Zenon DEF Keyed

\* A track that has its key keeps it until another is set up.
LEMMA HasKeyStays ==
  ASSUME aes' = aes, lost \subseteq lost', play_as_list' = play_as_list, NEW t, HasKey(t)
  PROVE  HasKey(t)'
BY Zenon DEF HasKey

\* What is left after an answer is for the current track still.
LEMMA TailKeyed ==
  ASSUME TypeInv, Keyed, pending # <<>>, pending' = Tail(pending), track' = track
  PROVE  /\ \A i \in DOMAIN pending' : pending'[i].track = track'
         /\ \A i \in StreamsOf(pending') : i = Len(pending')
<1>1. pending \in Seq(Requests)
  BY DEF TypeInv, TypeOK, NetTypes, Requests
<1>2. Len(pending') = Len(pending) - 1 /\ pending' \in Seq(Requests) /\ Len(pending) \in Nat
  BY <1>1, HeadTailProperties
<1>3. \A i \in DOMAIN pending' : i \in Int /\ i + 1 \in DOMAIN pending /\ pending'[i] = pending[i + 1]
  BY <1>1, <1>2, HeadTailProperties
<1>4. \A i \in StreamsOf(pending') : i \in Int /\ i + 1 \in StreamsOf(pending)
  BY <1>3 DEF StreamsOf
<1>5. \A i \in StreamsOf(pending') : i = Len(pending')
  BY <1>2, <1>4 DEF Keyed
<1> QED
  BY <1>3, <1>5 DEF Keyed

\* A request is added for the current track, while no substream is pending.
LEMMA AppendKeyed ==
  ASSUME TypeInv, Keyed, StreamsOf(pending) = {}, NEW e \in Requests, e.track = track,
         pending' = Append(pending, e), track' = track
  PROVE  /\ \A i \in DOMAIN pending' : pending'[i].track = track'
         /\ \A i \in StreamsOf(pending') : i = Len(pending')
         /\ KeyPending \/ e.kind = "key" => KeyPending'
<1>1. pending \in Seq(Requests) /\ pending' \in Seq(Requests)
  BY AppendProperties DEF TypeInv, TypeOK, NetTypes, Requests
<1>2. /\ Len(pending') = Len(pending) + 1 /\ Len(pending) \in Nat /\ pending'[Len(pending) + 1] = e
      /\ DOMAIN pending = 1..Len(pending) /\ DOMAIN pending' = 1..Len(pending')
      /\ \A i \in 1..Len(pending) : pending'[i] = pending[i]
  BY <1>1, AppendProperties, LenProperties
<1>3. \A i \in DOMAIN pending' : pending'[i].track = track'
  BY <1>2 DEF Keyed
<1>4. \A i \in StreamsOf(pending') : i = Len(pending')
  BY <1>2 DEF StreamsOf
<1>5. KeyPending \/ e.kind = "key" => KeyPending'
  BY <1>2 DEF KeyPending
<1> QED
  BY <1>3, <1>4, <1>5

\* After an answer to a substream nothing is pending.
LEMMA NothingPending ==
  ASSUME pending' = <<>>
  PROVE  /\ \A i \in DOMAIN pending' : pending'[i].track = track'
         /\ \A i \in StreamsOf(pending') : i = Len(pending')
BY DEF StreamsOf

\* The answers of the server.
LEMMA KeyedAnswers ==
  ASSUME TypeInv, Keyed, [Next]_vars,
         AesCallback \/ AesKeyError \/ SubstreamData \/ SubstreamError \/ SubstreamEnd
  PROVE  Keyed'
<1>1. lost \subseteq lost' /\ play_as_list' = play_as_list
  BY LostStays
<1>2. \A kind : Answering(kind) => npc = "idle" /\ pending # <<>> /\ ~EndingTrack
  BY DEF Answering, EndingTrack
<1>3. CASE AesCallback
  <2>1. /\ Answering("key") /\ pending' = Tail(pending) /\ aes' = Head(pending).track
        /\ track' = track /\ track # NoTrack /\ Offer(StartOf(track), "idle")
    BY <1>3, Zenon DEF AesCallback
  <2>2. npc' = "idle" \/ (npc' = "push" /\ buff'.cmd = "START")
    BY <2>1, CommandBuffers DEF Offer, TypeInv, TypeOK, NetTypes
  <2>3. Head(pending).track = track
    <3>1. pending # <<>> /\ pending \in Seq(Requests)
      BY <1>2, <2>1 DEF TypeInv, TypeOK, NetTypes, Requests
    <3>2. 1 \in DOMAIN pending /\ Head(pending) = pending[1]
      BY <3>1
    <3> QED
      BY <3>2 DEF Keyed
  <2>4. ~EndingTrack' /\ ~HoldingEnd' /\ npc' # "advance"
    BY <2>2 DEF EndingTrack, HoldingEnd
  <2>5. HasKey(track)'
    BY <2>1, <2>3, Zenon DEF HasKey
  <2>6. /\ \A i \in DOMAIN pending' : pending'[i].track = track'
        /\ \A i \in StreamsOf(pending') : i = Len(pending')
    BY <1>2, <2>1, TailKeyed, Zenon
  <2> QED
    BY <2>4, <2>5, <2>6, Zenon DEF Keyed
<1>4. CASE AesKeyError
  <2>1. /\ Answering("key") /\ pending' = Tail(pending)
        /\ lost' = lost \cup {<<"key", Head(pending).track>>}
    BY <1>4, Zenon DEF AesKeyError
  <2>2. track' = track /\ npc' = npc /\ buff' = buff
    BY <1>4, Zenon DEF AesKeyError, session, nvars
  <2>3. Head(pending).track = track
    <3>1. pending # <<>> /\ pending \in Seq(Requests)
      BY <1>2, <2>1 DEF TypeInv, TypeOK, NetTypes, Requests
    <3>2. 1 \in DOMAIN pending /\ Head(pending) = pending[1]
      BY <3>1
    <3> QED
      BY <3>2 DEF Keyed
  <2>4. ~EndingTrack' /\ ~HoldingEnd' /\ npc' # "advance"
    BY <1>2, <2>1, <2>2 DEF EndingTrack, HoldingEnd
  <2>5. HasKey(track)'
    BY <2>1, <2>2, <2>3, Zenon DEF HasKey
  <2>6. /\ \A i \in DOMAIN pending' : pending'[i].track = track'
        /\ \A i \in StreamsOf(pending') : i = Len(pending')
    BY <1>2, <2>1, <2>2, TailKeyed, Zenon
  <2> QED
    BY <2>4, <2>5, <2>6, Zenon DEF Keyed
<1>5. CASE SubstreamData
  <2> DEFINE q == Head(pending)
             b == [cmd |-> "DATA", track |-> q.track, n |-> q.offset + arrived + 1,
                   len |-> PacketLen, key |-> aes]
  <2>1. Answering("stream") /\ Offer(b, "idle") /\ b.cmd = "DATA"
    BY <1>5 DEF SubstreamData
  <2>2. track' = track /\ aes' = aes /\ pending' = pending
    BY <1>5, Zenon DEF SubstreamData, session
  <2> HIDE DEF b
  <2>3. ~EndingTrack' /\ ~HoldingEnd' /\ npc' # "advance"
    BY <1>2, <2>1 DEF EndingTrack, HoldingEnd, Offer
  <2>4. HasKey(track)'
    BY <1>1, <2>1, <2>2, StreamIsAlone, HasKeyStays
  <2> QED
    BY <2>2, <2>3, <2>4, Zenon DEF Keyed
<1>6. CASE SubstreamError
  <2>1. Answering("stream") /\ pending' = Tail(pending)
    BY <1>6, Zenon DEF SubstreamError
  <2>2. track' = track /\ aes' = aes /\ npc' = npc /\ buff' = buff
    BY <1>6, Zenon DEF SubstreamError, session, nvars
  <2>3. ~EndingTrack' /\ ~HoldingEnd' /\ npc' # "advance"
    BY <1>2, <2>1, <2>2 DEF EndingTrack, HoldingEnd
  <2>4. HasKey(track)' /\ pending' = <<>>
    BY <1>1, <2>1, <2>2, StreamIsAlone, HasKeyStays
  <2> QED
    BY <2>3, <2>4, NothingPending, Zenon DEF Keyed
<1>7. CASE SubstreamEnd
  <2>1. Answering("stream") /\ pending' = Tail(pending) /\ aes' = aes
    BY <1>7, Zenon DEF SubstreamEnd
  <2>2. /\ track' = track
        /\ (npc' = "advance" /\ buff' = EndOf(track)) \/ npc' = "channel end"
    BY <1>7, Zenon DEF SubstreamEnd
  <2>3. pending' = <<>> /\ HasKey(track) /\ track \in TrackNo
    BY <2>1, StreamIsAlone DEF TypeInv, TypeOK, NetTypes
  <2>4. CASE npc' = "advance" /\ buff' = EndOf(track)
    <3>1. buff'.cmd = "END" /\ EndingTrack'
      BY <2>3, <2>4, CommandBuffers DEF EndingTrack
    <3> QED
      BY <2>3, <2>4, <3>1, NothingPending, Zenon DEF Keyed
  <2>5. CASE npc' = "channel end"
    <3>1. ~EndingTrack' /\ ~HoldingEnd' /\ npc' # "advance"
      BY <2>5 DEF EndingTrack, HoldingEnd
    <3>2. HasKey(track)'
      BY <1>1, <2>1, <2>2, <2>3, HasKeyStays
    <3> QED
      BY <2>3, <3>1, <3>2, NothingPending, Zenon DEF Keyed
  <2> QED
    BY <2>2, <2>4, <2>5
<1> QED
  BY <1>3, <1>4, <1>5, <1>6, <1>7

\* The other steps.
LEMMA KeyedKept ==
  ASSUME TypeInv, Fetch, Keyed, [Next]_vars
  PROVE  Keyed'
<1>1. lost \subseteq lost' /\ play_as_list' = play_as_list
  BY LostStays
<1>2. pending \in Seq(Requests)
  BY DEF TypeInv, TypeOK, NetTypes, Requests
<1>3. track = NoTrack \/ track \in TrackNo
  BY DEF TypeInv, TypeOK, NetTypes
<1> DEFINE Same == pending' = pending /\ track' = track /\ aes' = aes
<1>4. ASSUME Same, EndingTrack' <=> EndingTrack, HoldingEnd' => HoldingEnd /\ buff' = buff,
             npc = "advance" <=> npc' = "advance"
      PROVE  Keyed'
  <2>1. HasKey(track) => HasKey(track)'
    BY <1>1, <1>4, HasKeyStays, Zenon
  <2>2. KeyPending' <=> KeyPending
    BY <1>4 DEF KeyPending
  <2>3. /\ \A i \in DOMAIN pending' : pending'[i].track = track'
        /\ \A i \in StreamsOf(pending') : i = Len(pending')
    BY <1>4, Zenon DEF Keyed
  <2> QED
    BY <1>4, <2>1, <2>2, <2>3, Zenon DEF Keyed
<1>5. CASE AesCallback \/ AesKeyError \/ SubstreamData \/ SubstreamError \/ SubstreamEnd
  BY <1>5, KeyedAnswers
<1>6. CASE EndIoctl \/ OfferEnd
  <2>1. Same /\ npc \in {"end", "offer"} /\ npc' \in {"offer", "after end", "push"}
    BY <1>6 DEF EndIoctl, OfferEnd, Offer, net, session
  <2>2. buff' = buff
    BY <1>6 DEF EndIoctl, OfferEnd, Offer
  <2>3. EndingTrack /\ EndingTrack' /\ HoldingEnd
    BY <2>1, <2>2 DEF EndingTrack, HoldingEnd, Keyed
  <2> QED
    BY <1>4, <2>1, <2>2, <2>3
<1>16. CASE AdvanceTrack
  <2>1. /\ npc = "advance" /\ npc' = "end" /\ track' = NextTrack(buff.track)
        /\ buff' = buff /\ pending' = pending
    BY <1>16, Zenon DEF AdvanceTrack, net
  <2>2. pending' = <<>> /\ buff'.cmd = "END"
    BY <2>1 DEF Keyed, HoldingEnd
  <2>3. track' # 1
    BY <2>1, SizesAssumption DEF NextTrack, TrackNo, NoTrack, TypeInv, TypeOK, QueueTypes, Buffer
  <2>4. EndingTrack' /\ npc' # "advance"
    BY <2>1 DEF EndingTrack
  <2> QED
    BY <2>2, <2>3, <2>4, NothingPending, Zenon DEF Keyed
<1>17. CASE PushNull
  <2>1. Same /\ npc = "push" /\ buff.cmd = "END" /\ npc' = "dead"
    BY <1>17, Zenon DEF PushNull, Headless, net, session
  <2>2. EndingTrack /\ EndingTrack' /\ ~HoldingEnd'
    BY <2>1 DEF EndingTrack, HoldingEnd
  <2> QED
    BY <1>4, <2>1, <2>2
<1>7. CASE Push
  <2>1. Same /\ npc = "push" /\ npc' = "signal" /\ buff' = buff
    BY <1>7, Zenon DEF Push, net, session
  <2>2. (EndingTrack' <=> EndingTrack) /\ ~HoldingEnd'
    BY <2>1 DEF EndingTrack, HoldingEnd
  <2> QED
    BY <1>4, <2>1, <2>2
<1>8. CASE Signal
  <2>1. /\ Same /\ npc = "signal" /\ buff' = buff
        /\ npc' = IF buff.cmd = "END" THEN "after end" ELSE "idle"
    BY <1>8, Zenon DEF Signal, net, session
  <2>2. (EndingTrack' <=> EndingTrack) /\ ~HoldingEnd' /\ npc' # "advance"
    BY <2>1 DEF EndingTrack, HoldingEnd
  <2> QED
    BY <1>4, <2>1, <2>2
<1>9. CASE AfterEnd
  <2>1. npc = "after end" /\ npc' = "channel end" /\ track' = track /\ aes' = aes
    BY <1>9, Zenon DEF AfterEnd
  <2>2. EndingTrack /\ Ending /\ ~EndingTrack' /\ ~HoldingEnd' /\ npc' # "advance"
    BY <2>1 DEF EndingTrack, Ending, HoldingEnd
  <2>3. StreamsOf(pending) = {} \/ track = NoTrack
    BY <2>2 DEF Fetch
  <2>4. CASE track # NoTrack /\ play_as_list /\ pending' = Append(pending, KeyRequest(track))
    <3>1. KeyRequest(track) \in Requests /\ KeyRequest(track).kind = "key"
          /\ KeyRequest(track).track = track
      BY <1>3, <2>4 DEF KeyRequest, Requests
    <3>2. /\ \A i \in DOMAIN pending' : pending'[i].track = track'
          /\ \A i \in StreamsOf(pending') : i = Len(pending')
          /\ KeyPending'
      BY <2>1, <2>3, <2>4, <3>1, AppendKeyed
    <3> QED
      BY <2>2, <3>2, Zenon DEF Keyed
  <2>5. CASE pending' = pending /\ (HasKey(track)' \/ track' = NoTrack)
    <3>1. /\ \A i \in DOMAIN pending' : pending'[i].track = track'
          /\ \A i \in StreamsOf(pending') : i = Len(pending')
      BY <2>1, <2>5, Zenon DEF Keyed
    <3>2. HasKey(track)' \/ track' = NoTrack
      BY <2>5
    <3> QED
      BY <2>1, <2>2, <3>1, <3>2, Zenon DEF Keyed
  <2>6. \/ track # NoTrack /\ play_as_list /\ pending' = Append(pending, KeyRequest(track))
        \/ lost' = lost \cup {<<"key", track>>} /\ pending' = pending
        \/ ~(track # NoTrack /\ play_as_list) /\ pending' = pending
    BY <1>9, Zenon DEF AfterEnd
  <2>7. track # 1
    BY <2>1, <2>2 DEF Keyed
  <2>8. CASE lost' = lost \cup {<<"key", track>>} /\ pending' = pending
    BY <2>1, <2>5, <2>8, Zenon DEF HasKey
  <2>9. CASE ~(track # NoTrack /\ play_as_list) /\ pending' = pending
    BY <1>1, <2>1, <2>5, <2>7, <2>9, Zenon DEF HasKey
  <2> QED
    BY <2>4, <2>6, <2>8, <2>9
<1>10. CASE ChannelEnd
  <2>1. Same /\ npc = "channel end" /\ npc' = "idle"
    BY <1>10, Zenon DEF ChannelEnd, net
  <2>2. (EndingTrack' <=> EndingTrack) /\ ~HoldingEnd'
    BY <2>1 DEF EndingTrack, HoldingEnd
  <2> QED
    BY <1>4, <2>1, <2>2
<1>11. CASE SendRequest
  <2>1. dpc = "send" /\ track' = track /\ aes' = aes /\ npc' = npc /\ buff' = buff
    BY <1>11, Zenon DEF SendRequest, session, nvars
  <2>2. (EndingTrack' <=> EndingTrack) /\ (HoldingEnd' <=> HoldingEnd)
    BY <2>1 DEF EndingTrack, HoldingEnd
  <2>3. StreamsOf(pending) = {} /\ npc # "advance"
    BY <2>1 DEF Fetch, Asking, Ending
  <2>4. CASE track # NoTrack /\ pending' = Append(pending, StreamRequest(track, offset))
    <3>1. StreamRequest(track, offset) \in Requests /\ StreamRequest(track, offset).track = track
      BY <1>3, <2>4 DEF StreamRequest, Requests, TypeInv, TypeOK, NetTypes
    <3>2. /\ \A i \in DOMAIN pending' : pending'[i].track = track'
          /\ \A i \in StreamsOf(pending') : i = Len(pending')
          /\ KeyPending => KeyPending'
      BY <2>1, <2>3, <2>4, <3>1, AppendKeyed
    <3>3. HasKey(track) => HasKey(track)'
      BY <1>1, <2>1, HasKeyStays, Zenon
    <3> QED
      BY <2>1, <2>2, <2>3, <3>2, <3>3, Zenon DEF Keyed
  <2>5. CASE pending' = pending
    BY <1>4, <2>1, <2>2, <2>5
  <2>6. pending' = pending \/ (track # NoTrack /\ pending' = Append(pending, StreamRequest(track, offset)))
    BY <1>11, Zenon DEF SendRequest
  <2> QED
    BY <2>4, <2>5, <2>6
<1>12. ASSUME Same, npc' = npc, buff' = buff PROVE Keyed'
  <2>1. (EndingTrack' <=> EndingTrack) /\ (HoldingEnd' <=> HoldingEnd)
    BY <1>12 DEF EndingTrack, HoldingEnd
  <2> QED
    BY <1>4, <1>12, <2>1
<1>13. CASE \/ GetPcm \/ FillFifo \/ Choose \/ SayBusy \/ Decode \/ Lock \/ CondWait \/ CondWake
            \/ NothingThere \/ TakeStart
  <2>1. Same /\ npc' = npc /\ buff' = buff
    BY <1>13, Zenon DEF GetPcm, FillFifo, Choose, SayBusy, Decode, Lock, CondWait, CondWake,
                        NothingThere, TakeStart, net, session, nvars
  <2> QED
    BY <1>12, <2>1
<1>14. CASE \/ TakeData \/ LeaveEnd \/ TakeEnd \/ Return \/ UseFreed \/ StopLook \/ StopAbort \/ StopWait
            \/ StopClear \/ Report
  <2>1. Same /\ npc' = npc /\ buff' = buff
    BY <1>14, Zenon DEF TakeData, LeaveEnd, TakeEnd, Return, UseFreed, StopLook, StopAbort, StopWait,
                        StopClear, Report, net, session, nvars
  <2> QED
    BY <1>12, <2>1
<1>15. CASE UNCHANGED vars
  <2>1. Same /\ npc' = npc /\ buff' = buff
    BY <1>15, Zenon DEF vars, net, session, nvars
  <2> QED
    BY <1>12, <2>1
<1> QED
  BY <1>5, <1>6, <1>7, <1>8, <1>9, <1>10, <1>11, <1>13, <1>14, <1>15, <1>16, <1>17, Zenon
     DEF Next, Network, Decoder

\* What N is about to push was decrypted with the right key.
LEMMA BuffGood ==
  ASSUME TypeInv, Keyed, GoodKeys, [Next]_vars
  PROVE  npc' = "push" => GoodKey(buff)'
<1> SUFFICES ASSUME npc' = "push" PROVE GoodKey(buff)'
  OBVIOUS
<1>1. lost \subseteq lost' /\ play_as_list' = play_as_list
  BY LostStays
<1>2. npc = "push" /\ buff' = buff => GoodKey(buff)'
  BY <1>1, Zenon DEF GoodKeys, GoodKey
<1>3. CASE AesCallback
  <2>1. track \in TrackNo /\ buff' = StartOf(track)
    BY <1>3 DEF AesCallback, Offer, TypeInv, TypeOK, NetTypes
  <2> QED
    BY <2>1, CommandBuffers DEF GoodKey
<1>4. CASE SubstreamData
  <2> DEFINE q == Head(pending)
             b == [cmd |-> "DATA", track |-> q.track, n |-> q.offset + arrived + 1,
                   len |-> PacketLen, key |-> aes]
  <2>1. Answering("stream") /\ Offer(b, "idle") /\ b.track = q.track /\ b.key = aes
    BY <1>4 DEF SubstreamData
  <2>2. q.track = track /\ HasKey(track)
    BY <2>1, StreamIsAlone
  <2> HIDE DEF b, q
  <2>3. GoodKey(b)
    BY <2>1, <2>2, Zenon DEF HasKey, GoodKey
  <2>4. buff' = b
    BY <2>1 DEF Offer
  <2> QED
    BY <1>1, <2>3, <2>4, Zenon DEF GoodKey
<1>5. CASE OfferEnd
  <2>1. buff' = buff /\ buff.cmd = "END"
    BY <1>5 DEF OfferEnd, Offer, Keyed, HoldingEnd
  <2> QED
    BY <2>1 DEF GoodKey
<1>6. CASE \/ SubstreamEnd \/ AdvanceTrack \/ EndIoctl \/ Push \/ PushNull \/ Signal \/ AfterEnd
           \/ ChannelEnd
  BY <1>6 DEF SubstreamEnd, AdvanceTrack, EndIoctl, Push, PushNull, Signal, AfterEnd, ChannelEnd
<1>7. CASE AesKeyError \/ SubstreamError
  BY <1>7 DEF AesKeyError, SubstreamError, Answering, nvars
<1>8. CASE Decoder \/ UseFreed
  BY <1>2, <1>8, Zenon DEF Decoder, UseFreed, GetPcm, FillFifo, Choose, SayBusy, SendRequest, Decode,
                           Lock, CondWait, CondWake, NothingThere, TakeStart, TakeData, LeaveEnd,
                           TakeEnd, Return, StopLook, StopAbort, StopWait, StopClear, Report, nvars
<1>9. CASE UNCHANGED vars
  BY <1>2, <1>9, Zenon DEF vars, nvars
<1> QED
  BY <1>3, <1>4, <1>5, <1>6, <1>7, <1>8, <1>9, Zenon DEF Next, Network

\* The queue changes by a buffer behind it, the first one taken off, or as a whole.
LEMMA QueueSteps ==
  ASSUME TypeInv, [Next]_vars
  PROVE  \/ fifo' = fifo \/ fifo' = <<>> \/ (fifo # <<>> /\ fifo' = Tail(fifo))
         \/ npc = "push" /\ fifo' = Append(fifo, buff)
         \/ npc = "push" /\ buff.cmd = "DATA" /\ fifo' = Append(fifo, [buff EXCEPT !.len = @ - PageLen])
<1>1. CASE AesCallback \/ AesKeyError \/ SubstreamData \/ SubstreamError \/ SubstreamEnd
  BY <1>1, Zenon DEF AesCallback, AesKeyError, SubstreamData, SubstreamError, SubstreamEnd, fifoVars
<1>2. CASE AdvanceTrack \/ EndIoctl \/ OfferEnd \/ PushNull \/ Signal \/ AfterEnd \/ ChannelEnd
  BY <1>2, Zenon DEF AdvanceTrack, EndIoctl, OfferEnd, PushNull, Signal, AfterEnd, ChannelEnd, fifoVars
<1>3. CASE Push
  BY <1>3, Zenon DEF Push
<1>4. CASE GetPcm \/ FillFifo \/ Choose \/ SayBusy \/ SendRequest \/ Decode
  BY <1>4, Zenon DEF GetPcm, FillFifo, Choose, SayBusy, SendRequest, Decode, fifoVars
<1>5. CASE Lock \/ CondWait \/ CondWake \/ NothingThere \/ LeaveEnd
  BY <1>5, Zenon DEF Lock, CondWait, CondWake, NothingThere, LeaveEnd, fifoVars
<1>6. CASE TakeStart \/ TakeEnd
  BY <1>6, Zenon DEF TakeStart, TakeEnd, AtBuffer
<1>7. CASE TakeData
  BY <1>7, Zenon DEF TakeData, AtBuffer
<1>8. CASE StopClear
  BY <1>8, Zenon DEF StopClear
<1>9. CASE Return \/ UseFreed \/ StopLook \/ StopAbort \/ StopWait \/ Report
  BY <1>9, Zenon DEF Return, UseFreed, StopLook, StopAbort, StopWait, Report, fifoVars
<1>10. CASE UNCHANGED vars
  BY <1>10, Zenon DEF vars, fifoVars
<1> QED
  BY <1>1, <1>2, <1>3, <1>4, <1>5, <1>6, <1>7, <1>8, <1>9, <1>10, Zenon
     DEF Next, Network, Decoder

\* A good buffer pushed onto a good queue.
LEMMA GoodPush ==
  ASSUME GoodKeys, fifo \in Seq(Buffer), NEW e \in Buffer, GoodKey(e), fifo' = Append(fifo, e)
  PROVE  \A i \in DOMAIN fifo' : GoodKey(fifo'[i])
<1>1. \A i \in DOMAIN fifo' : fifo'[i] = e \/ (i \in DOMAIN fifo /\ fifo'[i] = fifo[i])
  BY AppendProperties
<1> QED
  BY <1>1, Zenon DEF GoodKeys

LEMMA GoodKept ==
  ASSUME TypeInv, Keyed, GoodKeys, [Next]_vars
  PROVE  GoodKeys'
<1>1. lost \subseteq lost' /\ play_as_list' = play_as_list
  BY LostStays
<1>2. fifo \in Seq(Buffer) /\ buff \in Buffer
  BY DEF TypeInv, TypeOK, QueueTypes
<1>3. \A i \in DOMAIN fifo' : GoodKey(fifo'[i])
  <2>1. CASE fifo' = fifo
    BY <2>1, Zenon DEF GoodKeys
  <2>2. CASE fifo' = <<>>
    BY <2>2
  <2>3. CASE fifo # <<>> /\ fifo' = Tail(fifo)
    <3>1. \A i \in DOMAIN fifo' : \E j \in DOMAIN fifo : fifo'[i] = fifo[j]
      BY <1>2, <2>3, HeadTailProperties
    <3> QED
      BY <3>1, Zenon DEF GoodKeys
  <2>4. CASE npc = "push" /\ fifo' = Append(fifo, buff)
    BY <1>2, <2>4, GoodPush DEF GoodKeys
  <2>5. CASE npc = "push" /\ buff.cmd = "DATA" /\ fifo' = Append(fifo, [buff EXCEPT !.len = @ - PageLen])
    <3> DEFINE e == [buff EXCEPT !.len = @ - PageLen]
    <3>1. e \in Buffer
      BY <1>2, <2>5, CutBuffer DEF TypeInv, WholePackets
    <3>2. e.cmd = buff.cmd /\ e.key = buff.key /\ e.track = buff.track /\ fifo' = Append(fifo, e)
      BY <1>2, <2>5 DEF Buffer
    <3> HIDE DEF e
    <3>3. GoodKey(buff)
      BY <2>5, Zenon DEF GoodKeys
    <3>4. GoodKey(e)
      BY <3>2, <3>3, Zenon DEF GoodKey
    <3> QED
      BY <1>2, <3>1, <3>2, <3>4, GoodPush
  <2> QED
    BY <2>1, <2>2, <2>3, <2>4, <2>5, QueueSteps
<1> QED
  BY <1>1, <1>3, BuffGood, GoodStays, Zenon DEF GoodKeys

LEMMA KeyedInit == TypeInv /\ Init => Keyed /\ GoodKeys
<1> SUFFICES ASSUME TypeInv, Init PROVE Keyed /\ GoodKeys
  OBVIOUS
<1>1. pending = <<KeyRequest(1)>> /\ track = 1 /\ npc = "idle" /\ fifo = <<>> /\ buff = StartOf(1)
  BY Zenon DEF Init
<1>2. ~EndingTrack /\ ~HoldingEnd
  BY <1>1 DEF EndingTrack, HoldingEnd
<1>3. /\ DOMAIN pending = {1} /\ Len(pending) = 1
      /\ pending[1].kind = "key" /\ pending[1].track = 1
  BY <1>1 DEF KeyRequest
<1>4. GoodKeys
  <2>1. 1 \in TrackNo
    BY <1>1, NoTrackIsNone DEF TypeInv, TypeOK, NetTypes, NoTrack
  <2>2. GoodKey(buff)
    BY <1>1, <2>1, CommandBuffers DEF GoodKey
  <2> QED
    BY <1>1, <2>2 DEF GoodKeys
<1> QED
  BY <1>1, <1>2, <1>3, <1>4 DEF Keyed, StreamsOf, KeyPending

\* Data of a track whose key the server sent is in the queue decrypted with that key, for every list
\* and every size of the substreams: a key is asked for at the end of a track only, and answered
\* before the first data of its track (despotify_aes_callback, despotify_substream_callback).
THEOREM SndRightKey == Spec => []RightKey
<1>1. GoodKeys => RightKey
  BY DEF GoodKeys, GoodKey, RightKey
<1> QED
  BY <1>1, TypeInit, TypeKept, FetchInit, FetchKept, KeyedInit, KeyedKept, GoodKept, PTL DEF Spec

-----------------------------------------------------------------------------
(* The order of requests, answers and ends of tracks. *)

\* Of the end of a track N makes one thing: meanwhile nothing is pending.
OneEnd ==
  EndingTrack =>
    /\ buff.cmd = "END" /\ pending = <<>>
    /\ track = IF npc = "advance" THEN buff.track ELSE NextTrack(buff.track)

\* One key at most is pending, that of the current track, in front.
KeyFirst == \A i \in DOMAIN pending : pending[i].kind = "key" => i = 1 /\ pending[i] = KeyRequest(track)

\* A substream is asked for where the last one ended.
FromHere == \A i \in StreamsOf(pending) : pending[i].offset = offset

\* Only a substream that is answered has data that has arrived.
Arriving == arrived # 0 => pending # <<>> /\ Head(pending).kind = "stream"

\* A key is asked for at the beginning of a track.
KeyAtStart == KeyPending => offset = 0

\* What has been fetched of a track is within it.
Within == track # NoTrack /\ ~EndingTrack => offset + arrived <= Tracks[track]

Order == OneEnd /\ KeyFirst /\ FromHere /\ Arriving /\ KeyAtStart /\ Within

\* An abort is set by snd_stop, and cleared at its end.
Aborting == dlabort => dpc \in {"stop wait", "stop clear"}

\* What the steps of D leave alone: all that N works on, but for a request that is sent and the
\* abort; and of the queue they take the first buffer or, in snd_stop, everything.
LEMMA DecoderSteps ==
  ASSUME Decoder \/ UseFreed \/ UNCHANGED vars
  PROVE  /\ npc' = npc /\ buff' = buff /\ arrived' = arrived /\ track' = track /\ offset' = offset
         /\ play_as_list' = play_as_list
         /\ \/ /\ pending' = pending /\ lost' = lost /\ dlabort' = dlabort
               /\ fifo' = fifo \/ (fifo # <<>> /\ fifo' = Tail(fifo))
            \/ StopAbort \/ StopClear \/ SendRequest
<1> USE DEF fifoVars, session, net, nvars, faultVars
<1>1. CASE GetPcm \/ FillFifo \/ Choose \/ SayBusy
  BY <1>1, Zenon DEF GetPcm, FillFifo, Choose, SayBusy
<1>2. CASE Decode \/ Lock \/ CondWait \/ CondWake \/ NothingThere
  BY <1>2, Zenon DEF Decode, Lock, CondWait, CondWake, NothingThere
<1>3. CASE TakeStart \/ LeaveEnd \/ TakeEnd
  BY <1>3, Zenon DEF TakeStart, LeaveEnd, TakeEnd, AtBuffer
<1>4. CASE TakeData
  BY <1>4, Zenon DEF TakeData, AtBuffer
<1>5. CASE Return \/ UseFreed \/ StopLook \/ StopWait \/ Report
  BY <1>5, Zenon DEF Return, UseFreed, StopLook, StopWait, Report
<1>6. CASE StopAbort \/ StopClear
  BY <1>6, Zenon DEF StopAbort, StopClear
<1>7. CASE SendRequest
  BY <1>7, Zenon DEF SendRequest
<1>8. CASE UNCHANGED vars
  BY <1>8, Zenon DEF vars
<1> QED
  BY <1>1, <1>2, <1>3, <1>4, <1>5, <1>6, <1>7, <1>8, Zenon DEF Decoder

\* The key that is answered is that of the current track, and the only one; data has not arrived.
LEMMA KeyIsFirst ==
  ASSUME TypeInv, Keyed, Order, Answering("key"), pending' = Tail(pending)
  PROVE  /\ Head(pending) = KeyRequest(track) /\ offset = 0 /\ arrived = 0 /\ KeyPending
         /\ npc = "idle" /\ ~EndingTrack
         /\ ~KeyPending'
         /\ \A i \in DOMAIN pending' : i \in Int /\ i + 1 \in DOMAIN pending /\ pending'[i] = pending[i + 1]
         /\ \A i \in DOMAIN pending : pending[i].kind = "key" => i = 1
<1>1. pending \in Seq(Requests) /\ pending # <<>> /\ Head(pending).kind = "key" /\ npc = "idle"
  BY DEF Answering, TypeInv, TypeOK, NetTypes, Requests
<1>2. 1 \in DOMAIN pending /\ Head(pending) = pending[1]
  BY <1>1
<1>3. \A i \in DOMAIN pending' : i \in Int /\ i >= 1 /\ i + 1 \in DOMAIN pending /\ pending'[i] = pending[i + 1]
  BY <1>1, HeadTailProperties
<1>4. \A i \in DOMAIN pending : pending[i].kind = "key" => i = 1 /\ pending[i] = KeyRequest(track)
  BY DEF Order, KeyFirst
<1>5. ~KeyPending'
  <2> SUFFICES ASSUME NEW i \in DOMAIN pending', pending'[i].kind = "key" PROVE FALSE
    BY DEF KeyPending
  <2> QED
    BY <1>3, <1>4
<1>6. KeyPending /\ Head(pending) = KeyRequest(track)
  BY <1>1, <1>2, <1>4 DEF KeyPending
<1>7. arrived = 0
  BY <1>1 DEF Order, Arriving
<1>8. offset = 0
  BY <1>6 DEF Order, KeyAtStart
<1>9. ~EndingTrack
  BY <1>1 DEF EndingTrack
<1> QED
  BY <1>1, <1>3, <1>4, <1>5, <1>6, <1>7, <1>8, <1>9

\* The substream that is answered goes on at the offset; what the server has for it, and no more, is
\* to come, and a short answer comes to the end of the track.
LEMMA StreamIsHere ==
  ASSUME TypeInv, Keyed, Order, Answering("stream")
  PROVE  /\ Head(pending).track = track /\ Head(pending).offset = offset /\ track \in TrackNo
         /\ Tail(pending) = <<>> /\ ~KeyPending /\ npc = "idle" /\ ~EndingTrack
         /\ Tracks[track] \in Nat \ {0} /\ offset + arrived <= Tracks[track]
         /\ arrived < Amount(Head(pending)) => offset + arrived < Tracks[track]
         /\ arrived = Amount(Head(pending)) /\ arrived < Substream => offset + arrived = Tracks[track]
         /\ \A i \in DOMAIN pending : pending[i].kind # "key"
<1>1. pending \in Seq(Requests) /\ pending # <<>> /\ Head(pending).kind = "stream" /\ npc = "idle"
  BY DEF Answering, TypeInv, TypeOK, NetTypes, Requests
<1>2. /\ Head(pending).track = track /\ Tail(pending) = <<>> /\ track \in TrackNo
  BY StreamIsAlone DEF TypeInv, TypeOK, NetTypes
<1>3. 1 \in StreamsOf(pending) /\ Head(pending) = pending[1]
  BY <1>1 DEF StreamsOf
<1>4. Head(pending).offset = offset
  BY <1>3 DEF Order, FromHere
<1>5. Len(pending) = 1
  BY <1>3 DEF Keyed
<1>6. \A i \in DOMAIN pending : i = 1 /\ pending[i].kind # "key"
  BY <1>1, <1>3, <1>5
<1>7. ~KeyPending
  BY <1>6 DEF KeyPending
<1>8. ~EndingTrack
  BY <1>1 DEF EndingTrack
<1>9. Tracks[track] \in Nat \ {0}
  BY <1>2, SizesAssumption DEF TrackNo
<1>10. offset + arrived <= Tracks[track] /\ offset \in Nat /\ arrived \in Nat
  BY <1>2, <1>8, NoTrackIsNone, SizesAssumption DEF Order, Within, TypeInv, TypeOK, NetTypes
<1>11. Amount(Head(pending)) = IF offset >= Tracks[track] THEN 0 ELSE MinOf(Substream, Tracks[track] - offset)
  BY <1>2, <1>4 DEF Amount
<1>12. /\ arrived < Amount(Head(pending)) => offset + arrived < Tracks[track]
       /\ arrived = Amount(Head(pending)) /\ arrived < Substream => offset + arrived = Tracks[track]
  BY <1>9, <1>10, <1>11, SizesAssumption DEF MinOf
<1> QED
  BY <1>1, <1>2, <1>4, <1>6, <1>7, <1>8, <1>9, <1>10, <1>12

LEMMA OrderInit == TypeInv /\ Init => Order /\ Aborting
<1> SUFFICES ASSUME TypeInv, Init PROVE Order /\ Aborting
  OBVIOUS
<1>1. pending = <<KeyRequest(1)>> /\ track = 1 /\ npc = "idle" /\ offset = 0 /\ arrived = 0 /\ dlabort = FALSE
  BY Zenon DEF Init
<1>2. /\ DOMAIN pending = {1} /\ pending[1] = KeyRequest(1) /\ pending[1].kind = "key"
  BY <1>1 DEF KeyRequest
<1>3. StreamsOf(pending) = {}
  BY <1>2 DEF StreamsOf
<1>4. Tracks[1] \in Nat
  BY SizesAssumption
<1>5. OneEnd
  BY <1>1 DEF OneEnd, EndingTrack
<1>6. KeyFirst /\ FromHere
  BY <1>1, <1>2, <1>3 DEF KeyFirst, FromHere
<1>7. Arriving /\ KeyAtStart /\ Aborting
  BY <1>1 DEF Arriving, KeyAtStart, Aborting
<1>8. Within
  BY <1>1, <1>4 DEF Within
<1> QED
  BY <1>5, <1>6, <1>7, <1>8 DEF Order

\* The answers of the server.
LEMMA OrderAnswers ==
  ASSUME TypeInv, Keyed, Order,
         AesCallback \/ AesKeyError \/ SubstreamData \/ SubstreamError \/ SubstreamEnd
  PROVE  Order'
<1>0. offset \in Nat /\ arrived \in Nat
  BY SizesAssumption DEF TypeInv, TypeOK, NetTypes
<1>1. CASE AesCallback \/ AesKeyError
  <2>1. /\ Answering("key") /\ pending' = Tail(pending)
        /\ track' = track /\ offset' = offset /\ arrived' = arrived
    BY <1>1, Zenon DEF AesCallback, AesKeyError, session
  <2>2. ~EndingTrack'
    <3>1. npc = "idle"
      BY <2>1 DEF Answering
    <3>2. npc' = "idle" \/ (npc' = "push" /\ buff'.cmd = "START")
      <4>1. CASE AesCallback
        BY <3>1, <4>1, CommandBuffers DEF AesCallback, Offer, TypeInv, TypeOK, NetTypes
      <4>2. CASE AesKeyError
        BY <3>1, <4>2, Zenon DEF AesKeyError, nvars
      <4> QED
        BY <1>1, <4>1, <4>2
    <3> QED
      BY <3>2 DEF EndingTrack
  <2>3. /\ offset = 0 /\ arrived = 0 /\ ~EndingTrack /\ ~KeyPending'
        /\ \A i \in DOMAIN pending' : i \in Int /\ i + 1 \in DOMAIN pending /\ pending'[i] = pending[i + 1]
    BY <2>1, KeyIsFirst
  <2>4. OneEnd'
    BY <2>2 DEF OneEnd
  <2>5. KeyFirst' /\ KeyAtStart'
    BY <2>3 DEF KeyFirst, KeyAtStart, KeyPending
  <2>6. FromHere'
    <3>1. \A i \in StreamsOf(pending') : i + 1 \in StreamsOf(pending) /\ pending'[i] = pending[i + 1]
      BY <2>3 DEF StreamsOf
    <3> QED
      BY <2>1, <3>1 DEF Order, FromHere
  <2>7. Arriving' /\ Within'
    BY <2>1, <2>3 DEF Order, Arriving, Within
  <2> QED
    BY <2>4, <2>5, <2>6, <2>7 DEF Order
<1>2. CASE SubstreamData
  <2> DEFINE q == Head(pending)
             b == [cmd |-> "DATA", track |-> q.track, n |-> q.offset + arrived + 1,
                   len |-> PacketLen, key |-> aes]
  <2>1. /\ Answering("stream") /\ pending' = pending /\ track' = track /\ offset' = offset
        /\ arrived' = arrived + 1 /\ arrived < Amount(Head(pending))
    BY <1>2, Zenon DEF SubstreamData, session
  <2>2. ~EndingTrack'
    <3>1. npc = "idle" /\ Offer(b, "idle") /\ b.cmd = "DATA"
      BY <1>2 DEF SubstreamData, Answering
    <3> HIDE DEF b
    <3> QED
      BY <3>1 DEF Offer, EndingTrack
  <2>3. offset + arrived < Tracks[track] /\ Tracks[track] \in Nat
    BY <2>1, StreamIsHere
  <2>4. OneEnd'
    BY <2>2 DEF OneEnd
  <2>5. KeyFirst' /\ FromHere' /\ KeyAtStart'
    BY <2>1, Zenon DEF Order, KeyFirst, FromHere, KeyAtStart, KeyPending
  <2>6. Arriving' /\ Within'
    BY <1>0, <2>1, <2>3 DEF Arriving, Within, Answering
  <2> QED
    BY <2>4, <2>5, <2>6 DEF Order
<1>3. CASE SubstreamError \/ SubstreamEnd
  <2>1. Answering("stream") /\ pending' = Tail(pending) /\ arrived' = 0
    BY <1>3, Zenon DEF SubstreamError, SubstreamEnd
  <2>2. /\ pending' = <<>> /\ track \in TrackNo /\ npc = "idle" /\ offset + arrived <= Tracks[track]
        /\ Tracks[track] \in Nat
    BY <2>1, StreamIsHere
  <2>3. KeyFirst' /\ FromHere' /\ Arriving' /\ KeyAtStart'
    BY <2>1, <2>2 DEF KeyFirst, FromHere, StreamsOf, Arriving, KeyAtStart, KeyPending
  <2>4. \/ npc' = npc /\ track' = track /\ offset' = offset
        \/ npc' = "channel end" /\ track' = track /\ offset' = offset + arrived
        \/ npc' = "advance" /\ buff' = EndOf(track) /\ track' = track
    BY <1>3, Zenon DEF SubstreamError, SubstreamEnd, nvars, session
  <2>5. OneEnd'
    <3>1. CASE npc' \in {"idle", "channel end"}
      BY <3>1 DEF OneEnd, EndingTrack
    <3>2. CASE npc' = "advance" /\ buff' = EndOf(track) /\ track' = track
      <4>1. buff'.cmd = "END" /\ buff'.track = track
        BY <2>2, <3>2, CommandBuffers DEF EndOf
      <4> QED
        BY <2>2, <3>2, <4>1 DEF OneEnd
    <3> QED
      BY <2>2, <2>4, <3>1, <3>2
  <2>6. Within'
    <3>1. CASE track' = track /\ offset' \in Nat /\ offset' <= offset + arrived
      BY <1>0, <2>1, <2>2, <3>1 DEF Within
    <3>2. CASE npc' = "advance"
      BY <3>2 DEF Within, EndingTrack
    <3>3. offset <= offset + arrived /\ offset + arrived \in Nat /\ offset + arrived <= offset + arrived
      BY <1>0
    <3> QED
      BY <1>0, <2>4, <3>1, <3>2, <3>3, Zenon
  <2> QED
    BY <2>3, <2>5, <2>6 DEF Order
<1> QED
  BY <1>1, <1>2, <1>3

\* A request for a substream is added to what is pending.
LEMMA OrderSend ==
  ASSUME TypeInv, Fetch, Keyed, Order, SendRequest
  PROVE  Order' /\ (KeyPending' <=> KeyPending)
<1>1. /\ npc' = npc /\ buff' = buff /\ arrived' = arrived /\ track' = track /\ offset' = offset
  BY DecoderSteps, Zenon DEF Decoder
<1>2. dpc = "send"
  BY DEF SendRequest
<1>3. EndingTrack' <=> EndingTrack
  BY <1>1 DEF EndingTrack
<1>4. CASE pending' = pending
  BY <1>1, <1>3, <1>4, Zenon DEF Order, OneEnd, KeyFirst, FromHere, Arriving, KeyAtStart, Within, KeyPending
<1>5. CASE track # NoTrack /\ pending' = Append(pending, StreamRequest(track, offset))
  <2> DEFINE e == StreamRequest(track, offset)
  <2>0. e \in Requests /\ e.kind = "stream" /\ e.offset = offset
    BY <1>5 DEF StreamRequest, Requests, TypeInv, TypeOK, NetTypes
  <2>1. pending \in Seq(Requests) /\ pending' = Append(pending, e)
    BY <1>5 DEF TypeInv, TypeOK, NetTypes, Requests
  <2> HIDE DEF e
  <2>2. /\ Len(pending') = Len(pending) + 1 /\ Len(pending) \in Nat /\ pending'[Len(pending) + 1] = e
        /\ DOMAIN pending = 1..Len(pending) /\ DOMAIN pending' = 1..Len(pending')
        /\ \A i \in 1..Len(pending) : pending'[i] = pending[i]
    BY <2>0, <2>1, AppendProperties, LenProperties
  <2>3. ~EndingTrack
    <3>1. EndingTrack => Ending
      BY DEF EndingTrack, Ending
    <3>2. ~Ending
      BY <1>2, <1>5 DEF Fetch, Asking
    <3> QED
      BY <3>1, <3>2
  <2>4. OneEnd' /\ Within'
    BY <1>1, <1>3, <2>3, Zenon DEF Order, OneEnd, Within
  <2>5. KeyFirst'
    BY <1>1, <2>0, <2>2 DEF Order, KeyFirst
  <2>6. FromHere'
    BY <1>1, <2>0, <2>2 DEF Order, FromHere, StreamsOf
  <2>7. KeyPending' <=> KeyPending
    BY <2>0, <2>2 DEF KeyPending
  <2>8. KeyAtStart'
    BY <1>1, <2>7, Zenon DEF Order, KeyAtStart
  <2>9. Arriving'
    <3>1. pending # <<>> => pending' # <<>> /\ Head(pending') = Head(pending)
      BY <2>0, <2>1, HeadTailAppend
    <3> QED
      BY <1>1, <3>1 DEF Order, Arriving
  <2> QED
    BY <2>4, <2>5, <2>6, <2>7, <2>8, <2>9 DEF Order
<1> QED
  BY <1>4, <1>5, Zenon DEF SendRequest

\* After the end of a track nothing or the key of the next is pending.
LEMMA OrderAfterEnd ==
  ASSUME TypeInv, Order, AfterEnd
  PROVE  /\ Order' /\ offset' = 0 /\ arrived' = 0 /\ track' = track /\ ~EndingTrack'
         /\ buff' = buff /\ track = NextTrack(buff.track) /\ fifo' = fifo /\ dlabort' = dlabort
         /\ \/ /\ track # NoTrack /\ play_as_list /\ lost' = lost
               /\ pending' = <<KeyRequest(track)>> /\ KeyPending'
            \/ /\ track # NoTrack /\ play_as_list /\ lost' = lost \cup {<<"key", track>>}
            \/ ~(track # NoTrack /\ play_as_list) /\ lost' = lost /\ ~KeyPending'
<1>1. /\ npc = "after end" /\ npc' = "channel end" /\ offset' = 0 /\ arrived' = arrived /\ track' = track
      /\ buff' = buff /\ fifo' = fifo /\ dlabort' = dlabort
  BY Zenon DEF AfterEnd, fifoVars
<1>2. EndingTrack /\ ~EndingTrack'
  BY <1>1 DEF EndingTrack
<1>3. pending = <<>> /\ track = NextTrack(buff.track)
  BY <1>1, <1>2 DEF Order, OneEnd
<1>4. arrived' = 0
  BY <1>1, <1>3 DEF Order, Arriving
<1>5. OneEnd' /\ Arriving'
  BY <1>2, <1>4 DEF OneEnd, Arriving
<1>6. KeyAtStart'
  BY <1>1 DEF KeyAtStart
<1>7. Within'
  <2>1. track \in TrackNo => Tracks[track] \in Nat
    BY SizesAssumption DEF TrackNo
  <2>2. track \in TrackNo => offset' + arrived' <= Tracks[track']
    <3>1. offset' + arrived' = 0
      <4>1. offset' = 0
        BY <1>1, Zenon
      <4> QED
        BY <1>4, <4>1
    <3>2. Tracks[track'] = Tracks[track]
      BY <1>1, Zenon
    <3> QED
      BY <2>1, <3>1, <3>2
  <2>3. track' # NoTrack => track \in TrackNo
    BY <1>1, Zenon DEF TypeInv, TypeOK, NetTypes
  <2> QED
    BY <2>2, <2>3, Zenon DEF Within
<1>8. \/ pending' = Append(pending, KeyRequest(track)) \/ pending' = pending
  BY Zenon DEF AfterEnd
<1>9. pending' = Append(pending, KeyRequest(track)) =>
        pending' = <<KeyRequest(track)>> /\ KeyPending' /\ KeyFirst' /\ FromHere'
  <2> SUFFICES ASSUME pending' = Append(<<>>, KeyRequest(track))
               PROVE  pending' = <<KeyRequest(track)>> /\ KeyPending' /\ KeyFirst' /\ FromHere'
    BY <1>3
  <2>1. pending' = <<KeyRequest(track)>>
    OBVIOUS
  <2>2. DOMAIN pending' = {1} /\ pending'[1] = KeyRequest(track) /\ pending'[1].kind = "key"
    BY <2>1 DEF KeyRequest
  <2> QED
    BY <1>1, <2>1, <2>2 DEF KeyPending, KeyFirst, FromHere, StreamsOf
<1>10. pending' = pending => ~KeyPending' /\ KeyFirst' /\ FromHere'
  BY <1>3 DEF KeyPending, KeyFirst, FromHere, StreamsOf
<1>11. \/ /\ track # NoTrack /\ play_as_list /\ lost' = lost
          /\ pending' = <<KeyRequest(track)>> /\ KeyPending'
       \/ /\ track # NoTrack /\ play_as_list /\ lost' = lost \cup {<<"key", track>>}
       \/ ~(track # NoTrack /\ play_as_list) /\ lost' = lost /\ ~KeyPending'
  BY <1>9, <1>10, Zenon DEF AfterEnd, faultVars
<1>12. Order'
  BY <1>5, <1>6, <1>7, <1>8, <1>9, <1>10 DEF Order
<1> QED
  BY <1>1, <1>2, <1>3, <1>4, <1>11, <1>12

\* Steps that leave the requests and the end of a track where they are.
LEMMA OrderSame ==
  ASSUME Order, pending' = pending, arrived' = arrived, track' = track, offset' = offset,
         EndingTrack' => EndingTrack /\ buff' = buff, EndingTrack => EndingTrack',
         npc = "advance" <=> npc' = "advance"
  PROVE  Order' /\ (KeyPending' <=> KeyPending)
<1>1. OneEnd' /\ KeyFirst' /\ FromHere'
  BY Zenon DEF Order, OneEnd, KeyFirst, FromHere
<1>2. Arriving' /\ Within'
  BY Zenon DEF Order, Arriving, Within
<1>3. KeyAtStart' /\ (KeyPending' <=> KeyPending)
  BY Zenon DEF Order, KeyAtStart, KeyPending
<1> QED
  BY <1>1, <1>2, <1>3 DEF Order

\* The steps of N on a buffer, and the end of a substream.
LEMMA BufferSteps ==
  ASSUME Order, Keyed, EndIoctl \/ OfferEnd \/ Push \/ PushNull \/ Signal \/ ChannelEnd
  PROVE  /\ pending' = pending /\ arrived' = arrived /\ track' = track /\ offset' = offset /\ buff' = buff
         /\ lost' = lost /\ play_as_list' = play_as_list /\ dlabort' = dlabort
         /\ EndingTrack' <=> EndingTrack
         /\ npc # "advance" /\ npc' # "advance"
         /\ ~Push => fifo' = fifo
<1>1. /\ pending' = pending /\ arrived' = arrived /\ track' = track /\ offset' = offset /\ buff' = buff
      /\ lost' = lost /\ play_as_list' = play_as_list /\ dlabort' = dlabort
  BY Zenon DEF EndIoctl, OfferEnd, Push, PushNull, Signal, ChannelEnd, Offer, net, session, nvars,
               faultVars
<1>2. \/ npc = "end" /\ npc' = "offer"
      \/ npc = "offer" /\ npc' \in {"after end", "push"}
      \/ npc = "push" /\ npc' = "signal"
      \/ npc = "push" /\ buff.cmd = "END" /\ npc' = "dead"
      \/ npc = "signal" /\ npc' = IF buff.cmd = "END" THEN "after end" ELSE "idle"
      \/ npc = "channel end" /\ npc' = "idle"
  BY DEF EndIoctl, OfferEnd, Push, PushNull, Headless, Signal, ChannelEnd, Offer
<1>3. HoldingEnd => buff.cmd = "END"
  BY DEF Keyed
<1>4. (EndingTrack' <=> EndingTrack) /\ npc # "advance" /\ npc' # "advance"
  BY <1>1, <1>2, <1>3 DEF EndingTrack, HoldingEnd
<1>5. ~Push => fifo' = fifo
  BY Zenon DEF EndIoctl, OfferEnd, PushNull, Signal, ChannelEnd, fifoVars
<1> QED
  BY <1>1, <1>4, <1>5, Zenon

\* The track moves on while nothing is pending.
LEMMA OrderAdvance ==
  ASSUME Order, AdvanceTrack
  PROVE  /\ Order' /\ EndingTrack /\ EndingTrack' /\ ~KeyPending /\ ~KeyPending'
         /\ npc = "advance" /\ npc' = "end" /\ fifo' = fifo /\ dlabort' = dlabort
         /\ buff' = buff /\ buff.cmd = "END" /\ track = buff.track /\ track' = NextTrack(buff.track)
         /\ lost' = lost /\ pending' = <<>>
<1>1. /\ npc = "advance" /\ npc' = "end" /\ fifo' = fifo /\ dlabort' = dlabort /\ buff' = buff
      /\ track' = NextTrack(buff.track) /\ lost' = lost /\ pending' = pending /\ arrived' = arrived
      /\ offset' = offset
  BY Zenon DEF AdvanceTrack, fifoVars, faultVars, net
<1>2. EndingTrack /\ EndingTrack'
  BY <1>1 DEF EndingTrack
<1>3. pending = <<>> /\ buff.cmd = "END" /\ track = buff.track
  BY <1>1, <1>2 DEF Order, OneEnd
<1>4. ~KeyPending /\ ~KeyPending' /\ KeyFirst' /\ FromHere' /\ KeyAtStart'
  BY <1>1, <1>3 DEF KeyPending, KeyFirst, FromHere, KeyAtStart, StreamsOf
<1>5. OneEnd' /\ Within'
  BY <1>1, <1>2, <1>3 DEF OneEnd, Within
<1>6. Arriving'
  BY <1>1, Zenon DEF Order, Arriving
<1> QED
  BY <1>1, <1>2, <1>3, <1>4, <1>5, <1>6 DEF Order

LEMMA OrderKept ==
  ASSUME TypeInv, Fetch, Keyed, Order, [Next]_vars
  PROVE  Order'
<1>1. CASE AesCallback \/ AesKeyError \/ SubstreamData \/ SubstreamError \/ SubstreamEnd
  BY <1>1, OrderAnswers
<1>2. CASE EndIoctl \/ OfferEnd \/ Push \/ PushNull \/ Signal \/ ChannelEnd
  BY <1>2, BufferSteps, OrderSame, Zenon
<1>6. CASE AdvanceTrack
  BY <1>6, OrderAdvance
<1>3. CASE AfterEnd
  BY <1>3, OrderAfterEnd
<1>4. CASE SendRequest
  BY <1>4, OrderSend
<1>5. CASE (Decoder \/ UseFreed \/ UNCHANGED vars) /\ ~SendRequest
  <2>1. /\ npc' = npc /\ buff' = buff /\ arrived' = arrived /\ track' = track /\ offset' = offset
    BY <1>5, DecoderSteps, Zenon
  <2>2. pending' = pending
    BY <1>5, DecoderSteps, Zenon DEF StopAbort, StopClear, net
  <2>3. EndingTrack' <=> EndingTrack
    BY <2>1 DEF EndingTrack
  <2> QED
    BY <2>1, <2>2, <2>3, OrderSame, Zenon
<1> QED
  BY <1>1, <1>2, <1>3, <1>4, <1>5, <1>6, Zenon DEF Next, Network

LEMMA AbortingKept ==
  ASSUME Aborting, [Next]_vars
  PROVE  Aborting'
<1> USE DEF Aborting, session, dvars
<1>1. CASE \/ AesCallback \/ AesKeyError \/ SubstreamData \/ SubstreamError \/ SubstreamEnd
           \/ AdvanceTrack \/ EndIoctl \/ OfferEnd \/ PushNull \/ Push \/ AfterEnd \/ ChannelEnd
  <2>1. dlabort' = dlabort /\ dpc' = dpc
    BY <1>1, Zenon DEF AesCallback, AesKeyError, SubstreamData, SubstreamError, SubstreamEnd,
                       AdvanceTrack, EndIoctl, OfferEnd, PushNull, Push, AfterEnd, ChannelEnd
  <2> QED
    BY <2>1
<1>2. CASE Signal
  BY <1>2 DEF Signal
<1>3. CASE StopAbort
  BY <1>3 DEF StopAbort
<1>4. CASE StopWait
  BY <1>4 DEF StopWait
<1>5. CASE StopClear
  BY <1>5 DEF StopClear
<1>6. CASE \/ GetPcm \/ FillFifo \/ Choose \/ SayBusy \/ SendRequest \/ Decode \/ Lock \/ CondWait
           \/ CondWake \/ NothingThere
  <2>1. dlabort' = dlabort /\ dpc \notin {"stop wait", "stop clear"}
    BY <1>6 DEF GetPcm, FillFifo, Choose, SayBusy, SendRequest, Decode, Lock, CondWait, CondWake,
                NothingThere
  <2> QED
    BY <2>1
<1>7. CASE \/ TakeStart \/ TakeData \/ LeaveEnd \/ TakeEnd \/ Return \/ StopLook \/ Report
           \/ UseFreed
  <2>1. dlabort' = dlabort /\ dpc \notin {"stop wait", "stop clear"}
    BY <1>7 DEF TakeStart, TakeData, LeaveEnd, TakeEnd, AtBuffer, Return, StopLook, Report, UseFreed
  <2> QED
    BY <2>1
<1>8. CASE UNCHANGED vars
  BY <1>8, Zenon DEF vars
<1> QED
  BY <1>1, <1>2, <1>3, <1>4, <1>5, <1>6, <1>7, <1>8, Zenon DEF Next, Network, Decoder

-----------------------------------------------------------------------------
(* Without gaps. *)

\* The last buffer of the queue.
Tip == fifo[Len(fifo)]

\* After l the rest of its track is to come, or the next track.
Follow(l) ==
  /\ l.cmd = "START" => track = l.track /\ offset + arrived = 0 /\ ~KeyPending
  /\ l.cmd = "DATA" => track = l.track /\ offset + arrived = l.n /\ ~KeyPending
  /\ l.cmd = "END" => /\ track = NextTrack(l.track)
                      /\ \/ EndingTrack
                         \/ offset + arrived = 0 /\ (KeyPending <=> play_as_list /\ track # NoTrack)

Gapless == \A i \in DOMAIN fifo : i + 1 \in DOMAIN fifo => Precedes(fifo[i], fifo[i + 1])

\* What N is about to push comes next, and what it will push next follows that.
Before == npc = "push" => Follow(buff) /\ (fifo # <<>> => Precedes(Tip, buff))

\* N is about to push the end of the track, if there is no abort.
AtEnd == HoldingEnd /\ fifo # <<>> /\ ~dlabort => Precedes(Tip, buff)

\* Otherwise what comes next follows the last buffer.
Otherwise == ~HoldingEnd /\ npc \notin {"push", "dead"}
Behind == Otherwise /\ fifo # <<>> /\ ~dlabort => Follow(Tip)

\* Without an abort the queue ends in what N has just pushed.
Pushed ==
  ~dlabort /\ fifo # <<>> /\ npc \in {"signal", "after end"} => Tip.cmd = buff.cmd /\ Tip.track = buff.track

InOrder == lost = {} => Gapless /\ Before /\ AtEnd /\ Behind

\* Taking the first buffer off leaves the last one, and the order of the others.
LEMMA TailTip ==
  ASSUME NEW s \in Seq(Buffer), s # <<>>
  PROVE  /\ Tail(s) # <<>> => Tail(s)[Len(Tail(s))] = s[Len(s)]
         /\ \A i \in DOMAIN Tail(s) : /\ i + 1 \in DOMAIN s /\ Tail(s)[i] = s[i + 1]
                                      /\ i + 1 \in DOMAIN Tail(s) => i + 1 + 1 \in DOMAIN s
<1>1. /\ Tail(s) \in Seq(Buffer) /\ Len(s) \in Nat /\ DOMAIN s = 1..Len(s)
      /\ Len(Tail(s)) = Len(s) - 1 /\ DOMAIN Tail(s) = 1..(Len(s) - 1)
      /\ \A i \in 1..(Len(s) - 1) : Tail(s)[i] = s[i + 1]
  BY HeadTailProperties
<1>2. \A i \in DOMAIN Tail(s) : /\ i + 1 \in DOMAIN s /\ Tail(s)[i] = s[i + 1]
                                /\ i + 1 \in DOMAIN Tail(s) => i + 1 + 1 \in DOMAIN s
  BY <1>1
<1>3. ASSUME Tail(s) # <<>> PROVE Tail(s)[Len(Tail(s))] = s[Len(s)]
  <2>1. Len(Tail(s)) # 0
    BY <1>1, <1>3, EmptySeq
  <2> QED
    BY <1>1, <2>1
<1> QED
  BY <1>2, <1>3

\* What N pushes is the buffer it has, but for the cut, and becomes the last one.
LEMMA PushedTip ==
  ASSUME TypeInv, Push
  PROVE  /\ npc = "push" /\ npc' = "signal" /\ fifo' # <<>>
         /\ Tip'.cmd = buff.cmd /\ Tip'.track = buff.track /\ Tip'.n = buff.n
         /\ \A i \in DOMAIN fifo' : \/ i = Len(fifo') /\ fifo'[i] = Tip'
                                    \/ i \in DOMAIN fifo /\ fifo'[i] = fifo[i]
         /\ \A i \in DOMAIN fifo' : i + 1 \in DOMAIN fifo' =>
              \/ i + 1 \in DOMAIN fifo /\ i \in DOMAIN fifo /\ fifo'[i] = fifo[i] /\ fifo'[i + 1] = fifo[i + 1]
              \/ fifo # <<>> /\ fifo'[i] = Tip /\ fifo'[i + 1] = Tip'
<1> DEFINE b == IF lastcmd = "START" /\ buff.cmd = "DATA"
                THEN [buff EXCEPT !.len = @ - PageLen] ELSE buff
<1>1. npc = "push" /\ npc' = "signal" /\ fifo' = Append(fifo, b)
  BY Zenon DEF Push
<1>2. fifo \in Seq(Buffer) /\ buff \in Buffer
  BY DEF TypeInv, TypeOK, QueueTypes
<1>3. b \in Buffer
  BY <1>2, CutBuffer DEF TypeInv, WholePackets
<1>4. b.cmd = buff.cmd /\ b.track = buff.track /\ b.n = buff.n
  BY <1>2 DEF Buffer
<1> HIDE DEF b
<1>5. /\ Len(fifo') = Len(fifo) + 1 /\ Len(fifo) \in Nat /\ fifo'[Len(fifo) + 1] = b
      /\ DOMAIN fifo = 1..Len(fifo) /\ DOMAIN fifo' = 1..(Len(fifo) + 1)
      /\ \A i \in 1..Len(fifo) : fifo'[i] = fifo[i]
  BY <1>1, <1>2, <1>3, AppendProperties, LenProperties
<1>6. Tip' = b
  BY <1>5 DEF Tip
<1>7. fifo' # <<>>
  BY <1>5
<1>8. \A i \in DOMAIN fifo' : \/ i = Len(fifo') /\ fifo'[i] = Tip'
                              \/ i \in DOMAIN fifo /\ fifo'[i] = fifo[i]
  BY <1>5, <1>6
<1>9. ASSUME NEW i \in DOMAIN fifo', i + 1 \in DOMAIN fifo'
      PROVE  \/ i + 1 \in DOMAIN fifo /\ i \in DOMAIN fifo /\ fifo'[i] = fifo[i] /\ fifo'[i + 1] = fifo[i + 1]
             \/ fifo # <<>> /\ fifo'[i] = Tip /\ fifo'[i + 1] = Tip'
  <2>1. CASE i + 1 <= Len(fifo)
    BY <1>5, <1>9, <2>1
  <2>2. CASE i = Len(fifo)
    BY <1>5, <1>6, <1>9, <2>2 DEF Tip
  <2> QED
    BY <1>5, <1>9, <2>1, <2>2
<1> QED
  BY <1>1, <1>4, <1>6, <1>7, <1>8, <1>9

\* What follows a buffer does so still when nothing it depends on has changed.
LEMMA FollowSame ==
  ASSUME track' = track, offset' + arrived' = offset + arrived, KeyPending' <=> KeyPending,
         EndingTrack' <=> EndingTrack, play_as_list' = play_as_list, NEW l, Follow(l)
  PROVE  Follow(l)'
BY Zenon DEF Follow

\* The order of two buffers depends on play_as_list only.
LEMMA PrecedesSame ==
  ASSUME play_as_list' = play_as_list, NEW b, NEW c, Precedes(b, c)
  PROVE  Precedes(b, c)'
BY DEF Precedes

\* Steps that take the first buffer off, or none, or all, and leave the rest to come.
LEMMA InOrderTake ==
  ASSUME TypeInv, InOrder, npc' = npc, buff' = buff, arrived' = arrived, track' = track, offset' = offset,
         play_as_list' = play_as_list, lost' = lost, KeyPending' <=> KeyPending,
         dlabort /\ ~dlabort' => fifo' = <<>>,
         fifo' = fifo \/ fifo' = <<>> \/ (fifo # <<>> /\ fifo' = Tail(fifo))
  PROVE  InOrder'
<1> SUFFICES ASSUME lost' = {} PROVE (Gapless /\ Before /\ AtEnd /\ Behind)'
  BY DEF InOrder
<1>1. fifo \in Seq(Buffer)
  BY DEF TypeInv, TypeOK, QueueTypes
<1>2. Gapless /\ Before /\ AtEnd /\ Behind
  BY DEF InOrder
<1>3. fifo' # <<>> => fifo # <<>> /\ Tip' = Tip
  BY <1>1, TailTip DEF Tip
<1>4. EndingTrack' <=> EndingTrack
  BY DEF EndingTrack
<1>5. \A l : Follow(l) => Follow(l)'
  BY <1>4, FollowSame, Zenon
<1>6. Gapless'
  <2>1. \A i \in DOMAIN fifo' : i + 1 \in DOMAIN fifo' =>
          \E j \in DOMAIN fifo : j + 1 \in DOMAIN fifo /\ fifo'[i] = fifo[j] /\ fifo'[i + 1] = fifo[j + 1]
    <3>1. CASE fifo' = fifo \/ fifo' = <<>>
      BY <3>1
    <3>2. CASE fifo # <<>> /\ fifo' = Tail(fifo)
      BY <1>1, <3>2, TailTip
    <3> QED
      BY <3>1, <3>2
  <2> QED
    BY <1>2, <2>1, PrecedesSame DEF Gapless
<1>7. Before'
  <2>1. npc' = "push" => Follow(buff)'
    BY <1>2, <1>5, Zenon DEF Before
  <2>2. npc' = "push" /\ fifo' # <<>> => Precedes(Tip', buff')
    BY <1>2, <1>3, Zenon DEF Before
  <2> QED
    BY <2>1, <2>2, PrecedesSame, Zenon DEF Before
<1>8. AtEnd'
  BY <1>2, <1>3, PrecedesSame, Zenon DEF AtEnd, HoldingEnd
<1>9. Behind'
  <2>1. Otherwise' /\ fifo' # <<>> /\ ~dlabort' => Follow(Tip)
    BY <1>2, <1>3 DEF Behind, Otherwise, HoldingEnd
  <2> QED
    BY <1>3, <1>4, <2>1 DEF Behind, Follow
<1> QED
  BY <1>6, <1>7, <1>8, <1>9

\* The order of the buffers in the queue, when the queue has not changed.
LEMMA GaplessSame ==
  ASSUME Gapless, fifo' = fifo, play_as_list' = play_as_list
  PROVE  Gapless'
BY PrecedesSame DEF Gapless

\* The buffer that comes next, in the words of Follow.
LEMMA WhatPrecedes ==
  ASSUME NEW b \in Buffer, NEW c \in Buffer
  PROVE  Precedes(b, c) <=>
           /\ b.cmd = "START" => c.cmd = "DATA" /\ c.track = b.track /\ c.n = 1
           /\ b.cmd = "DATA" => /\ c.track = b.track
                                /\ b.n = Tracks[b.track] => c.cmd = "END"
                                /\ b.n # Tracks[b.track] => c.cmd = "DATA" /\ c.n = b.n + 1
           /\ b.cmd = "END" => /\ c.track = b.track + 1
                               /\ play_as_list => c.cmd = "START"
                               /\ ~play_as_list => c.cmd = "DATA" /\ c.n = 1
<1>1. b.cmd \in {"START", "DATA", "END"}
  BY DEF Buffer, Cmd
<1>2. CASE b.cmd = "START"
  BY <1>2 DEF Precedes
<1>3. CASE b.cmd = "DATA"
  BY <1>3 DEF Precedes
<1>4. CASE b.cmd = "END"
  BY <1>4 DEF Precedes
<1> QED
  BY <1>1, <1>2, <1>3, <1>4

\* The track after that of a buffer of the list, if there is one.
LEMMA AfterTrack ==
  ASSUME NEW t \in TrackNo, NextTrack(t) # NoTrack
  PROVE  NextTrack(t) = t + 1
BY DEF NextTrack

\* The last buffer is one.
LEMMA TipType ==
  ASSUME TypeInv, fifo # <<>>
  PROVE  Tip \in Buffer /\ Tip.track \in TrackNo /\ Tip.cmd \in Cmd /\ Len(fifo) \in DOMAIN fifo
<1>1. fifo \in Seq(Buffer)
  BY DEF TypeInv, TypeOK, QueueTypes
<1>2. Len(fifo) \in DOMAIN fifo
  BY <1>1, EmptySeq
<1>3. Tip \in Buffer
  BY <1>1, <1>2 DEF Tip
<1> QED
  BY <1>2, <1>3 DEF Buffer

\* The START comes right after the end of the track before.
LEMMA InOrderKey ==
  ASSUME TypeInv, Keyed, Order, InOrder, AesCallback
  PROVE  InOrder'
<1>1. /\ Answering("key") /\ pending' = Tail(pending) /\ track # NoTrack /\ Offer(StartOf(track), "idle")
      /\ track' = track /\ offset' = offset /\ arrived' = arrived /\ play_as_list' = play_as_list
      /\ dlabort' = dlabort
  BY Zenon DEF AesCallback
<1>2. fifo' = fifo /\ lost' = lost
  BY Zenon DEF AesCallback, fifoVars, faultVars
<1>3. offset = 0 /\ arrived = 0 /\ KeyPending /\ ~KeyPending' /\ npc = "idle" /\ ~EndingTrack
  BY <1>1, KeyIsFirst
<1> SUFFICES ASSUME lost = {} PROVE (Gapless /\ Before /\ AtEnd /\ Behind)'
  BY <1>2 DEF InOrder
<1>4. Gapless /\ Before /\ AtEnd /\ Behind
  BY DEF InOrder
<1>5. Gapless'
  BY <1>1, <1>2, <1>4, GaplessSame
<1>6. CASE dlabort
  <2>1. npc' = "idle" /\ dlabort'
    BY <1>1, <1>6, Zenon DEF Offer
  <2> QED
    BY <1>5, <2>1 DEF Before, AtEnd, Behind
<1>7. CASE ~dlabort
  <2>1. npc' = "push" /\ buff' = StartOf(track)
    BY <1>1, <1>7, Zenon DEF Offer
  <2>2. track \in TrackNo
    BY <1>1 DEF TypeInv, TypeOK, NetTypes
  <2>3. buff' \in Buffer /\ buff'.cmd = "START" /\ buff'.track = track
    BY <2>1, <2>2, CommandBuffers DEF StartOf
  <2>4. Follow(buff)'
    BY <1>1, <1>3, <2>3 DEF Follow
  <2>5. ASSUME fifo # <<>> PROVE Precedes(Tip, buff')
    <3>1. Tip \in Buffer /\ Tip.track \in TrackNo /\ Tip.cmd \in Cmd
      BY <2>5, TipType
    <3>2. Follow(Tip)
      BY <1>3, <1>4, <1>7, <2>5 DEF Behind, Otherwise, HoldingEnd
    <3>3. Tip.cmd = "END" /\ track = NextTrack(Tip.track) /\ play_as_list
      BY <1>3, <3>1, <3>2 DEF Follow, Cmd
    <3>4. track = Tip.track + 1
      BY <1>1, <3>1, <3>3, AfterTrack
    <3> QED
      BY <2>3, <3>1, <3>3, <3>4, WhatPrecedes
  <2>6. Before'
    <3>1. fifo' # <<>> => Precedes(Tip', buff')
      BY <1>2, <2>5 DEF Tip
    <3> QED
      BY <1>1, <2>4, <3>1, PrecedesSame, Zenon DEF Before
  <2> QED
    BY <1>5, <2>1, <2>6 DEF AtEnd, Behind, Otherwise, HoldingEnd
<1> QED
  BY <1>6, <1>7

\* Data comes right after the data before it, and at the beginning after the START, or after the end of
\* the track before when the list is not played.
LEMMA InOrderData ==
  ASSUME TypeInv, Keyed, Order, InOrder, SubstreamData, [Next]_vars
  PROVE  InOrder'
<1> DEFINE q == Head(pending)
           b == [cmd |-> "DATA", track |-> q.track, n |-> q.offset + arrived + 1,
                 len |-> PacketLen, key |-> aes]
<1>1. /\ Answering("stream") /\ Offer(b, "idle") /\ arrived < Amount(q)
      /\ arrived' = arrived + 1 /\ pending' = pending /\ play_as_list' = play_as_list
  BY Zenon DEF SubstreamData
<1>2. fifo' = fifo /\ lost' = lost /\ track' = track /\ offset' = offset /\ dlabort' = dlabort
  BY Zenon DEF SubstreamData, fifoVars, faultVars, session
<1>3. /\ q.track = track /\ q.offset = offset /\ track \in TrackNo /\ ~KeyPending /\ npc = "idle"
      /\ ~EndingTrack /\ offset + arrived < Tracks[track] /\ Tracks[track] \in Nat \ {0}
  BY <1>1, StreamIsHere
<1>4. b.cmd = "DATA" /\ b.track = track /\ b.n = offset + arrived + 1
  BY <1>3
<1>5. offset \in Nat /\ arrived \in Nat
  BY SizesAssumption DEF TypeInv, TypeOK, NetTypes
<1> HIDE DEF b, q
<1> SUFFICES ASSUME lost = {} PROVE (Gapless /\ Before /\ AtEnd /\ Behind)'
  BY <1>2 DEF InOrder
<1>6. Gapless /\ Before /\ AtEnd /\ Behind
  BY DEF InOrder
<1>7. Gapless'
  BY <1>1, <1>2, <1>6, GaplessSame
<1>8. CASE dlabort
  <2>1. npc' = "idle" /\ dlabort'
    BY <1>1, <1>2, <1>8, Zenon DEF Offer
  <2> QED
    BY <1>7, <2>1 DEF Before, AtEnd, Behind
<1>9. CASE ~dlabort
  <2>1. npc' = "push" /\ buff' = b
    BY <1>1, <1>9, Zenon DEF Offer
  <2>2. buff' \in Buffer
    BY BuffKept DEF TypeInv, TypeOK
  <2>3. ~KeyPending'
    BY <1>1, <1>3 DEF KeyPending
  <2>4. Follow(buff)'
    <3>1. offset' + arrived' = offset + arrived + 1
      BY <1>1, <1>2, <1>5
    <3> QED
      BY <1>2, <1>4, <2>1, <2>3, <3>1 DEF Follow
  <2>5. ASSUME fifo # <<>> PROVE Precedes(Tip, buff')
    <3>1. Tip \in Buffer /\ Tip.track \in TrackNo /\ Tip.cmd \in Cmd
      BY <2>5, TipType
    <3>2. Follow(Tip)
      BY <1>3, <1>6, <1>9, <2>5 DEF Behind, Otherwise, HoldingEnd
    <3>3. buff'.cmd = "DATA" /\ buff'.track = track /\ buff'.n = offset + arrived + 1
      BY <1>4, <2>1
    <3>4. CASE Tip.cmd = "START"
      <4>1. Tip.track = track /\ offset + arrived = 0
        BY <3>2, <3>4 DEF Follow
      <4> QED
        BY <2>2, <3>1, <3>3, <3>4, <4>1, WhatPrecedes
    <3>5. CASE Tip.cmd = "DATA"
      <4>1. Tip.track = track /\ Tip.n = offset + arrived
        BY <3>2, <3>5 DEF Follow
      <4>2. Tip.n # Tracks[Tip.track]
        BY <1>3, <1>5, <4>1
      <4> QED
        BY <2>2, <3>1, <3>3, <3>5, <4>1, <4>2, WhatPrecedes
    <3>6. CASE Tip.cmd = "END"
      <4>1. track = NextTrack(Tip.track) /\ offset + arrived = 0 /\ ~(play_as_list /\ track # NoTrack)
        BY <1>3, <3>2, <3>6 DEF Follow
      <4>2. track # NoTrack
        BY <1>3, NoTrackIsNone
      <4>3. track = Tip.track + 1
        BY <3>1, <4>1, <4>2, AfterTrack
      <4> QED
        BY <2>2, <3>1, <3>3, <3>6, <4>1, <4>2, <4>3, WhatPrecedes
    <3> QED
      BY <3>1, <3>4, <3>5, <3>6 DEF Cmd
  <2>6. Before'
    <3>1. fifo' # <<>> => Precedes(Tip', buff')
      BY <1>2, <2>5 DEF Tip
    <3> QED
      BY <1>1, <2>4, <3>1, PrecedesSame, Zenon DEF Before
  <2> QED
    BY <1>7, <2>1, <2>6 DEF AtEnd, Behind, Otherwise, HoldingEnd
<1> QED
  BY <1>8, <1>9

\* The end of a track comes right after its last data; that of a full substream changes nothing.
LEMMA InOrderEnd ==
  ASSUME TypeInv, Keyed, Order, InOrder, SubstreamEnd
  PROVE  InOrder'
<1>1. /\ Answering("stream") /\ pending' = Tail(pending) /\ arrived' = 0 /\ offset' = offset + arrived
      /\ arrived = Amount(Head(pending)) /\ play_as_list' = play_as_list /\ dlabort' = dlabort
      /\ track' = track
  BY Zenon DEF SubstreamEnd
<1>2. fifo' = fifo /\ lost' = lost
  BY Zenon DEF SubstreamEnd, fifoVars, faultVars
<1>3. /\ track \in TrackNo /\ ~KeyPending /\ npc = "idle" /\ ~EndingTrack /\ Tail(pending) = <<>>
      /\ Tracks[track] \in Nat \ {0}
      /\ arrived < Substream => offset + arrived = Tracks[track]
  BY <1>1, StreamIsHere
<1>4. \/ arrived < Substream /\ npc' = "advance" /\ buff' = EndOf(track)
      \/ npc' = "channel end"
  BY Zenon DEF SubstreamEnd
<1>5. ~KeyPending'
  BY <1>1, <1>3 DEF KeyPending
<1>6. offset \in Nat /\ arrived \in Nat
  BY SizesAssumption DEF TypeInv, TypeOK, NetTypes
<1> SUFFICES ASSUME lost = {} PROVE (Gapless /\ Before /\ AtEnd /\ Behind)'
  BY <1>2 DEF InOrder
<1>7. Gapless /\ Before /\ AtEnd /\ Behind
  BY DEF InOrder
<1>8. Gapless'
  BY <1>1, <1>2, <1>7, GaplessSame
<1>9. CASE arrived < Substream /\ npc' = "advance" /\ buff' = EndOf(track)
  <2>1. buff' \in Buffer /\ buff'.cmd = "END" /\ buff'.track = track
    BY <1>3, <1>9, CommandBuffers DEF EndOf
  <2>2. ASSUME fifo # <<>>, ~dlabort PROVE Precedes(Tip, buff')
    <3>1. Tip \in Buffer /\ Tip.track \in TrackNo /\ Tip.cmd \in Cmd
      BY <2>2, TipType
    <3>2. Follow(Tip)
      BY <1>3, <1>7, <2>2 DEF Behind, Otherwise, HoldingEnd
    <3>3. offset + arrived = Tracks[track] /\ offset + arrived # 0
      BY <1>3, <1>9
    <3>4. Tip.cmd = "DATA" /\ Tip.track = track /\ Tip.n = Tracks[track]
      BY <1>3, <3>1, <3>2, <3>3 DEF Follow, Cmd
    <3> QED
      BY <2>1, <3>1, <3>4, WhatPrecedes
  <2>3. AtEnd'
    <3>1. fifo' # <<>> /\ ~dlabort' => Precedes(Tip', buff')
      BY <1>1, <1>2, <2>2 DEF Tip
    <3> QED
      BY <1>1, <3>1, PrecedesSame, Zenon DEF AtEnd
  <2> QED
    BY <1>8, <1>9, <2>3 DEF Before, Behind, Otherwise, HoldingEnd
<1>10. CASE npc' = "channel end"
  <2>1. offset' + arrived' = offset + arrived
    BY <1>1, <1>6
  <2>2. ~EndingTrack'
    BY <1>10 DEF EndingTrack
  <2>3. \A l : Follow(l) => Follow(l)'
    BY <1>1, <1>3, <1>5, <2>1, <2>2, FollowSame, Zenon
  <2>4. fifo' # <<>> /\ ~dlabort' => Follow(Tip) /\ Tip' = Tip
    BY <1>1, <1>2, <1>3, <1>7 DEF Behind, Otherwise, HoldingEnd, Tip
  <2>5. Behind'
    BY <2>3, <2>4, Zenon DEF Behind
  <2> QED
    BY <1>8, <1>10, <2>5 DEF Before, AtEnd, HoldingEnd
<1> QED
  BY <1>4, <1>9, <1>10

\* While the track moves on, the end is held.
LEMMA InOrderAdvance ==
  ASSUME TypeInv, Order, InOrder, AdvanceTrack
  PROVE  InOrder'
<1>1. /\ npc = "advance" /\ npc' = "end" /\ fifo' = fifo /\ dlabort' = dlabort /\ buff' = buff
      /\ lost' = lost
  BY OrderAdvance, Zenon
<1>2. play_as_list' = play_as_list
  BY Zenon DEF AdvanceTrack
<1> SUFFICES ASSUME lost = {} PROVE (Gapless /\ Before /\ AtEnd /\ Behind)'
  BY <1>1 DEF InOrder
<1>3. Gapless' /\ Tip' = Tip
  BY <1>1, <1>2, GaplessSame DEF InOrder, Tip
<1>4. fifo' # <<>> /\ ~dlabort' => Precedes(Tip', buff')
  BY <1>1, <1>3 DEF InOrder, AtEnd, HoldingEnd
<1>5. AtEnd'
  BY <1>1, <1>2, <1>4, PrecedesSame, Zenon DEF AtEnd
<1> QED
  BY <1>1, <1>3, <1>5 DEF Before, Behind, Otherwise, HoldingEnd

\* N works on a buffer, or ends a substream.
LEMMA InOrderBuffer ==
  ASSUME TypeInv, Keyed, Order, InOrder, EndIoctl \/ OfferEnd \/ Push \/ PushNull \/ Signal \/ ChannelEnd
  PROVE  InOrder'
<1>1. /\ pending' = pending /\ arrived' = arrived /\ track' = track /\ offset' = offset /\ buff' = buff
      /\ lost' = lost /\ play_as_list' = play_as_list /\ dlabort' = dlabort
      /\ EndingTrack' <=> EndingTrack
      /\ ~Push => fifo' = fifo
  BY BufferSteps, Zenon
<1>2. KeyPending' <=> KeyPending
  BY <1>1 DEF KeyPending
<1>3. \A l : Follow(l) => Follow(l)'
  BY <1>1, <1>2, FollowSame, Zenon
<1> SUFFICES ASSUME lost = {} PROVE (Gapless /\ Before /\ AtEnd /\ Behind)'
  BY <1>1 DEF InOrder
<1>4. Gapless /\ Before /\ AtEnd /\ Behind
  BY DEF InOrder
<1>8. CASE EndIoctl
  <2>1. fifo' = fifo /\ Tip' = Tip /\ Gapless'
    BY <1>1, <1>4, <1>8, GaplessSame DEF EndIoctl, fifoVars, Tip
  <2>2. npc = "end" /\ npc' = "offer"
    BY <1>8, Zenon DEF EndIoctl
  <2>3. fifo' # <<>> /\ ~dlabort' => Precedes(Tip', buff')
    BY <1>1, <1>4, <2>1, <2>2 DEF AtEnd, HoldingEnd
  <2>4. AtEnd'
    BY <1>1, <2>3, PrecedesSame, Zenon DEF AtEnd
  <2> QED
    BY <2>1, <2>2, <2>4 DEF Before, Behind, Otherwise, HoldingEnd
<1>9. CASE PushNull
  <2>1. fifo' = fifo /\ Gapless' /\ npc' = "dead"
    BY <1>1, <1>4, <1>9, GaplessSame DEF PushNull, fifoVars
  <2> QED
    BY <2>1 DEF Before, AtEnd, Behind, Otherwise, HoldingEnd
<1>5. CASE OfferEnd
  <2>1. fifo' = fifo /\ Tip' = Tip /\ Gapless'
    BY <1>1, <1>4, <1>5, GaplessSame DEF OfferEnd, fifoVars, Tip
  <2>2. npc = "offer" /\ npc' = (IF dlabort THEN "after end" ELSE "push")
    BY <1>5, Zenon DEF OfferEnd, Offer
  <2>3. CASE dlabort
    BY <1>1, <2>1, <2>2, <2>3 DEF Before, AtEnd, Behind, HoldingEnd
  <2>4. CASE ~dlabort
    <3>1. EndingTrack
      BY <2>2 DEF EndingTrack
    <3>2. buff.cmd = "END" /\ track = NextTrack(buff.track)
      BY <2>2, <3>1 DEF Order, OneEnd
    <3>3. Follow(buff)
      BY <3>1, <3>2 DEF Follow
    <3>4. Follow(buff)'
      BY <1>1, <1>3, <3>3, Zenon
    <3>5. fifo' # <<>> => Precedes(Tip', buff')
      BY <1>1, <1>4, <2>1, <2>2, <2>4 DEF AtEnd, HoldingEnd
    <3>6. Before'
      BY <1>1, <3>4, <3>5, PrecedesSame, Zenon DEF Before
    <3> QED
      BY <2>1, <2>2, <2>4, <3>6 DEF AtEnd, Behind, Otherwise, HoldingEnd
  <2> QED
    BY <2>3, <2>4
<1>6. CASE Push
  <2>1. /\ npc = "push" /\ npc' = "signal" /\ fifo' # <<>>
        /\ Tip'.cmd = buff.cmd /\ Tip'.track = buff.track /\ Tip'.n = buff.n
        /\ \A i \in DOMAIN fifo' : i + 1 \in DOMAIN fifo' =>
             \/ i + 1 \in DOMAIN fifo /\ i \in DOMAIN fifo /\ fifo'[i] = fifo[i] /\ fifo'[i + 1] = fifo[i + 1]
             \/ fifo # <<>> /\ fifo'[i] = Tip /\ fifo'[i + 1] = Tip'
    BY <1>6, PushedTip
  <2>2. Follow(buff) /\ (fifo # <<>> => Precedes(Tip, buff))
    BY <1>4, <2>1, Zenon DEF Before
  <2>3. fifo # <<>> => Precedes(Tip, Tip')
    BY <2>1, <2>2 DEF Precedes
  <2>4. Gapless'
    <3>1. \A i \in DOMAIN fifo' : i + 1 \in DOMAIN fifo' => Precedes(fifo'[i], fifo'[i + 1])
      BY <1>4, <2>1, <2>3, Zenon DEF Gapless
    <3> QED
      BY <1>1, <3>1, PrecedesSame, Zenon DEF Gapless
  <2>5. Follow(Tip)'
    <3>1. Follow(buff)'
      BY <1>1, <1>3, <2>2, Zenon
    <3> QED
      BY <1>1, <2>1, <3>1 DEF Follow
  <2> QED
    BY <2>1, <2>4, <2>5 DEF Before, AtEnd, Behind, HoldingEnd
<1>7. CASE Signal \/ ChannelEnd
  <2>1. npc \in {"signal", "channel end"} /\ npc' \in {"after end", "idle"}
    BY <1>7 DEF Signal, ChannelEnd
  <2>2. fifo' = fifo /\ Tip' = Tip /\ Gapless'
    BY <1>1, <1>4, <1>7, GaplessSame DEF Signal, ChannelEnd, fifoVars, Tip
  <2>3. fifo' # <<>> /\ ~dlabort' => Follow(Tip)
    BY <1>1, <1>4, <2>1, <2>2 DEF Behind, Otherwise, HoldingEnd
  <2>4. Behind'
    BY <1>3, <2>2, <2>3, Zenon DEF Behind
  <2> QED
    BY <2>1, <2>2, <2>4 DEF Before, AtEnd, HoldingEnd
<1> QED
  BY <1>5, <1>6, <1>7, <1>8, <1>9

\* What N does after the end of a track, the key asked for.
LEMMA InOrderAfter ==
  ASSUME TypeInv, Order, InOrder, Pushed, AfterEnd
  PROVE  InOrder'
<1>1. /\ offset' = 0 /\ arrived' = 0 /\ track' = track /\ fifo' = fifo /\ dlabort' = dlabort
      /\ \/ track # NoTrack /\ play_as_list /\ lost' = lost /\ KeyPending'
         \/ track # NoTrack /\ play_as_list /\ lost' = lost \cup {<<"key", track>>}
         \/ ~(track # NoTrack /\ play_as_list) /\ lost' = lost /\ ~KeyPending'
  BY OrderAfterEnd, Zenon
<1>2. npc = "after end" /\ npc' = "channel end" /\ play_as_list' = play_as_list
  BY Zenon DEF AfterEnd
<1> SUFFICES ASSUME lost' = {} PROVE (Gapless /\ Before /\ AtEnd /\ Behind)'
  BY DEF InOrder
<1>3. lost = {} /\ (KeyPending' <=> track # NoTrack /\ play_as_list)
  BY <1>1
<1>4. Gapless /\ Before /\ AtEnd /\ Behind
  BY <1>3 DEF InOrder
<1>5. Gapless' /\ Tip' = Tip
  BY <1>1, <1>2, <1>4, GaplessSame DEF Tip
<1>6. ASSUME fifo' # <<>>, ~dlabort' PROVE Follow(Tip)'
  <2>1. Follow(Tip) /\ EndingTrack /\ fifo # <<>> /\ ~dlabort
    BY <1>1, <1>2, <1>4, <1>6 DEF Behind, Otherwise, HoldingEnd, EndingTrack
  <2>2. Tip.cmd = "END"
    BY <1>2, <2>1 DEF Pushed, Order, OneEnd
  <2>3. track = NextTrack(Tip.track)
    BY <2>1, <2>2, Zenon DEF Follow
  <2>4. Tip'.cmd = "END" /\ track' = NextTrack(Tip'.track) /\ offset' + arrived' = 0
    BY <1>1, <1>5, <2>2, <2>3
  <2>5. KeyPending' <=> play_as_list' /\ track' # NoTrack
    BY <1>1, <1>2, <1>3, Zenon
  <2> QED
    BY <2>4, <2>5 DEF Follow
<1> QED
  BY <1>2, <1>5, <1>6 DEF Before, AtEnd, Behind, HoldingEnd

\* The last buffer is what N has just pushed, in every step.
LEMMA PushedKept ==
  ASSUME TypeInv, Keyed, Order, Pushed, [Next]_vars
  PROVE  Pushed'
<1>1. CASE AesCallback \/ AesKeyError \/ SubstreamData \/ SubstreamError \/ SubstreamEnd
  <2>1. npc = "idle"
    BY <1>1, Zenon DEF AesCallback, AesKeyError, SubstreamData, SubstreamError, SubstreamEnd, Answering
  <2>2. npc' \in {"idle", "push", "advance", "channel end"}
    BY <1>1, <2>1 DEF AesCallback, AesKeyError, SubstreamData, SubstreamError, SubstreamEnd, Offer, nvars
  <2> QED
    BY <2>2 DEF Pushed
<1>2. CASE AdvanceTrack \/ EndIoctl \/ PushNull
  <2>1. npc' \in {"end", "offer", "dead"}
    BY <1>2 DEF AdvanceTrack, EndIoctl, PushNull
  <2> QED
    BY <2>1 DEF Pushed
<1>7. CASE OfferEnd
  BY <1>7 DEF OfferEnd, Offer, Pushed, session
<1>3. CASE Push
  <2>1. buff' = buff /\ Tip'.cmd = buff.cmd /\ Tip'.track = buff.track
    BY <1>3, PushedTip, Zenon DEF Push
  <2> QED
    BY <2>1 DEF Pushed
<1>4. CASE Signal
  <2>1. npc = "signal" /\ fifo' = fifo /\ Tip' = Tip /\ buff' = buff /\ dlabort' = dlabort
    BY <1>4 DEF Signal, session, Tip
  <2> QED
    BY <2>1 DEF Pushed
<1>5. CASE AfterEnd \/ ChannelEnd
  BY <1>5 DEF AfterEnd, ChannelEnd, Pushed
<1>6. CASE Decoder \/ UseFreed \/ UNCHANGED vars
  <2>1. npc' = npc /\ buff' = buff
    BY <1>6, DecoderSteps, Zenon
  <2>2. fifo \in Seq(Buffer)
    BY DEF TypeInv, TypeOK, QueueTypes
  <2>3. \/ fifo' = <<>>
        \/ /\ ~dlabort' => ~dlabort
           /\ fifo' = fifo \/ (fifo # <<>> /\ fifo' = Tail(fifo))
    BY <1>6, DecoderSteps, Zenon DEF StopAbort, StopClear, SendRequest, fifoVars, session
  <2>4. fifo' # <<>> => fifo # <<>> /\ Tip' = Tip
    BY <2>2, <2>3, TailTip DEF Tip
  <2> QED
    BY <2>1, <2>3, <2>4 DEF Pushed
<1> QED
  BY <1>1, <1>2, <1>3, <1>4, <1>5, <1>6, <1>7, Zenon DEF Next, Network

\* A fault loses something.
LEMMA FaultLoses ==
  ASSUME AesKeyError \/ SubstreamError
  PROVE  lost' # {}
BY DEF AesKeyError, SubstreamError

LEMMA InOrderKept ==
  ASSUME TypeInv, Fetch, Keyed, Order, Pushed, InOrder, [Next]_vars
  PROVE  InOrder'
<1>1. CASE AesKeyError \/ SubstreamError
  BY <1>1, FaultLoses DEF InOrder
<1>2. CASE EndIoctl \/ OfferEnd \/ PushNull \/ Push \/ Signal \/ ChannelEnd
  BY <1>2, InOrderBuffer
<1>3. CASE Decoder \/ UseFreed \/ UNCHANGED vars
  <2>1. /\ npc' = npc /\ buff' = buff /\ arrived' = arrived /\ track' = track /\ offset' = offset
        /\ play_as_list' = play_as_list
    BY <1>3, DecoderSteps, Zenon
  <2>2. /\ dlabort /\ ~dlabort' => fifo' = <<>>
        /\ fifo' = fifo \/ fifo' = <<>> \/ (fifo # <<>> /\ fifo' = Tail(fifo))
    <3>1. CASE StopAbort \/ SendRequest
      <4>1. fifo' = fifo
        BY <3>1, Zenon DEF StopAbort, SendRequest, fifoVars
      <4>2. dlabort => dlabort'
        BY <3>1 DEF StopAbort, SendRequest, session
      <4> QED
        BY <4>1, <4>2
    <3>2. CASE StopClear
      BY <3>2, Zenon DEF StopClear
    <3>3. CASE ~(StopAbort \/ SendRequest \/ StopClear)
      <4>1. dlabort' = dlabort /\ (fifo' = fifo \/ (fifo # <<>> /\ fifo' = Tail(fifo)))
        BY <1>3, <3>3, DecoderSteps, Zenon
      <4> QED
        BY <4>1
    <3> QED
      BY <3>1, <3>2, <3>3
  <2>3. CASE lost' = lost
    <3>1. KeyPending' <=> KeyPending
      <4>1. CASE SendRequest
        BY <4>1, OrderSend
      <4>2. CASE ~SendRequest
        <5>1. pending' = pending
          BY <1>3, <4>2, DecoderSteps, Zenon DEF StopAbort, StopClear, net
        <5> QED
          BY <5>1 DEF KeyPending
      <4> QED
        BY <4>1, <4>2
    <3> QED
      BY <2>1, <2>2, <2>3, <3>1, InOrderTake
  <2>4. CASE lost' # lost
    <3>1. SendRequest /\ lost' # {}
      <4>1. SendRequest
        BY <1>3, <2>4, DecoderSteps, Zenon DEF StopAbort, StopClear, faultVars
      <4> QED
        BY <2>4, <4>1 DEF SendRequest, faultVars
    <3> QED
      BY <3>1 DEF InOrder
  <2> QED
    BY <2>3, <2>4
<1> QED
  BY <1>1, <1>2, <1>3, InOrderKey, InOrderData, InOrderEnd, InOrderAdvance, InOrderAfter, Zenon
     DEF Next, Network

LEMMA InOrderInit == Init => InOrder /\ Pushed
<1> SUFFICES ASSUME Init PROVE InOrder /\ Pushed
  OBVIOUS
<1>1. fifo = <<>> /\ npc = "idle"
  BY Zenon DEF Init
<1> QED
  BY <1>1 DEF InOrder, Gapless, Before, AtEnd, Behind, HoldingEnd, Pushed

\* Two neighbours in the queue follow each other in the list as long as no request failed, for every list and
\* every size of packets, substreams and of the queue: each START, packet and END is pushed right behind the
\* one that comes before it, whatever N and D do in between (snd_ioctl, despotify_substream_callback).  Of
\* what an early end frees or drops it says nothing.
THEOREM SndGapless == Spec => []QueueIsGapless
<1>1. InOrder => QueueIsGapless
  BY DEF InOrder, Gapless, QueueIsGapless
<1> QED
  BY <1>1, TypeInit, TypeKept, FetchInit, FetchKept, KeyedInit, KeyedKept, OrderInit, OrderKept,
     InOrderInit, PushedKept, InOrderKept, PTL DEF Spec

-----------------------------------------------------------------------------
(* The early end. *)

\* The key of track t is asked for.
Asked(t) == \E i \in DOMAIN pending : pending[i] = KeyRequest(t)

\* The START of track t is still to come (StartIsDue, but for the end of a substream).
Coming(t) ==
  \/ npc \in {"signal", "after end"}
  \/ npc = "push" /\ buff = StartOf(t)
  \/ Asked(t)
  \/ ~play_as_list \/ <<"key", t>> \in lost

\* Behind an END at the back of the queue the START of the next track is to come.
Due == ~dlabort /\ fifo # <<>> /\ Tip.cmd = "END" /\ Tip.track # Len(Tracks) => Coming(Tip.track + 1)

\* Steps after which the last buffer is the one it was, and no abort has ended.
LEMMA DueSame ==
  ASSUME Due, fifo' # <<>> => fifo # <<>> /\ Tip' = Tip, ~dlabort' /\ fifo' # <<>> => ~dlabort,
         \A t : Coming(t) => Coming(t)'
  PROVE  Due'
<1> SUFFICES ASSUME ~dlabort', fifo' # <<>>, Tip'.cmd = "END", Tip'.track # Len(Tracks)
             PROVE  Coming(Tip.track + 1)'
  BY Zenon DEF Due
<1>1. Coming(Tip.track + 1) /\ Tip' = Tip
  BY DEF Due
<1> QED
  BY <1>1 DEF Coming, Asked

\* N has just pushed an END, or taken up what comes after it.
LEMMA DueNow == ASSUME npc' \in {"signal", "after end"} PROVE Due'
BY DEF Due, Coming

\* The queue is as it was.
LEMMA SameTip == ASSUME fifo' = fifo PROVE Tip' = Tip
BY DEF Tip

LEMMA DueKept ==
  ASSUME TypeInv, Fetch, Keyed, Order, Pushed, Due, [Next]_vars
  PROVE  Due'
<1>0. lost \subseteq lost' /\ play_as_list' = play_as_list
  BY LostStays
<1>1. CASE AesCallback
  <2>1. /\ Answering("key") /\ pending' = Tail(pending) /\ track # NoTrack /\ Offer(StartOf(track), "idle")
        /\ fifo' = fifo /\ dlabort' = dlabort /\ lost' = lost
    BY <1>1, Zenon DEF AesCallback, fifoVars, faultVars
  <2>2. /\ npc = "idle" /\ \A i \in DOMAIN pending : pending[i].kind = "key" => i = 1
        /\ Head(pending) = KeyRequest(track) /\ 1 \in DOMAIN pending /\ Head(pending) = pending[1]
    BY <2>1, KeyIsFirst DEF Answering, TypeInv, TypeOK, NetTypes
  <2>3. ASSUME ~dlabort', fifo' # <<>>, NEW t, Coming(t) PROVE Coming(t)'
    <3>1. npc' = "push" /\ buff' = StartOf(track)
      BY <2>1, <2>3, Zenon DEF Offer
    <3>2. CASE Asked(t)
      <4>1. KeyRequest(t) = KeyRequest(track)
        BY <2>2, <3>2 DEF Asked, KeyRequest
      <4>2. t = track
        BY <4>1 DEF KeyRequest
      <4> QED
        BY <3>1, <4>2 DEF Coming, StartOf
    <3>3. CASE ~play_as_list \/ <<"key", t>> \in lost
      BY <1>0, <3>3, Zenon DEF Coming
    <3> QED
      BY <2>2, <2>3, <3>2, <3>3 DEF Coming
  <2> QED
    BY <2>1, <2>3, DueSame, SameTip DEF Due
<1>2. CASE AesKeyError
  <2>1. /\ Answering("key") /\ pending' = Tail(pending) /\ lost' = lost \cup {<<"key", Head(pending).track>>}
        /\ fifo' = fifo /\ dlabort' = dlabort /\ npc' = npc
    BY <1>2, Zenon DEF AesKeyError, fifoVars, session, nvars
  <2>2. /\ npc = "idle" /\ \A i \in DOMAIN pending : pending[i].kind = "key" => i = 1
        /\ Head(pending) = KeyRequest(track) /\ 1 \in DOMAIN pending /\ Head(pending) = pending[1]
    BY <2>1, KeyIsFirst DEF Answering, TypeInv, TypeOK, NetTypes
  <2>3. ASSUME NEW t, Coming(t) PROVE Coming(t)'
    <3>1. CASE Asked(t)
      <4>1. KeyRequest(t) = KeyRequest(track)
        BY <2>2, <3>1 DEF Asked, KeyRequest
      <4>2. Head(pending).track = t
        BY <2>2, <4>1 DEF KeyRequest
      <4>3. <<"key", t>> \in lost'
        BY <2>1, <4>2
      <4> QED
        BY <4>3, Zenon DEF Coming
    <3>2. CASE ~play_as_list \/ <<"key", t>> \in lost
      BY <1>0, <3>2, Zenon DEF Coming
    <3> QED
      BY <2>2, <2>3, <3>1, <3>2 DEF Coming
  <2> QED
    BY <2>1, <2>3, DueSame, SameTip
<1>3. CASE SubstreamData \/ SubstreamError \/ SubstreamEnd
  <2>1. Answering("stream") /\ fifo' = fifo /\ dlabort' = dlabort
    BY <1>3, Zenon DEF SubstreamData, SubstreamError, SubstreamEnd, fifoVars, session
  <2>2. npc = "idle" /\ \A i \in DOMAIN pending : pending[i].kind # "key"
    BY <2>1, StreamIsHere
  <2>3. ASSUME NEW t, Coming(t) PROVE Coming(t)'
    <3>1. ~Asked(t)
      BY <2>2 DEF Asked, KeyRequest
    <3>2. ~play_as_list \/ <<"key", t>> \in lost
      BY <2>2, <2>3, <3>1 DEF Coming
    <3> QED
      BY <1>0, <3>2, Zenon DEF Coming
  <2> QED
    BY <2>1, <2>3, DueSame, SameTip
<1>4. CASE AdvanceTrack \/ EndIoctl \/ OfferEnd \/ PushNull
  <2>1. fifo' = fifo /\ dlabort' = dlabort
    BY <1>4, Zenon DEF AdvanceTrack, EndIoctl, OfferEnd, PushNull, fifoVars, session
  <2>2. EndingTrack /\ npc \notin {"signal", "after end"} /\ (npc = "push" => buff.cmd = "END")
    BY <1>4 DEF AdvanceTrack, EndIoctl, OfferEnd, PushNull, Headless, EndingTrack
  <2>4. pending = <<>>
    BY <2>2 DEF Order, OneEnd
  <2>3. ASSUME NEW t, Coming(t) PROVE Coming(t)'
    <3>2. ~Asked(t)
      BY <2>4 DEF Asked
    <3>3. StartOf(t).cmd # "END"
      BY DEF StartOf
    <3>4. npc \notin {"signal", "after end"} /\ ~(npc = "push" /\ buff = StartOf(t))
      BY <2>2, <3>3, Zenon
    <3>1. ~play_as_list \/ <<"key", t>> \in lost
      BY <2>3, <3>2, <3>4, Zenon DEF Coming
    <3> QED
      BY <1>0, <3>1, Zenon DEF Coming
  <2> QED
    BY <2>1, <2>3, DueSame, SameTip
<1>5. CASE Push
  <2>1. npc' = "signal"
    BY <1>5, Zenon DEF Push
  <2> QED
    BY <2>1, DueNow
<1>6. CASE Signal
  <2>1. /\ npc = "signal" /\ fifo' = fifo /\ dlabort' = dlabort
        /\ npc' = IF buff.cmd = "END" THEN "after end" ELSE "idle"
    BY <1>6, Zenon DEF Signal, session
  <2>2. CASE buff.cmd = "END"
    BY <2>1, <2>2, DueNow
  <2>3. CASE buff.cmd # "END"
    <3>1. ~dlabort' /\ fifo' # <<>> => Tip'.cmd # "END"
      BY <2>1, <2>3, SameTip DEF Pushed
    <3> QED
      BY <3>1, Zenon DEF Due
  <2> QED
    BY <2>2, <2>3
<1>7. CASE AfterEnd
  <2>1. /\ track' = track /\ fifo' = fifo /\ dlabort' = dlabort /\ track = NextTrack(buff.track)
        /\ \/ pending' = <<KeyRequest(track)>>
           \/ lost' = lost \cup {<<"key", track>>}
           \/ ~(track # NoTrack /\ play_as_list)
    BY <1>7, OrderAfterEnd, Zenon
  <2>2. npc = "after end"
    BY <1>7, Zenon DEF AfterEnd
  <2> SUFFICES ASSUME ~dlabort', fifo' # <<>>, Tip'.cmd = "END", Tip'.track # Len(Tracks)
               PROVE  Coming(Tip.track + 1)'
    BY Zenon DEF Due
  <2>3. Tip' = Tip /\ fifo # <<>> /\ ~dlabort
    BY <2>1, SameTip
  <2>4. Tip.track = buff.track /\ Tip.track \in TrackNo
    BY <2>2, <2>3, TipType DEF Pushed
  <2>5. track = Tip.track + 1 /\ track # NoTrack
    BY <2>1, <2>3, <2>4, SizesAssumption DEF NextTrack, NoTrack, TrackNo
  <2>6. CASE pending' = <<KeyRequest(track)>>
    <3>1. pending'[1] = KeyRequest(track) /\ 1 \in DOMAIN pending'
      BY <2>6
    <3> QED
      BY <2>3, <2>5, <3>1 DEF Coming, Asked
  <2>7. CASE lost' = lost \cup {<<"key", track>>}
    BY <2>3, <2>5, <2>7 DEF Coming
  <2>8. CASE ~(track # NoTrack /\ play_as_list)
    BY <1>0, <2>5, <2>8 DEF Coming
  <2> QED
    BY <2>1, <2>6, <2>7, <2>8
<1>8. CASE ChannelEnd
  <2>1. npc = "channel end" /\ fifo' = fifo /\ dlabort' = dlabort /\ pending' = pending
    BY <1>8, Zenon DEF ChannelEnd, fifoVars, net
  <2>2. ASSUME NEW t, Coming(t) PROVE Coming(t)'
    <3>1. Asked(t) \/ ~play_as_list \/ <<"key", t>> \in lost
      BY <2>1, <2>2 DEF Coming
    <3> QED
      BY <1>0, <2>1, <3>1, Zenon DEF Coming, Asked
  <2> QED
    BY <2>1, <2>2, DueSame, SameTip
<1>9. CASE Decoder \/ UseFreed \/ UNCHANGED vars
  <2>1. npc' = npc /\ buff' = buff
    BY <1>9, DecoderSteps, Zenon
  <2>2. fifo \in Seq(Buffer)
    BY DEF TypeInv, TypeOK, QueueTypes
  <2>3. \/ fifo' = <<>>
        \/ /\ ~dlabort' => ~dlabort
           /\ fifo' = fifo \/ (fifo # <<>> /\ fifo' = Tail(fifo))
    BY <1>9, DecoderSteps, Zenon DEF StopAbort, StopClear, SendRequest, fifoVars, session
  <2>4. fifo' # <<>> => fifo # <<>> /\ Tip' = Tip
    BY <2>2, <2>3, TailTip DEF Tip
  <2>5. ASSUME NEW t, Asked(t) PROVE Asked(t)'
    <3>1. CASE SendRequest
      <4>1. pending \in Seq(Requests)
        BY DEF TypeInv, TypeOK, NetTypes, Requests
      <4>2. \/ pending' = pending
            \/ track # NoTrack /\ pending' = Append(pending, StreamRequest(track, offset))
        BY <3>1, Zenon DEF SendRequest
      <4>3. track # NoTrack => StreamRequest(track, offset) \in Requests
        BY NewRequests DEF TypeInv, TypeOK, NetTypes
      <4>4. \A i \in DOMAIN pending : i \in DOMAIN pending' /\ pending'[i] = pending[i]
        BY <4>1, <4>2, <4>3, AppendProperties
      <4> QED
        BY <2>5, <4>4, Zenon DEF Asked
    <3>2. CASE ~SendRequest
      <4>1. pending' = pending
        BY <1>9, <3>2, DecoderSteps, Zenon DEF StopAbort, StopClear, net
      <4> QED
        BY <2>5, <4>1, Zenon DEF Asked
    <3> QED
      BY <3>1, <3>2
  <2>6. ASSUME NEW t, Coming(t) PROVE Coming(t)'
    BY <1>0, <2>1, <2>5, <2>6, Zenon DEF Coming
  <2> QED
    BY <2>3, <2>4, <2>6, DueSame
<1> QED
  BY <1>1, <1>2, <1>3, <1>4, <1>5, <1>6, <1>7, <1>8, <1>9, Zenon DEF Next, Network

\* When nothing is behind the first buffer, it is the last.
LEMMA OnlyBuffer ==
  ASSUME NEW s \in Seq(Buffer), s # <<>>, Tail(s) = <<>>
  PROVE  Head(s) = s[Len(s)]
<1>1. Len(Tail(s)) = Len(s) - 1 /\ Len(s) \in Nat
  BY HeadTailProperties
<1>2. Len(Tail(s)) = 0
  BY EmptySeq, Zenon
<1>3. Len(s) = 1
  BY <1>1, <1>2
<1> QED
  BY <1>3

\* Only an END taken off the queue is an early one.
LEMMA EarlyByTakeEnd ==
  ASSUME [Next]_vars, early' # early
  PROVE  TakeEnd
<1>1. CASE AesCallback \/ AesKeyError \/ SubstreamData \/ SubstreamError \/ SubstreamEnd
  BY <1>1, Zenon DEF AesCallback, AesKeyError, SubstreamData, SubstreamError, SubstreamEnd, dvars, history
<1>2. CASE AdvanceTrack \/ EndIoctl \/ OfferEnd \/ PushNull \/ Push \/ Signal \/ AfterEnd \/ ChannelEnd
  BY <1>2, Zenon DEF AdvanceTrack, EndIoctl, OfferEnd, PushNull, Push, Signal, AfterEnd, ChannelEnd,
     dvars, history
<1>3. CASE \/ GetPcm \/ FillFifo \/ Choose \/ SayBusy \/ SendRequest \/ Decode \/ Lock \/ CondWait
           \/ CondWake \/ NothingThere
  BY <1>3, Zenon DEF GetPcm, FillFifo, Choose, SayBusy, SendRequest, Decode, Lock, CondWait,
                     CondWake, NothingThere, history
<1>4. CASE \/ TakeStart \/ TakeData \/ LeaveEnd \/ Return \/ UseFreed \/ StopLook \/ StopAbort \/ StopWait
           \/ StopClear \/ Report
  BY <1>4, Zenon DEF TakeStart, TakeData, LeaveEnd, Return, UseFreed, StopLook, StopAbort, StopWait,
                     StopClear, Report, history
<1>5. CASE UNCHANGED vars
  BY <1>5, Zenon DEF vars, dvars, history
<1> QED
  BY <1>1, <1>2, <1>3, <1>4, <1>5, Zenon DEF Next, Network, Decoder

LEMMA DueInit == Init => Due
BY DEF Init, Due

\* The decoder thread stops at an END that is not the last, and reports the end of the list, only while the
\* START of the next track is due, for every list: the END is the last of the queue only until the key of the
\* next track is answered, unless the key was refused or never asked for (snd_ov_read_callback).
THEOREM SndEarlyOnlyIfDue == Spec => EarlyOnlyIfDue
<1> DEFINE Inv == TypeInv /\ Fetch /\ Keyed /\ Order /\ Aborting /\ Pushed /\ Due
<1>1. Init => Inv
  BY TypeInit, FetchInit, KeyedInit, OrderInit, InOrderInit, DueInit, Zenon
<1>2. Inv /\ [Next]_vars => Inv'
  BY TypeKept, FetchKept, KeyedKept, OrderKept, AbortingKept, PushedKept, DueKept, Zenon
<1>3. Inv /\ [Next]_vars => [early' # early => StartIsDue(Head(fifo).track + 1)]_vars
  <2> SUFFICES ASSUME Inv, [Next]_vars, early' # early PROVE StartIsDue(Head(fifo).track + 1)
    BY Zenon
  <2>1. TakeEnd
    BY EarlyByTakeEnd
  <2>2. /\ fifo # <<>> /\ Head(fifo).cmd = "END" /\ fifo' = Tail(fifo) /\ dpc \in {"read", "look"}
        /\ early' = (early \/ (fifo' = <<>> /\ Head(fifo).track # Len(Tracks)))
    BY <2>1 DEF TakeEnd, AtBuffer
  <2>3. fifo' = <<>> /\ Head(fifo).track # Len(Tracks)
    <3>1. early \in BOOLEAN
      BY DEF TypeInv, TypeOK, FlagTypes
    <3> QED
      BY <2>2, <3>1, Zenon
  <2>4. Tip = Head(fifo)
    <3>1. fifo \in Seq(Buffer)
      BY DEF TypeInv, TypeOK, QueueTypes
    <3>2. Tail(fifo) = <<>>
      BY <2>2, <2>3, Zenon
    <3> QED
      BY <2>2, <3>1, <3>2, OnlyBuffer, Zenon DEF Tip
  <2>5. ~dlabort
    BY <2>2 DEF Aborting
  <2>6. Coming(Head(fifo).track + 1)
    BY <2>2, <2>3, <2>4, <2>5 DEF Due
  <2> QED
    BY <2>6 DEF Coming, Asked, StartIsDue
<1> QED
  BY <1>1, <1>2, <1>3, PTL DEF Spec, EarlyOnlyIfDue

-----------------------------------------------------------------------------
(* Past the last track. *)

\* The list has been fetched, and N has queued its last END.
Fetched == track = NoTrack /\ npc \notin {"advance", "end", "offer", "push"}

\* The END of the last track is queued last.
LastEnd == \A i \in DOMAIN fifo : fifo[i].cmd = "END" /\ fifo[i].track = Len(Tracks) => Fetched

\* The last END has been taken off the queue, and nothing will come any more.
Over ==
  /\ Fetched /\ fifo = <<>>
  /\ dpc \in {"stop", "stop set", "stop wait", "stop clear", "report", "return", "idle", "dead"}
  /\ dpc \in {"stop", "stop set", "stop wait", "stop clear", "report", "return"} => got = 0
  /\ dpc \in {"report", "return"} => vf = "null"

\* Past the last track D asks for nothing: dlstate says that the list has ended, or is about to.
Listed ==
  track = NoTrack /\ ~early =>
    \/ Over
    \/ dlstate = "END_OF_LIST" /\ ~Asking
    \/ npc = "end" /\ dlstate = "BUSY" /\ ~Asking

\* snd_stop, which overwrites dlstate, runs after an early end or after the last.
Stopping == dpc \in {"stop", "stop set", "stop wait", "stop clear"} => early \/ Over

\* Once the list has been fetched it stays so.
LEMMA FetchedStays ==
  ASSUME TypeInv, Keyed, Fetched, [Next]_vars
  PROVE  Fetched'
<1>1. track = NoTrack /\ npc \notin {"advance", "end", "offer", "push"}
  BY DEF Fetched
<1>2. CASE AesCallback
  BY <1>1, <1>2, Zenon DEF AesCallback
<1>3. CASE SubstreamData \/ SubstreamEnd
  <2>1. Answering("stream")
    BY <1>3, Zenon DEF SubstreamData, SubstreamEnd
  <2> QED
    BY <1>1, <2>1, StreamIsAlone
<1>4. CASE AesKeyError \/ SubstreamError
  BY <1>1, <1>4, Zenon DEF AesKeyError, SubstreamError, nvars, session, Fetched
<1>5. CASE AdvanceTrack \/ EndIoctl \/ OfferEnd \/ PushNull \/ Push
  BY <1>1, <1>5 DEF AdvanceTrack, EndIoctl, OfferEnd, PushNull, Headless, Push
<1>6. CASE Signal \/ AfterEnd \/ ChannelEnd
  <2>1. track' = track
    BY <1>6, Zenon DEF Signal, AfterEnd, ChannelEnd, session
  <2>2. npc' \in {"after end", "idle", "channel end"}
    BY <1>6 DEF Signal, AfterEnd, ChannelEnd
  <2> QED
    BY <1>1, <2>1, <2>2 DEF Fetched
<1>7. CASE Decoder \/ UseFreed \/ UNCHANGED vars
  BY <1>1, <1>7, DecoderSteps, Zenon DEF Fetched
<1> QED
  BY <1>2, <1>3, <1>4, <1>5, <1>6, <1>7, Zenon DEF Next, Network

\* The end of the last track is pushed when the list has been fetched.
LEMMA LastEndKept ==
  ASSUME TypeInv, Keyed, Order, LastEnd, [Next]_vars
  PROVE  LastEnd'
<1>1. ASSUME NEW i \in DOMAIN fifo', fifo'[i].cmd = "END", fifo'[i].track = Len(Tracks),
             ~\E j \in DOMAIN fifo : fifo'[i] = fifo[j]
      PROVE  Fetched'
  <2>1. Push
    <3>1. fifo \in Seq(Buffer)
      BY DEF TypeInv, TypeOK, QueueTypes
    <3>2. fifo' # fifo
      BY <1>1
    <3>3. ~(fifo' = <<>>)
      BY <1>1
    <3>4. ~(fifo # <<>> /\ fifo' = Tail(fifo))
      BY <1>1, <3>1, TailTip
    <3>5. CASE AesCallback \/ AesKeyError \/ SubstreamData \/ SubstreamError \/ SubstreamEnd
      BY <3>2, <3>5, Zenon DEF AesCallback, AesKeyError, SubstreamData, SubstreamError, SubstreamEnd, fifoVars
    <3>6. CASE AdvanceTrack \/ EndIoctl \/ OfferEnd \/ PushNull \/ Signal \/ AfterEnd \/ ChannelEnd
      BY <3>2, <3>6, Zenon DEF AdvanceTrack, EndIoctl, OfferEnd, PushNull, Signal, AfterEnd, ChannelEnd,
         fifoVars
    <3>7. CASE Decoder \/ UseFreed \/ UNCHANGED vars
      BY <3>2, <3>3, <3>4, <3>7, DecoderSteps, Zenon DEF StopAbort, StopClear, SendRequest, fifoVars
    <3> QED
      BY <3>5, <3>6, <3>7, Zenon DEF Next, Network
  <2>2. /\ npc = "push" /\ npc' = "signal" /\ Tip'.cmd = buff.cmd /\ Tip'.track = buff.track
        /\ i = Len(fifo') /\ fifo'[i] = Tip'
    BY <1>1, <2>1, PushedTip
  <2>3. buff.cmd = "END" /\ buff.track = Len(Tracks)
    BY <1>1, <2>2
  <2>4. track = NextTrack(buff.track)
    BY <2>2, <2>3 DEF EndingTrack, Order, OneEnd
  <2>5. track = NoTrack
    BY <2>3, <2>4, SizesAssumption DEF NextTrack
  <2>6. track' = track
    BY <2>1, Zenon DEF Push, session
  <2> QED
    BY <2>2, <2>5, <2>6 DEF Fetched
<1>2. ASSUME NEW i \in DOMAIN fifo', fifo'[i].cmd = "END", fifo'[i].track = Len(Tracks),
             NEW j \in DOMAIN fifo, fifo'[i] = fifo[j]
      PROVE  Fetched'
  <2>1. Fetched
    BY <1>2 DEF LastEnd
  <2> QED
    BY <2>1, FetchedStays
<1> QED
  BY <1>1, <1>2, Zenon DEF LastEnd

\* When it is over nothing more is queued, asked for or decoded.
LEMMA OverStays ==
  ASSUME TypeInv, Keyed, Over, [Next]_vars
  PROVE  Over'
<1>1. Fetched'
  BY FetchedStays DEF Over
<1>2. /\ fifo = <<>> /\ npc # "push"
      /\ dpc \in {"stop", "stop set", "stop wait", "stop clear", "report", "return", "idle", "dead"}
  BY DEF Over, Fetched
<1>3. fifo' = <<>>
  <2>1. CASE AesCallback \/ AesKeyError \/ SubstreamData \/ SubstreamError \/ SubstreamEnd
    BY <1>2, <2>1, Zenon DEF AesCallback, AesKeyError, SubstreamData, SubstreamError, SubstreamEnd, fifoVars
  <2>2. CASE AdvanceTrack \/ EndIoctl \/ OfferEnd \/ PushNull \/ Push \/ Signal \/ AfterEnd \/ ChannelEnd
    BY <1>2, <2>2, Zenon DEF AdvanceTrack, EndIoctl, OfferEnd, PushNull, Push, Signal, AfterEnd,
       ChannelEnd, fifoVars
  <2>3. CASE Decoder \/ UseFreed \/ UNCHANGED vars
    BY <1>2, <2>3, DecoderSteps, Zenon DEF StopAbort, StopClear, SendRequest, fifoVars
  <2> QED
    BY <2>1, <2>2, <2>3, Zenon DEF Next, Network
<1> DEFINE Same == dpc' = dpc /\ got' = got /\ vf' = vf
<1>4. ASSUME Same PROVE Over'
  BY <1>1, <1>3, <1>4 DEF Over
<1>5. CASE AesCallback \/ AesKeyError \/ SubstreamData \/ SubstreamError \/ SubstreamEnd
  BY <1>4, <1>5, Zenon DEF AesCallback, AesKeyError, SubstreamData, SubstreamError, SubstreamEnd, session,
                           dvars, call
<1>6. CASE AdvanceTrack \/ EndIoctl \/ OfferEnd \/ PushNull \/ Push \/ AfterEnd \/ ChannelEnd
  BY <1>4, <1>6, Zenon DEF AdvanceTrack, EndIoctl, OfferEnd, PushNull, Push, AfterEnd, ChannelEnd,
     session, dvars, call
<1>7. CASE Signal
  <2>1. Same
    BY <1>2, <1>7 DEF Signal, session, call
  <2> QED
    BY <1>4, <2>1
<1>8. CASE GetPcm \/ FillFifo \/ Choose \/ SayBusy \/ SendRequest \/ Decode \/ Lock
  BY <1>2, <1>8 DEF GetPcm, FillFifo, Choose, SayBusy, SendRequest, Decode, Lock
<1>9. CASE CondWait \/ CondWake \/ NothingThere \/ TakeStart \/ TakeData \/ LeaveEnd \/ TakeEnd
  BY <1>2, <1>9 DEF CondWait, CondWake, NothingThere, TakeStart, TakeData, LeaveEnd, TakeEnd, AtBuffer
<1>10. CASE StopLook \/ StopAbort \/ StopWait \/ StopClear \/ Report
  <2>1. \/ dpc = "stop" /\ dpc' \in {"stop set", "stop wait"} /\ got' = got
        \/ dpc = "stop set" /\ dpc' = "stop wait" /\ got' = got
        \/ dpc = "stop wait" /\ dpc' = "stop clear" /\ got' = got
        \/ dpc = "stop clear" /\ dpc' = "report" /\ got' = got /\ vf' = "null"
        \/ dpc = "report" /\ dpc' = "return" /\ got' = got /\ vf' = vf
    BY <1>10 DEF StopLook, StopAbort, StopWait, StopClear, Report, call, session
  <2> QED
    BY <1>1, <1>3, <2>1 DEF Over
<1>11. CASE Return \/ UseFreed
  <2>1. dpc = "return" /\ vf = "null" /\ got = 0
    BY <1>11 DEF Return, UseFreed, Over
  <2>2. dpc' \in {"idle", "dead"}
    BY <1>11, <2>1 DEF Return, UseFreed
  <2> QED
    BY <1>1, <1>3, <2>2 DEF Over
<1>12. CASE UNCHANGED vars
  BY <1>4, <1>12, Zenon DEF vars, dvars, call, session
<1> QED
  BY <1>5, <1>6, <1>7, <1>8, <1>9, <1>10, <1>11, <1>12, Zenon DEF Next, Network, Decoder

\* An early end is not forgotten.
LEMMA EarlyStays == TypeInv /\ early /\ [Next]_vars => early'
<1> SUFFICES ASSUME TypeInv, early, [Next]_vars, early' # early PROVE early'
  BY DEF TypeInv, TypeOK, FlagTypes
<1>1. TakeEnd
  BY EarlyByTakeEnd
<1> QED
  BY <1>1, Zenon DEF TakeEnd

Stops == {"stop", "stop set", "stop wait", "stop clear"}

\* snd_stop begins at an END.
LEMMA StopsStart ==
  ASSUME TypeInv, [Next]_vars, dpc' \in Stops
  PROVE  dpc \in Stops \/ TakeEnd
<1> USE DEF Stops
<1>1. CASE AesCallback \/ AesKeyError \/ SubstreamData \/ SubstreamError \/ SubstreamEnd
  BY <1>1, Zenon DEF AesCallback, AesKeyError, SubstreamData, SubstreamError, SubstreamEnd, dvars
<1>2. CASE AdvanceTrack \/ EndIoctl \/ OfferEnd \/ PushNull \/ Push \/ AfterEnd \/ ChannelEnd
  BY <1>2, Zenon DEF AdvanceTrack, EndIoctl, OfferEnd, PushNull, Push, AfterEnd, ChannelEnd, dvars
<1>3. CASE Signal
  BY <1>3 DEF Signal
<1>4. CASE Choose \/ SendRequest
  BY <1>4 DEF Choose, SendRequest, TypeInv, TypeOK, PlaceTypes
<1>5. CASE \/ GetPcm \/ FillFifo \/ SayBusy \/ Decode \/ Lock \/ CondWait \/ CondWake
           \/ NothingThere
  BY <1>5 DEF GetPcm, FillFifo, SayBusy, Decode, Lock, CondWait, CondWake, NothingThere
<1>6. CASE TakeStart \/ TakeData \/ LeaveEnd \/ Return \/ UseFreed
  BY <1>6 DEF TakeStart, TakeData, LeaveEnd, Return, UseFreed
<1>7. CASE StopLook \/ StopAbort \/ StopWait \/ StopClear \/ Report
  BY <1>7 DEF StopLook, StopAbort, StopWait, StopClear, Report
<1>8. CASE UNCHANGED vars
  BY <1>8, Zenon DEF vars, dvars
<1> QED
  BY <1>1, <1>2, <1>3, <1>4, <1>5, <1>6, <1>7, <1>8, Zenon DEF Next, Network, Decoder

\* When D stops at an END it is an early one, or the last.
LEMMA StoppingKept ==
  ASSUME TypeInv, Keyed, LastEnd, Stopping, [Next]_vars
  PROVE  Stopping'
<1> SUFFICES ASSUME dpc' \in Stops, ~early' PROVE Over'
  BY Zenon DEF Stopping, Stops
<1>1. CASE dpc \in Stops
  BY <1>1, EarlyStays, OverStays, Zenon DEF Stopping, Stops
<1>2. CASE TakeEnd
  <2>1. /\ fifo # <<>> /\ Head(fifo).cmd = "END" /\ got = 0 /\ got' = 0 /\ fifo' = Tail(fifo)
    BY <1>2, Zenon DEF TakeEnd, AtBuffer
  <2>2. dpc' = IF fifo' = <<>> THEN "stop" ELSE "return"
    BY <1>2 DEF TakeEnd
  <2>3. fifo' = <<>> /\ dpc' = "stop"
    BY <2>2 DEF Stops
  <2>4. Head(fifo).track = Len(Tracks)
    BY <1>2, <2>3, Zenon DEF TakeEnd
  <2>5. fifo \in Seq(Buffer)
    BY DEF TypeInv, TypeOK, QueueTypes
  <2>6. 1 \in DOMAIN fifo /\ fifo[1] = Head(fifo)
    BY <2>1, <2>5
  <2>7. Fetched
    BY <2>1, <2>4, <2>6 DEF LastEnd
  <2>8. Fetched'
    BY <2>7, FetchedStays
  <2> QED
    BY <2>1, <2>3, <2>8 DEF Over
<1> QED
  BY <1>1, <1>2, StopsStart

\* The track moves on only behind the end of a substream.
LEMMA ListEnds ==
  ASSUME [Next]_vars, track' # track
  PROVE  AdvanceTrack
<1>1. CASE AesCallback \/ AesKeyError \/ SubstreamData \/ SubstreamError \/ SubstreamEnd
  BY <1>1, Zenon DEF AesCallback, AesKeyError, SubstreamData, SubstreamError, SubstreamEnd, session
<1>2. CASE EndIoctl \/ OfferEnd \/ PushNull \/ Push \/ Signal \/ AfterEnd \/ ChannelEnd
  BY <1>2, Zenon DEF EndIoctl, OfferEnd, PushNull, Push, Signal, AfterEnd, ChannelEnd, session
<1>3. CASE Decoder \/ UseFreed \/ UNCHANGED vars
  BY <1>3, DecoderSteps, Zenon
<1> QED
  BY <1>1, <1>2, <1>3, Zenon DEF Next, Network

LEMMA ListedKept ==
  ASSUME TypeInv, Fetch, Keyed, Aborting, Stopping, Listed, [Next]_vars
  PROVE  Listed'
<1> SUFFICES ASSUME track' = NoTrack, ~early', ~Over'
             PROVE  (\/ dlstate = "END_OF_LIST" /\ ~Asking
                     \/ npc = "end" /\ dlstate = "BUSY" /\ ~Asking)'
  BY Zenon DEF Listed
<1>1. ~early /\ ~Over
  BY EarlyStays, OverStays
<1>2. CASE track # NoTrack
  <2>1. npc = "advance" /\ npc' = "end" /\ dlstate' = dlstate /\ dpc' = dpc
    BY <1>2, ListEnds, Zenon DEF AdvanceTrack, dvars
  <2>2. dlstate = "BUSY" /\ ~Asking
    BY <2>1 DEF Fetch, Ending
  <2> QED
    BY <2>1, <2>2 DEF Asking
<1>3. CASE track = NoTrack
  <2>1. \/ dlstate = "END_OF_LIST" /\ ~Asking
        \/ npc = "end" /\ dlstate = "BUSY" /\ ~Asking
    BY <1>1, <1>3, Zenon DEF Listed
  <2>2. dpc \notin Stops /\ ~dlabort
    BY <1>1 DEF Stopping, Stops, Aborting
  <2>3. ASSUME npc' = npc, dlstate' = dlstate, dpc' \notin {"busy", "send"}
        PROVE  (\/ dlstate = "END_OF_LIST" /\ ~Asking
                \/ npc = "end" /\ dlstate = "BUSY" /\ ~Asking)'
    BY <2>1, <2>3 DEF Asking
  <2>4. CASE AesCallback \/ AesKeyError \/ SubstreamData \/ SubstreamError \/ SubstreamEnd
    <3>1. npc = "idle" /\ dlstate' = dlstate /\ dpc' = dpc
      BY <2>4, Zenon DEF AesCallback, AesKeyError, SubstreamData, SubstreamError, SubstreamEnd, Answering,
                         session, dvars
    <3> QED
      BY <2>1, <3>1 DEF Asking
  <2>5. CASE EndIoctl
    <3>1. dlstate' = "END_OF_LIST" /\ dpc' = dpc
      BY <1>3, <2>5, Zenon DEF EndIoctl, dvars
    <3> QED
      BY <2>1, <3>1 DEF Asking
  <2>14. CASE AdvanceTrack \/ OfferEnd \/ PushNull
    <3>1. npc \in {"advance", "offer", "push"} /\ dlstate' = dlstate /\ dpc' = dpc
      BY <2>14 DEF AdvanceTrack, OfferEnd, PushNull, Headless, session, dvars
    <3> QED
      BY <2>1, <3>1 DEF Asking
  <2>6. CASE Push \/ AfterEnd
    <3>1. npc \in {"push", "after end"} /\ dlstate' = dlstate /\ dpc' = dpc
      BY <2>6 DEF Push, AfterEnd, session, dvars
    <3> QED
      BY <2>1, <3>1 DEF Asking
  <2>7. CASE Signal
    <3>1. npc = "signal" /\ dlstate' = dlstate /\ (dpc' = dpc \/ dpc' = "woken")
      BY <2>7 DEF Signal, session
    <3> QED
      BY <2>1, <3>1 DEF Asking
  <2>8. CASE ChannelEnd
    <3>1. npc = "channel end" /\ (dlstate = "END_OF_LIST" => dlstate' = dlstate) /\ dpc' = dpc
      BY <2>2, <2>8 DEF ChannelEnd, dvars
    <3> QED
      BY <2>1, <3>1 DEF Asking
  <2>9. CASE Choose
    <3>1. ~LowOnData /\ dlstate # "FILLING"
      BY <2>1 DEF LowOnData
    <3>2. npc' = npc /\ dlstate' = dlstate /\ dpc' = back
      BY <2>9, <3>1 DEF Choose, nvars
    <3> QED
      BY <2>3, <3>2 DEF TypeInv, TypeOK, PlaceTypes
  <2>10. CASE SayBusy \/ SendRequest \/ StopLook \/ StopAbort \/ StopWait \/ StopClear
    BY <2>1, <2>2, <2>10 DEF SayBusy, SendRequest, StopLook, StopAbort, StopWait, StopClear, Asking, Stops
  <2>11. CASE GetPcm \/ FillFifo \/ Decode \/ Lock \/ CondWait \/ CondWake \/ NothingThere
    <3>1. npc' = npc /\ dlstate' = dlstate
      BY <2>11, Zenon DEF GetPcm, FillFifo, Decode, Lock, CondWait, CondWake, NothingThere, session, nvars
    <3>2. dpc' \notin {"busy", "send"}
      BY <2>11 DEF GetPcm, FillFifo, Decode, Lock, CondWait, CondWake, NothingThere
    <3> QED
      BY <2>3, <3>1, <3>2
  <2>12. CASE TakeStart \/ TakeData \/ LeaveEnd \/ TakeEnd \/ Return \/ UseFreed \/ Report
    <3>1. npc' = npc /\ dlstate' = dlstate
      BY <2>12, Zenon DEF TakeStart, TakeData, LeaveEnd, TakeEnd, Return, UseFreed, Report, session, nvars
    <3>2. dpc' \notin {"busy", "send"}
      BY <2>12 DEF TakeStart, TakeData, LeaveEnd, TakeEnd, Return, UseFreed, Report
    <3> QED
      BY <2>3, <3>1, <3>2
  <2>13. CASE UNCHANGED vars
    <3>1. npc' = npc /\ dlstate' = dlstate /\ dpc' = dpc
      BY <2>13, Zenon DEF vars, session, nvars, dvars
    <3> QED
      BY <2>1, <3>1 DEF Asking
  <2> QED
    BY <2>4, <2>5, <2>6, <2>7, <2>8, <2>9, <2>10, <2>11, <2>12, <2>13, <2>14, Zenon
       DEF Next, Network, Decoder
<1> QED
  BY <1>2, <1>3

LEMMA ListedInit == Init => LastEnd /\ Listed /\ Stopping
<1> SUFFICES ASSUME Init PROVE LastEnd /\ Listed /\ Stopping
  OBVIOUS
<1>1. fifo = <<>> /\ track = 1 /\ dpc = "idle"
  BY Zenon DEF Init
<1> QED
  BY <1>1 DEF LastEnd, Listed, Stopping, NoTrack

\* A START is pushed before any data of its track has arrived.
StartFirst == npc \in {"push", "signal"} /\ buff.cmd = "START" => offset = 0 /\ arrived = 0

\* Behind a START comes data: of its track nothing has arrived, or the first packet is being pushed.
Headed ==
  lastcmd = "START" /\ ~early =>
    \/ Over
    \/ offset = 0 /\ arrived = 0 /\ ~EndingTrack
    \/ npc \in {"push", "signal"} /\ buff.cmd = "DATA"

\* D leaves lastcmd alone.
LEMMA LastcmdIsN ==
  ASSUME Decoder \/ UseFreed \/ UNCHANGED vars
  PROVE  lastcmd' = lastcmd
<1>1. CASE \/ GetPcm \/ FillFifo \/ Choose \/ SayBusy \/ SendRequest \/ Decode \/ Lock \/ CondWait
           \/ CondWake \/ NothingThere
  BY <1>1, Zenon DEF GetPcm, FillFifo, Choose, SayBusy, SendRequest, Decode, Lock, CondWait, CondWake,
                     NothingThere, fifoVars
<1>2. CASE TakeStart \/ TakeData \/ LeaveEnd \/ TakeEnd \/ Return \/ UseFreed
  BY <1>2, Zenon DEF TakeStart, TakeData, LeaveEnd, TakeEnd, Return, UseFreed, fifoVars
<1>3. CASE StopLook \/ StopAbort \/ StopWait \/ StopClear \/ Report
  BY <1>3, Zenon DEF StopLook, StopAbort, StopWait, StopClear, Report, fifoVars
<1>4. CASE UNCHANGED vars
  BY <1>4, Zenon DEF vars, fifoVars
<1> QED
  BY <1>1, <1>2, <1>3, <1>4, Zenon DEF Decoder

\* Steps that leave N and what it counts alone.
LEMMA HeadedSame ==
  ASSUME TypeInv, Keyed, Headed, StartFirst, [Next]_vars, lastcmd' = lastcmd,
         npc' = npc /\ buff' = buff /\ arrived' = arrived /\ offset' = offset
  PROVE  Headed' /\ StartFirst'
<1>1. StartFirst' /\ (EndingTrack' <=> EndingTrack)
  BY DEF StartFirst, EndingTrack
<1>2. ~early' => ~early
  BY EarlyStays
<1>3. Over => Over'
  BY OverStays
<1> QED
  BY <1>1, <1>2, <1>3 DEF Headed

LEMMA HeadedKept ==
  ASSUME TypeInv, Keyed, Order, Aborting, Stopping, Headed, StartFirst, [Next]_vars
  PROVE  Headed' /\ StartFirst'
<1>1. ~early' => ~early
  BY EarlyStays
<1>2. Over => Over'
  BY OverStays
<1>3. dlabort => early \/ Over
  BY DEF Aborting, Stopping
<1>4. ASSUME lastcmd' = lastcmd, offset' = 0, arrived' = 0, ~EndingTrack' PROVE Headed' /\ StartFirst'
  BY <1>4 DEF Headed, StartFirst
<1>5. CASE AesCallback
  <2>1. /\ Answering("key") /\ pending' = Tail(pending) /\ Offer(StartOf(track), "idle")
        /\ offset' = offset /\ arrived' = arrived
    BY <1>5, Zenon DEF AesCallback
  <2>2. lastcmd' = lastcmd
    BY <1>5, Zenon DEF AesCallback, fifoVars
  <2>3. offset = 0 /\ arrived = 0 /\ npc = "idle"
    BY <2>1, KeyIsFirst
  <2>4. npc' = "idle" \/ (npc' = "push" /\ buff'.cmd = "START")
    BY <2>1 DEF Offer, StartOf
  <2>5. ~EndingTrack'
    BY <2>4 DEF EndingTrack
  <2> QED
    BY <1>4, <2>1, <2>2, <2>3, <2>5
<1>6. CASE AesKeyError
  BY <1>6, HeadedSame, Zenon DEF AesKeyError, fifoVars, session, nvars
<1>7. CASE SubstreamData
  <2>1. /\ Answering("stream") /\ offset' = offset /\ lastcmd' = lastcmd /\ npc = "idle"
        /\ IF dlabort THEN npc' = "idle" ELSE npc' = "push" /\ buff'.cmd = "DATA"
    BY <1>7 DEF SubstreamData, fifoVars, session, Offer, Answering
  <2> QED
    BY <1>1, <1>2, <1>3, <2>1 DEF Headed, StartFirst
<1>8. CASE SubstreamError
  <2>1. npc = "idle" /\ npc' = "idle" /\ arrived' = 0 /\ offset' = offset /\ lastcmd' = lastcmd
    BY <1>8, Zenon DEF SubstreamError, Answering, fifoVars, session, nvars
  <2>2. ~EndingTrack'
    BY <2>1 DEF EndingTrack
  <2> QED
    BY <1>1, <1>2, <2>1, <2>2 DEF Headed, StartFirst
<1>9. CASE SubstreamEnd
  <2>1. /\ Answering("stream") /\ arrived = Amount(Head(pending)) /\ lastcmd' = lastcmd
        /\ npc' \in {"advance", "channel end"}
    BY <1>9 DEF SubstreamEnd, fifoVars
  <2>2. /\ npc = "idle" /\ Tracks[track] \in Nat \ {0}
        /\ arrived < Substream => offset + arrived = Tracks[track]
    BY <2>1, StreamIsHere
  <2>3. ~(offset = 0 /\ arrived = 0)
    BY <2>2, SizesAssumption
  <2>4. StartFirst'
    BY <2>1 DEF StartFirst
  <2> QED
    BY <1>1, <1>2, <2>1, <2>2, <2>3, <2>4 DEF Headed
<1>10. CASE AdvanceTrack \/ EndIoctl \/ OfferEnd \/ PushNull \/ AfterEnd
  <2>1. EndingTrack /\ npc # "signal" /\ (npc = "push" => buff.cmd = "END") /\ lastcmd' = lastcmd
    BY <1>10 DEF AdvanceTrack, EndIoctl, OfferEnd, PushNull, Headless, AfterEnd, EndingTrack, fifoVars
  <2>2. lastcmd = "START" /\ ~early => Over
    BY <2>1 DEF Headed
  <2>3. npc' = "push" => buff'.cmd = "END"
    BY <1>10, <2>1 DEF AdvanceTrack, EndIoctl, OfferEnd, PushNull, AfterEnd, Offer, Order, OneEnd
  <2>4. npc' # "signal"
    BY <1>10 DEF AdvanceTrack, EndIoctl, OfferEnd, PushNull, AfterEnd, Offer
  <2> QED
    BY <1>1, <1>2, <2>1, <2>2, <2>3, <2>4 DEF Headed, StartFirst
<1>11. CASE Push \/ Signal \/ ChannelEnd
  <2>1. offset' = offset /\ arrived' = arrived /\ buff' = buff /\ (EndingTrack' <=> EndingTrack)
    BY <1>11, BufferSteps, Zenon
  <2>2. CASE Push
    <3>1. npc = "push" /\ npc' = "signal" /\ lastcmd' = lastcmd
      BY <2>2, Zenon DEF Push
    <3>2. StartFirst'
      BY <2>1, <3>1 DEF StartFirst
    <3>3. npc' \in {"push", "signal"}
      BY <3>1
    <3> QED
      BY <1>1, <1>2, <2>1, <3>1, <3>2, <3>3, Zenon DEF Headed
  <2>3. CASE Signal
    <3>1. npc = "signal" /\ npc' \in {"after end", "idle"} /\ lastcmd' = buff.cmd
      BY <2>3 DEF Signal
    <3>2. buff.cmd = "START" => ~EndingTrack /\ offset = 0 /\ arrived = 0
      BY <3>1 DEF EndingTrack, StartFirst
    <3>3. StartFirst'
      BY <3>1 DEF StartFirst
    <3> QED
      BY <2>1, <3>1, <3>2, <3>3, Zenon DEF Headed
  <2>4. CASE ChannelEnd
    <3>1. npc = "channel end" /\ npc' = "idle" /\ lastcmd' = lastcmd
      BY <2>4, Zenon DEF ChannelEnd, fifoVars
    <3>2. StartFirst' /\ npc \notin {"push", "signal"}
      BY <3>1 DEF StartFirst
    <3> QED
      BY <1>1, <1>2, <2>1, <3>1, <3>2, Zenon DEF Headed
  <2> QED
    BY <1>11, <2>2, <2>3, <2>4
<1>12. CASE Decoder \/ UseFreed \/ UNCHANGED vars
  <2>1. npc' = npc /\ buff' = buff /\ arrived' = arrived /\ offset' = offset
    BY <1>12, DecoderSteps, Zenon
  <2>2. lastcmd' = lastcmd
    BY <1>12, LastcmdIsN
  <2> QED
    BY <2>1, <2>2, HeadedSame
<1> QED
  BY <1>5, <1>6, <1>7, <1>8, <1>9, <1>10, <1>11, <1>12, Zenon DEF Next, Network

LEMMA HeadedInit == Init => Headed /\ StartFirst
<1> SUFFICES ASSUME Init PROVE Headed /\ StartFirst
  OBVIOUS
<1>1. npc = "idle" /\ offset = 0 /\ arrived = 0
  BY Zenon DEF Init
<1> QED
  BY <1>1 DEF Headed, StartFirst, EndingTrack

\* A null pointer is followed only after an early end.  Otherwise dlstate has become DL_END_OF_LIST with
\* the last track, and snd_stop, which overwrites it and drops what comes meanwhile, runs only when there is
\* nothing left to decode, so that every START is followed by data (snd_fill_fifo, snd_stop, snd_ioctl,
\* despotify_snd_read_stream).
THEOREM SndNullOnlyIfEarly == Spec => []NullOnlyIfEarly
<1>1. Listed /\ Headed => NullOnlyIfEarly
  <2>1. Listed => (dpc = "send" /\ track = NoTrack => early)
    BY DEF Listed, Over, Asking
  <2>2. Headed => (Headless => early)
    BY DEF Headed, Headless, Over, Fetched, EndingTrack
  <2> QED
    BY <2>1, <2>2 DEF NullOnlyIfEarly
<1> QED
  BY <1>1, TypeInit, TypeKept, FetchInit, FetchKept, KeyedInit, KeyedKept, OrderInit, OrderKept,
     AbortingKept, ListedInit, LastEndKept, StoppingKept, ListedKept, HeadedInit, HeadedKept, PTL DEF Spec

-----------------------------------------------------------------------------
(* The byte count.  Bytes is a recursive function; that there is one, and only one, is an induction over *)
(* the queue, in the form of the least number of a set.                                                 *)

\* A set of numbers that is not empty has a least one.
LEMMA LeastNumber ==
  ASSUME NEW T \in SUBSET Nat, T # {}
  PROVE  \E x \in T : \A y \in T : x <= y
<1> DEFINE R == OpToRel(<, Nat)
<1>1. IsWellFoundedOn(R, Nat)
  BY NatLessThanWellFounded
<1>2. \A x, y \in Nat : y < x => <<y, x>> \in R
  BY DEF OpToRel
<1> HIDE DEF R
<1>3. \E x \in T : \A y \in T : ~(<<y, x>> \in R)
  BY <1>1, WFMin
<1>4. PICK x \in T : \A y \in T : ~(<<y, x>> \in R)
  BY <1>3, Zenon
<1>5. \A y \in T : ~(y < x)
  BY <1>2, <1>4, Zenon
<1> QED
  BY <1>5

\* Induction: a set with 0 and with the successors of its numbers has all numbers.
LEMMA Induction ==
  ASSUME NEW T \in SUBSET Nat, 0 \in T, \A n \in T : n + 1 \in T
  PROVE  T = Nat
<1> SUFFICES ASSUME Nat \ T # {} PROVE FALSE
  OBVIOUS
<1>1. PICK x \in Nat \ T : \A y \in Nat \ T : x <= y
  BY LeastNumber
<1> QED
  BY <1>1

\* f counts the bytes of the first buffers of s.
Counts(f, s) ==
  f = [i \in 0..Len(s) |-> IF i = 0 THEN 0 ELSE f[i - 1] + s[i].len]

\* n is what is in s.
Sum(s, n) == \E f : Counts(f, s) /\ f \in [0..Len(s) -> Int] /\ f[Len(s)] = n

\* What is in the queue behind one more buffer.
LEMMA SumAppend ==
  ASSUME NEW s \in Seq(Buffer), NEW n \in Int, NEW b \in Buffer, Sum(s, n)
  PROVE  Sum(Append(s, b), n + b.len)
<1> DEFINE t == Append(s, b)
<1>1. /\ Len(t) = Len(s) + 1 /\ Len(s) \in Nat /\ t[Len(s) + 1] = b
      /\ \A i \in 1..Len(s) : t[i] = s[i]
  BY AppendProperties
<1>2. PICK f : Counts(f, s) /\ f \in [0..Len(s) -> Int] /\ f[Len(s)] = n
  BY DEF Sum
<1> DEFINE g == [i \in 0..Len(t) |-> IF i <= Len(s) THEN f[i] ELSE n + b.len]
<1>3. b.len \in Int
  BY DEF Buffer
<1> HIDE DEF t
<1>4. g \in [0..Len(t) -> Int] /\ g[Len(t)] = n + b.len
  BY <1>1, <1>2, <1>3
<1>5. \A i \in 0..Len(s) : f[i] = IF i = 0 THEN 0 ELSE f[i - 1] + s[i].len
  BY <1>2 DEF Counts
<1>6. ASSUME NEW i \in 0..Len(t) PROVE g[i] = IF i = 0 THEN 0 ELSE g[i - 1] + t[i].len
  <2>1. CASE i = 0
    BY <1>1, <1>5, <2>1
  <2>2. CASE i \in 1..Len(s)
    <3>1. g[i] = f[i] /\ g[i - 1] = f[i - 1] /\ t[i] = s[i]
      BY <1>1, <2>2
    <3> QED
      BY <1>1, <1>5, <2>2, <3>1
  <2>3. CASE i = Len(s) + 1
    <3>1. g[i] = n + b.len /\ g[i - 1] = n /\ t[i] = b
      BY <1>1, <1>2, <2>3
    <3> QED
      BY <1>1, <2>3, <3>1
  <2> QED
    BY <1>1, <2>1, <2>2, <2>3
<1>7. Counts(g, t)
  BY <1>6 DEF Counts
<1> HIDE DEF g
<1> QED
  BY <1>4, <1>7 DEF Sum, t

\* What is in the queue without its first buffer.
LEMMA SumTail ==
  ASSUME NEW s \in Seq(Buffer), NEW n \in Int, s # <<>>, Sum(s, n)
  PROVE  Sum(Tail(s), n - Head(s).len)
<1> DEFINE t == Tail(s)
<1>1. /\ Len(t) = Len(s) - 1 /\ Len(s) \in Nat \ {0} /\ s[1] = Head(s) /\ Head(s) \in Buffer
      /\ \A i \in 1..Len(t) : t[i] = s[i + 1]
  BY HeadTailProperties, EmptySeq
<1>2. PICK f : Counts(f, s) /\ f \in [0..Len(s) -> Int] /\ f[Len(s)] = n
  BY DEF Sum
<1>3. Head(s).len \in Int
  BY <1>1 DEF Buffer
<1> DEFINE g == [i \in 0..Len(t) |-> f[i + 1] - Head(s).len]
<1> HIDE DEF t
<1>4. g \in [0..Len(t) -> Int] /\ g[Len(t)] = n - Head(s).len
  BY <1>1, <1>2, <1>3
<1>5. \A i \in 0..Len(s) : f[i] = IF i = 0 THEN 0 ELSE f[i - 1] + s[i].len
  BY <1>2 DEF Counts
<1>6. ASSUME NEW i \in 0..Len(t) PROVE g[i] = IF i = 0 THEN 0 ELSE g[i - 1] + t[i].len
  <2>1. CASE i = 0
    <3>1. f[1] = f[0] + s[1].len /\ f[0] = 0
      BY <1>1, <1>5
    <3> QED
      BY <1>1, <1>3, <2>1, <3>1
  <2>2. CASE i \in 1..Len(t)
    <3>1. f[i + 1] = f[i] + s[i + 1].len /\ i + 1 \in 0..Len(s)
      BY <1>1, <1>5, <2>2
    <3>2. g[i] = f[i + 1] - Head(s).len /\ g[i - 1] = f[i] - Head(s).len /\ t[i] = s[i + 1]
      BY <1>1, <2>2
    <3>3. s[i + 1] \in Buffer /\ f[i] \in Int
      BY <1>1, <1>2, <2>2
    <3>4. s[i + 1].len \in Int
      BY <3>3 DEF Buffer
    <3> QED
      BY <1>3, <2>2, <3>1, <3>2, <3>3, <3>4
  <2> QED
    BY <1>1, <2>1, <2>2
<1>7. Counts(g, t)
  BY <1>6 DEF Counts
<1> HIDE DEF g
<1> QED
  BY <1>4, <1>7 DEF Sum, t

\* There is nothing in an empty queue.
LEMMA SumNothing == Sum(<<>>, 0)
<1> DEFINE g == [i \in 0..0 |-> 0]
<1>1. g \in [0..0 -> Int] /\ g[0] = 0
  OBVIOUS
<1>2. Counts(g, <<>>)
  BY DEF Counts
<1> HIDE DEF g
<1> QED
  BY <1>1, <1>2 DEF Sum

\* A count at the empty beginning, and behind each buffer.
LEMMA CountAt ==
  ASSUME NEW s, NEW f, Counts(f, s), Len(s) \in Nat
  PROVE  f[0] = 0 /\ \A i \in 1..Len(s) : f[i] = f[i - 1] + s[i].len
<1>1. \A i \in 0..Len(s) : f[i] = IF i = 0 THEN 0 ELSE f[i - 1] + s[i].len
  BY DEF Counts
<1> QED
  BY <1>1

\* Two counts of a queue agree.
LEMMA SumUnique ==
  ASSUME NEW s \in Seq(Buffer), NEW f, NEW g, Counts(f, s), Counts(g, s)
  PROVE  \A i \in 0..Len(s) : f[i] = g[i]
<1> DEFINE T == {i \in Nat : i <= Len(s) => f[i] = g[i]}
<1>0. Len(s) \in Nat
  OBVIOUS
<1>1. f[0] = 0 /\ \A i \in 1..Len(s) : f[i] = f[i - 1] + s[i].len
  BY <1>0, CountAt, Zenon
<1>2. g[0] = 0 /\ \A i \in 1..Len(s) : g[i] = g[i - 1] + s[i].len
  BY <1>0, CountAt, Zenon
<1>3. 0 \in T
  BY <1>1, <1>2
<1>4. ASSUME NEW n \in T PROVE n + 1 \in T
  <2> SUFFICES ASSUME n + 1 <= Len(s) PROVE f[n + 1] = g[n + 1]
    OBVIOUS
  <2>1. f[n] = g[n] /\ n + 1 \in 1..Len(s) /\ n + 1 - 1 = n
    BY <1>0
  <2>2. f[n + 1] = f[n] + s[n + 1].len
    BY <1>1, <2>1
  <2>3. g[n + 1] = g[n] + s[n + 1].len
    BY <1>2, <2>1
  <2> QED
    BY <2>1, <2>2, <2>3
<1>5. T = Nat
  <2>1. T \in SUBSET Nat
    OBVIOUS
  <2> HIDE DEF T
  <2> QED
    BY <1>3, <1>4, <2>1, Induction
<1> QED
  BY <1>0, <1>5

\* The sum of the queue is what Bytes says.
LEMMA SumIsBytes ==
  ASSUME fifo \in Seq(Buffer), NEW n, Sum(fifo, n)
  PROVE  Counts(Bytes, fifo) /\ Bytes \in [0..Len(fifo) -> Int] /\ Bytes[Len(fifo)] = n
<1>1. PICK f : Counts(f, fifo) /\ f \in [0..Len(fifo) -> Int] /\ f[Len(fifo)] = n
  BY DEF Sum
<1>2. Bytes = CHOOSE g : Counts(g, fifo)
  BY DEF Bytes, Counts
<1>3. Counts(Bytes, fifo)
  BY <1>1, <1>2, Zenon
<1>4. \A i \in 0..Len(fifo) : f[i] = Bytes[i]
  BY <1>1, <1>3, SumUnique, Zenon
<1>5. Bytes \in [0..Len(fifo) -> Int]
  <2>1. DOMAIN Bytes = 0..Len(fifo) /\ Bytes = [i \in DOMAIN Bytes |-> Bytes[i]]
    BY <1>3 DEF Counts
  <2>2. \A i \in 0..Len(fifo) : Bytes[i] \in Int
    BY <1>1, <1>4
  <2> QED
    BY <2>1, <2>2
<1>6. Len(fifo) \in 0..Len(fifo)
  OBVIOUS
<1> QED
  BY <1>1, <1>3, <1>4, <1>5, <1>6, Zenon

\* START and END have no bytes.
Bare(b) == b.cmd # "DATA" => b.len = 0
Commands == Bare(buff) /\ \A i \in DOMAIN fifo : Bare(fifo[i])

\* totbytes is what is in the queue.
Counted == Sum(fifo, totbytes)

LEMMA BareBuff ==
  ASSUME TypeInv, Commands, [Next]_vars
  PROVE  Bare(buff)'
<1>1. buff' = buff => Bare(buff)'
  BY DEF Commands, Bare
<1>2. CASE AesCallback
  <2>1. buff' = buff \/ buff' = StartOf(track)
    BY <1>2, Zenon DEF AesCallback, Offer
  <2> QED
    BY <1>1, <2>1 DEF StartOf, Bare
<1>3. CASE SubstreamData
  BY <1>1, <1>3 DEF SubstreamData, Offer, Bare
<1>4. CASE SubstreamEnd
  <2>1. buff' = buff \/ buff' = EndOf(track)
    BY <1>4, Zenon DEF SubstreamEnd
  <2> QED
    BY <1>1, <2>1 DEF EndOf, Bare
<1>5. CASE AesKeyError \/ SubstreamError \/ AfterEnd
  BY <1>1, <1>5, Zenon DEF AesKeyError, SubstreamError, AfterEnd, nvars
<1>6. CASE AdvanceTrack \/ EndIoctl \/ OfferEnd \/ PushNull \/ Push \/ Signal \/ ChannelEnd
  BY <1>1, <1>6, Zenon DEF AdvanceTrack, EndIoctl, OfferEnd, PushNull, Push, Signal, ChannelEnd, Offer
<1>7. CASE Decoder \/ UseFreed \/ UNCHANGED vars
  BY <1>1, <1>7, DecoderSteps, Zenon
<1> QED
  BY <1>2, <1>3, <1>4, <1>5, <1>6, <1>7, Zenon DEF Next, Network

LEMMA CommandsKept ==
  ASSUME TypeInv, Commands, [Next]_vars
  PROVE  Commands'
<1>1. fifo \in Seq(Buffer) /\ buff \in Buffer
  BY DEF TypeInv, TypeOK, QueueTypes
<1>2. \A i \in DOMAIN fifo' : Bare(fifo'[i])
  <2>1. CASE fifo' = fifo \/ fifo' = <<>>
    BY <2>1 DEF Commands
  <2>2. CASE fifo # <<>> /\ fifo' = Tail(fifo)
    BY <1>1, <2>2, TailTip DEF Commands
  <2>3. ASSUME NEW e \in Buffer, e.cmd = buff.cmd, e.len = buff.len \/ e.cmd = "DATA",
               fifo' = Append(fifo, e)
        PROVE  \A i \in DOMAIN fifo' : Bare(fifo'[i])
    <3>1. \A i \in DOMAIN fifo' : fifo'[i] = e \/ (i \in DOMAIN fifo /\ fifo'[i] = fifo[i])
      BY <1>1, <2>3, AppendProperties
    <3>2. Bare(e)
      BY <2>3 DEF Commands, Bare
    <3> QED
      BY <3>1, <3>2, Zenon DEF Commands
  <2>4. CASE fifo' = Append(fifo, buff)
    BY <1>1, <2>3, <2>4
  <2>5. CASE buff.cmd = "DATA" /\ fifo' = Append(fifo, [buff EXCEPT !.len = @ - PageLen])
    <3> DEFINE e == [buff EXCEPT !.len = @ - PageLen]
    <3>1. e \in Buffer /\ e.cmd = "DATA" /\ buff.cmd = "DATA" /\ fifo' = Append(fifo, e)
      BY <1>1, <2>5, CutBuffer DEF TypeInv, WholePackets, Buffer
    <3> HIDE DEF e
    <3> QED
      BY <2>3, <3>1
  <2> QED
    BY <2>1, <2>2, <2>4, <2>5, QueueSteps
<1> QED
  BY <1>2, BareBuff, Zenon DEF Commands

\* The first buffer.
LEMMA HeadBare ==
  ASSUME TypeInv, Commands, fifo # <<>>
  PROVE  Head(fifo) \in Buffer /\ Bare(Head(fifo)) /\ Head(fifo).len \in Int
<1>1. fifo \in Seq(Buffer)
  BY DEF TypeInv, TypeOK, QueueTypes
<1>2. 1 \in DOMAIN fifo /\ fifo[1] = Head(fifo) /\ Head(fifo) \in Buffer
  BY <1>1
<1> QED
  BY <1>2 DEF Commands, Buffer

LEMMA CountedKept ==
  ASSUME TypeInv, Commands, Counted, [Next]_vars
  PROVE  Counted'
<1>1. fifo \in Seq(Buffer) /\ totbytes \in Int /\ Sum(fifo, totbytes)
  BY DEF TypeInv, TypeOK, QueueTypes, Counted
<1> SUFFICES Sum(fifo', totbytes')
  BY Zenon DEF Counted, Sum, Counts
<1>2. ASSUME fifo' = fifo, totbytes' = totbytes PROVE Sum(fifo', totbytes')
  BY <1>1, <1>2
<1>3. CASE Push
  <2> DEFINE b == IF lastcmd = "START" /\ buff.cmd = "DATA"
                  THEN [buff EXCEPT !.len = @ - PageLen] ELSE buff
  <2>1. b \in Buffer
    BY CutBuffer DEF TypeInv, TypeOK, QueueTypes, WholePackets
  <2>2. fifo' = Append(fifo, b) /\ totbytes' = totbytes + b.len
    BY <1>3, Zenon DEF Push
  <2> HIDE DEF b
  <2> QED
    BY <1>1, <2>1, <2>2, SumAppend
<1>4. CASE TakeStart \/ TakeEnd
  <2>1. fifo # <<>> /\ Head(fifo).cmd # "DATA" /\ fifo' = Tail(fifo) /\ totbytes' = totbytes
    BY <1>4 DEF TakeStart, TakeEnd, AtBuffer
  <2>2. totbytes - Head(fifo).len = totbytes
    BY <1>1, <2>1, HeadBare DEF Bare
  <2>3. Sum(Tail(fifo), totbytes - Head(fifo).len)
    BY <1>1, <2>1, SumTail
  <2> QED
    BY <2>1, <2>2, <2>3
<1>5. CASE TakeData
  <2>1. /\ fifo # <<>>
        /\ \/ fifo' = Tail(fifo) /\ totbytes' = totbytes - Head(fifo).len
           \/ fifo' = fifo /\ totbytes' = totbytes
    BY <1>5, Zenon DEF TakeData, AtBuffer
  <2>2. Sum(Tail(fifo), totbytes - Head(fifo).len)
    BY <1>1, <2>1, SumTail
  <2> QED
    BY <1>1, <2>1, <2>2, Zenon
<1>6. CASE StopClear
  <2>1. fifo' = <<>> /\ totbytes' = 0
    BY <1>6, Zenon DEF StopClear
  <2> QED
    BY <2>1, SumNothing
<1>7. CASE AesCallback \/ AesKeyError \/ SubstreamData \/ SubstreamError \/ SubstreamEnd
  BY <1>2, <1>7, Zenon DEF AesCallback, AesKeyError, SubstreamData, SubstreamError, SubstreamEnd, fifoVars
<1>8. CASE AdvanceTrack \/ EndIoctl \/ OfferEnd \/ PushNull \/ Signal \/ AfterEnd \/ ChannelEnd
  BY <1>2, <1>8, Zenon DEF AdvanceTrack, EndIoctl, OfferEnd, PushNull, Signal, AfterEnd, ChannelEnd, fifoVars
<1>9. CASE \/ GetPcm \/ FillFifo \/ Choose \/ SayBusy \/ SendRequest \/ Decode \/ Lock \/ CondWait
           \/ CondWake \/ NothingThere
  BY <1>2, <1>9, Zenon DEF GetPcm, FillFifo, Choose, SayBusy, SendRequest, Decode, Lock, CondWait,
                           CondWake, NothingThere, fifoVars
<1>10. CASE LeaveEnd \/ Return \/ UseFreed \/ StopLook \/ StopAbort \/ StopWait \/ Report
  BY <1>2, <1>10, Zenon DEF LeaveEnd, Return, UseFreed, StopLook, StopAbort, StopWait, Report, fifoVars
<1>11. CASE UNCHANGED vars
  BY <1>2, <1>11, Zenon DEF vars, fifoVars
<1> QED
  BY <1>3, <1>4, <1>5, <1>6, <1>7, <1>8, <1>9, <1>10, <1>11, Zenon DEF Next, Network, Decoder

LEMMA CountedInit == Init => Commands /\ Counted
<1> SUFFICES ASSUME Init PROVE Commands /\ Counted
  OBVIOUS
<1>1. fifo = <<>> /\ totbytes = 0 /\ buff = StartOf(1)
  BY Zenon DEF Init
<1> QED
  BY <1>1, SumNothing DEF Commands, Bare, StartOf, Counted

\* totbytes is the sum of what is queued, whichever thread touched it last, for every size of packets, pages
\* and reads and every length of the queue: a packet is counted as it was cut, and uncounted whole when it is
\* used up or the queue is freed (snd_ioctl, snd_ov_read_callback, snd_stop).
THEOREM SndByteCount == Spec => []ByteCountIsExact
<1>1. TypeInv /\ Counted => ByteCountIsExact
  <2> SUFFICES ASSUME TypeInv, Counted PROVE ByteCountIsExact
    OBVIOUS
  <2>1. fifo \in Seq(Buffer)
    BY DEF TypeInv, TypeOK, QueueTypes
  <2> QED
    BY <2>1, SumIsBytes, Zenon DEF Counted, ByteCountIsExact
<1> QED
  BY <1>1, TypeInit, TypeKept, CountedInit, CommandsKept, CountedKept, PTL DEF Spec

=============================================================================
