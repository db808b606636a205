----------------------------- MODULE PlayerProofs -----------------------------
(***************************************************************************)
(* Proofs about Player, for every list, every size of packets, substreams  *)
(* and of the queue, and any number of calls of the application: the       *)
(* variables keep their types, the byte count is exact, and what is queued *)
(* and taken after a call that did not meet the other threads at work is   *)
(* the track it was called for.                                            *)
(***************************************************************************)
EXTENDS Player, SndQueueProofs

\* What N pushes comes from a substream that is not yet answered in full.
DataComes == npc \in {"push", "signal"} /\ buff.cmd = "DATA" => StreamsOf(pending) # {}

-----------------------------------------------------------------------------
(* What is taken next. *)

\* The track that comes after what was taken, and whether that was taken to its end.
DueTrack == IF used = Nothing THEN goal ELSE used[1] + 1
UsedWhole == used # Nothing => used[2] = Tracks[used[1]]

\* Track t may begin.
Begins(t) == UsedWhole /\ (t = DueTrack \/ (early /\ t = DueTrack + 1))

\* b may be the first in the queue; nothing comes behind the last END.
Front(b) ==
  /\ b.cmd = "START" => Begins(b.track)
  /\ b.cmd = "DATA" => FollowsUsed(b)
  /\ b.cmd = "END" => used = <<b.track, Tracks[b.track]>> \/ b.track = Len(Tracks)

\* What N brings next may be the first in the queue.
Awaited ==
  IF EndingTrack \/ offset + arrived = 0 THEN Begins(track) ELSE used = <<track, offset + arrived>>

\* The queue goes on with what was taken, and if there is nothing queued N does.
Flowing ==
  /\ fifo # <<>> => Front(Head(fifo))
  /\ fifo = <<>> /\ npc = "push" => Front(buff)
  /\ fifo = <<>> /\ HoldingEnd /\ ~dlabort => Front(buff)
  /\ fifo = <<>> /\ Otherwise /\ ~dlabort /\ track # NoTrack => Awaited

\* D is in the snd_stop of an early end: the next track has not begun, or the abort drops all of
\* it and the one after it may begin.
Halting ==
  dpc \in Stops =>
    /\ got = 0
    /\ track # NoTrack =>
         /\ early /\ UsedWhole
         /\ track = DueTrack \/ (track = DueTrack + 1 /\ StreamsOf(pending) = {} /\ npc # "advance")
    /\ fifo # <<>> =>
         /\ Head(fifo).cmd = "START"
         /\ Head(fifo).track = DueTrack \/ (Head(fifo).track = DueTrack + 1 /\ track # DueTrack)
    /\ fifo = <<>> =>
         /\ npc = "push" => buff.cmd = "START"
         /\ HoldingEnd => dlabort
         /\ Otherwise /\ ~dlabort /\ track # NoTrack => EndingTrack \/ KeyPending

-----------------------------------------------------------------------------
(* The inductive invariant. *)

\* Nothing is queued, nothing comes, and D asks for nothing.
Resting ==
  /\ npc = "idle" \/ (npc = "signal" /\ buff.cmd # "END")
  /\ pending = <<>> /\ fifo = <<>>
  /\ \/ dpc \in {"idle", "fill wait", "decode", "lock", "dead"}
     \/ dpc \in {"read", "waiting", "woken", "look", "report", "return"} /\ got = 0

\* A playback is under way.
Playing ==
  /\ Fetch /\ Keyed /\ Order /\ GoodKeys /\ Aborting /\ InOrder /\ Pushed
  /\ DataComes /\ Flowing /\ Halting

\* Where A is: out of its calls, or about to begin a playback on an empty queue.  On its way to
\* empty the queue it relies on nothing.
Stage ==
  /\ apc \in {"out", "skip", "restart"} => Resting \/ Playing
  /\ apc \in {"rewind", "token", "ask"} =>
       /\ Resting /\ npc = "idle" /\ ~dlabort /\ used = Nothing
       /\ apc # "rewind" => offset = 0
       /\ apc = "ask" => track = goal

Base == TypeInv /\ AppTypes /\ Commands /\ Counted /\ Arriving /\ play_as_list

\* When N has died everything stays as it is.
Frozen == TypeOK /\ AppTypes /\ ByteCountIsExact /\ PlayIsClean

IInv == IF npc = "dead" THEN Frozen ELSE Base /\ (disturbed \/ lost # {} \/ Stage)

-----------------------------------------------------------------------------
(* The steps of N and D. *)

LEMMA ArrivingKept ==
  ASSUME TypeInv, Arriving, [Next]_vars
  PROVE  Arriving'
<1> USE DEF Arriving
<1>0. pending \in Seq(Requests) /\ arrived \in Nat
  BY SizesAssumption DEF TypeInv, TypeOK, NetTypes, Requests
<1>1. CASE pending' = pending /\ arrived' = arrived
  BY <1>1
<1>2. CASE arrived' = 0
  BY <1>2
<1>3. ASSUME NEW q \in Requests, pending' = Append(pending, q), arrived' = arrived PROVE Arriving'
  <2>1. CASE pending = <<>>
    BY <1>3, <2>1
  <2>2. CASE pending # <<>>
    <3>1. pending' # <<>> /\ Head(pending') = Head(pending)
      BY <1>0, <1>3, <2>2, HeadTailAppend
    <3> QED
      BY <1>3, <2>2, <3>1
  <2> QED
    BY <2>1, <2>2
<1>4. CASE AesCallback \/ AesKeyError
  <2>1. pending # <<>> /\ Head(pending).kind = "key" /\ arrived' = arrived
    BY <1>4 DEF AesCallback, AesKeyError, Answering, net
  <2>2. arrived = 0
    BY <2>1
  <2> QED
    BY <2>1, <2>2
<1>5. CASE SubstreamData
  BY <1>5 DEF SubstreamData, Answering
<1>6. CASE SubstreamError \/ SubstreamEnd
  BY <1>2, <1>6, Zenon DEF SubstreamError, SubstreamEnd
<1>7. CASE AfterEnd
  <2>1. \/ pending' = pending
        \/ track # NoTrack /\ pending' = Append(pending, KeyRequest(track))
    BY <1>7, Zenon DEF AfterEnd
  <2>2. arrived' = arrived
    BY <1>7, Zenon DEF AfterEnd
  <2>3. track # NoTrack => KeyRequest(track) \in Requests
    BY NewRequests, SizesAssumption DEF TypeInv, TypeOK, NetTypes
  <2> QED
    BY <1>1, <1>3, <2>1, <2>2, <2>3
<1>8. CASE SendRequest
  <2>1. \/ pending' = pending
        \/ track # NoTrack /\ pending' = Append(pending, StreamRequest(track, offset))
    BY <1>8, Zenon DEF SendRequest
  <2>2. arrived' = arrived
    BY <1>8, Zenon DEF SendRequest
  <2>3. track # NoTrack => StreamRequest(track, offset) \in Requests
    BY NewRequests DEF TypeInv, TypeOK, NetTypes
  <2> QED
    BY <1>1, <1>3, <2>1, <2>2, <2>3
<1>9. CASE AdvanceTrack \/ EndIoctl \/ OfferEnd \/ PushNull \/ Push \/ Signal \/ ChannelEnd
  BY <1>1, <1>9, Zenon DEF AdvanceTrack, EndIoctl, OfferEnd, PushNull, Push, Signal, ChannelEnd, net
<1>10. CASE (Decoder \/ UseFreed \/ UNCHANGED vars) /\ ~SendRequest
  BY <1>1, <1>10, DecoderSteps, Zenon DEF StopAbort, StopClear, net
<1> QED
  BY <1>4, <1>5, <1>6, <1>7, <1>8, <1>9, <1>10, Zenon DEF Next, Network

\* Nothing begins by itself.
LEMMA RestingKept ==
  ASSUME TypeInv, Resting, [Next]_vars, lost' = {}
  PROVE  /\ Resting' /\ (npc = "idle" => npc' = "idle") /\ track' = track /\ offset' = offset
         /\ (~dlabort => ~dlabort')
<1> DEFINE Quiet == dpc \in {"read", "waiting", "woken", "look", "report", "return"} /\ got = 0
<1>1. /\ npc \in {"idle", "signal"} /\ pending = <<>> /\ fifo = <<>> /\ (npc = "signal" => buff.cmd # "END")
      /\ dpc \in {"idle", "fill wait", "decode", "lock", "dead"} \/ Quiet
  BY DEF Resting
<1>2. CASE AesCallback \/ AesKeyError \/ SubstreamData \/ SubstreamError \/ SubstreamEnd
  BY <1>1, <1>2, Zenon DEF AesCallback, AesKeyError, SubstreamData, SubstreamError, SubstreamEnd, Answering
<1>3. CASE AdvanceTrack \/ EndIoctl \/ OfferEnd \/ PushNull \/ Push \/ AfterEnd \/ ChannelEnd
  BY <1>1, <1>3 DEF AdvanceTrack, EndIoctl, OfferEnd, PushNull, Headless, Push, AfterEnd, ChannelEnd
<1>4. CASE Signal
  BY <1>1, <1>4 DEF Signal, Resting, net, session, call
<1>5. CASE GetPcm \/ FillFifo \/ Choose \/ SayBusy \/ SendRequest \/ TakeStart \/ TakeData \/ LeaveEnd
           \/ TakeEnd \/ StopLook \/ StopAbort \/ StopWait \/ StopClear
  BY <1>1, <1>5 DEF GetPcm, FillFifo, Choose, SayBusy, SendRequest, TakeStart, TakeData, LeaveEnd, TakeEnd,
                    AtBuffer, StopLook, StopAbort, StopWait, StopClear
<1>6. CASE Decode \/ Lock \/ CondWait \/ CondWake \/ NothingThere
  <2>1. /\ npc' = npc /\ buff' = buff /\ pending' = pending /\ track' = track /\ offset' = offset
        /\ fifo' = fifo /\ dlabort' = dlabort
    BY <1>6, Zenon DEF Decode, Lock, CondWait, CondWake, NothingThere, net, nvars, session, fifoVars
  <2>2. dpc' \in {"idle", "lock"} \/ (dpc' \in {"read", "waiting", "look", "return"} /\ got' = 0)
    BY <1>1, <1>6 DEF Decode, Lock, CondWait, CondWake, NothingThere, call
  <2> QED
    BY <1>1, <2>1, <2>2 DEF Resting
<1>7. CASE Return \/ UseFreed \/ Report
  <2>1. /\ npc' = npc /\ buff' = buff /\ pending' = pending /\ track' = track /\ offset' = offset
        /\ fifo' = fifo /\ dlabort' = dlabort
    BY <1>7, Zenon DEF Return, UseFreed, Report, net, nvars, session, fifoVars
  <2>2. dpc' \in {"idle", "decode", "lock", "dead"} \/ (dpc' = "return" /\ got' = 0)
    <3>1. CASE Return
      <4>1. dpc' \in {"idle", "decode", "lock", "fill", "dead"} /\ dpc = "return"
        BY <3>1 DEF Return
      <4>2. dpc' # "fill"
        BY <1>1, <3>1 DEF Return
      <4> QED
        BY <4>1, <4>2
    <3>2. CASE UseFreed
      BY <3>2 DEF UseFreed
    <3>3. CASE Report
      <4>1. dpc = "report" /\ dpc' = "return" /\ got' = got
        BY <3>3, Zenon DEF Report, call
      <4> QED
        BY <1>1, <4>1
    <3> QED
      BY <1>7, <3>1, <3>2, <3>3
  <2> QED
    BY <1>1, <2>1, <2>2 DEF Resting
<1>8. CASE UNCHANGED vars
  <2>1. /\ npc' = npc /\ buff' = buff /\ pending' = pending /\ track' = track /\ offset' = offset
        /\ fifo' = fifo /\ dlabort' = dlabort
    BY <1>8, Zenon DEF vars, net, nvars, session, fifoVars
  <2>2. dpc' = dpc /\ got' = got
    BY <1>8, Zenon DEF vars, dvars, call
  <2> QED
    BY <1>1, <2>1, <2>2 DEF Resting
<1> QED
  BY <1>2, <1>3, <1>4, <1>5, <1>6, <1>7, <1>8, Zenon DEF Next, Network, Decoder

\* What N pushes comes from a substream under way.
LEMMA DataComesKept ==
  ASSUME TypeInv, Fetch, Keyed, Order, DataComes, [Next]_vars
  PROVE  DataComes'
<1>0. pending \in Seq(Requests) /\ buff \in Buffer
  BY DEF TypeInv, TypeOK, NetTypes, QueueTypes, Requests
<1>1. ASSUME npc' = npc, buff' = buff, pending' = pending PROVE DataComes'
  BY <1>1 DEF DataComes, StreamsOf
<1>2. CASE AesCallback
  BY <1>2 DEF AesCallback, Offer, StartOf, DataComes
<1>3. CASE SubstreamData
  <2>1. pending' = pending /\ Answering("stream")
    BY <1>3, Zenon DEF SubstreamData
  <2>2. 1 \in DOMAIN pending /\ pending[1].kind = "stream"
    BY <1>0, <2>1 DEF Answering
  <2> QED
    BY <2>1, <2>2 DEF DataComes, StreamsOf
<1>4. CASE AesKeyError \/ SubstreamError
  BY <1>4 DEF AesKeyError, SubstreamError, Answering, nvars, DataComes
<1>5. CASE SubstreamEnd
  BY <1>5 DEF SubstreamEnd, DataComes
<1>6. CASE AdvanceTrack \/ EndIoctl \/ PushNull
  BY <1>6 DEF AdvanceTrack, EndIoctl, PushNull, DataComes
<1>11. CASE OfferEnd
  <2>1. npc = "offer" /\ (buff' = buff \/ npc' = "after end")
    BY <1>11 DEF OfferEnd, Offer
  <2>2. buff.cmd = "END"
    BY <2>1 DEF Keyed, HoldingEnd
  <2> QED
    BY <2>1, <2>2 DEF DataComes
<1>7. CASE Push \/ Signal
  <2>1. /\ npc \in {"push", "signal"} /\ buff' = buff /\ pending' = pending
    BY <1>7, Zenon DEF Push, Signal, net, nvars
  <2> QED
    BY <2>1 DEF DataComes, StreamsOf
<1>8. CASE AfterEnd \/ ChannelEnd
  BY <1>8 DEF AfterEnd, ChannelEnd, DataComes
<1>9. CASE SendRequest
  <2>1. npc' = npc /\ buff' = buff
    BY <1>9, Zenon DEF SendRequest, nvars
  <2>2. \/ pending' = pending
        \/ track # NoTrack /\ pending' = Append(pending, StreamRequest(track, offset))
    BY <1>9, Zenon DEF SendRequest
  <2>3. ASSUME track # NoTrack, pending' = Append(pending, StreamRequest(track, offset)) PROVE DataComes'
    <3>1. Len(pending) + 1 \in DOMAIN pending' /\ pending'[Len(pending) + 1] = StreamRequest(track, offset)
      BY <1>0, <2>3, NewRequests, AppendProperties DEF TypeInv, TypeOK, NetTypes
    <3> QED
      BY <3>1 DEF DataComes, StreamsOf, StreamRequest
  <2> QED
    BY <1>1, <2>1, <2>2, <2>3
<1>10. CASE (Decoder \/ UseFreed \/ UNCHANGED vars) /\ ~SendRequest
  BY <1>1, <1>10, DecoderSteps, Zenon DEF StopAbort, StopClear, net
<1> QED
  BY <1>2, <1>3, <1>4, <1>5, <1>6, <1>7, <1>8, <1>9, <1>10, <1>11, Zenon DEF Next, Network

-----------------------------------------------------------------------------
(* What is taken. *)

\* What D uses up is taken, and A is not at work.
Takes ==
  /\ used' = IF fifo # <<>> /\ Head(fifo).cmd = "DATA" /\ fifo' = Tail(fifo)
              THEN <<Head(fifo).track, Head(fifo).n>> ELSE used
  /\ goal' = goal

\* Nothing is noted unless the first of the queue is taken.
LEMMA UsedSame ==
  ASSUME TypeInv, Takes, fifo' = fifo \/ \E e \in Buffer : fifo' = Append(fifo, e)
  PROVE  used' = used
<1>1. fifo \in Seq(Buffer)
  BY DEF TypeInv, TypeOK, QueueTypes
<1>2. fifo # <<>> => Len(Tail(fifo)) = Len(fifo) - 1 /\ Len(fifo) \in Nat
  BY <1>1
<1>3. fifo # <<>> => fifo # Tail(fifo)
  BY <1>2
<1>4. \A e \in Buffer : Len(Append(fifo, e)) = Len(fifo) + 1
  BY <1>1, AppendProperties
<1>5. \A e \in Buffer : fifo # <<>> => Append(fifo, e) # Tail(fifo)
  BY <1>2, <1>4
<1> QED
  BY <1>3, <1>5, Zenon DEF Takes

\* Only D notes an early end.
LEMMA EarlySame ==
  ASSUME [Next]_vars, ~TakeEnd
  PROVE  early' = early
BY EarlyByTakeEnd, Zenon

\* What was taken is a packet of a track.
LEMMA UsedType ==
  ASSUME AppTypes, used # Nothing
  PROVE  used = <<used[1], used[2]>> /\ used[1] \in TrackNo /\ used[2] \in Nat
BY DEF AppTypes

\* The steps that touch nothing of this.
LEMMA FlowingSame ==
  ASSUME Flowing, used' = used, goal' = goal, early' = early, fifo' = fifo, npc' = npc, buff' = buff,
         dlabort => dlabort', track' = track, offset' = offset, arrived' = arrived
  PROVE  Flowing'
<1>1. fifo # <<>> => Front(Head(fifo))'
  BY DEF Flowing, Front, Begins, DueTrack, UsedWhole, FollowsUsed
<1>2. fifo = <<>> /\ (npc = "push" \/ (HoldingEnd /\ ~dlabort)) => Front(buff)'
  BY DEF Flowing, Front, Begins, DueTrack, UsedWhole, FollowsUsed
<1>3. EndingTrack' <=> EndingTrack
  BY Zenon DEF EndingTrack
<1>4. Awaited => Awaited'
  BY <1>3 DEF Awaited, Begins, DueTrack, UsedWhole
<1>5. (HoldingEnd' <=> HoldingEnd) /\ (Otherwise' <=> Otherwise)
  BY DEF HoldingEnd, Otherwise
<1> QED
  BY <1>1, <1>2, <1>4, <1>5 DEF Flowing

\* The answer with a key.
LEMMA FlowingKey ==
  ASSUME TypeInv, Keyed, Order, Flowing, Takes, [Next]_vars, AesCallback
  PROVE  Flowing'
<1>1. fifo' = fifo /\ early' = early /\ track' = track /\ offset' = offset /\ arrived' = arrived
      /\ dlabort' = dlabort /\ pending' = Tail(pending) /\ Answering("key") /\ track # NoTrack
  BY Zenon DEF AesCallback, fifoVars, dvars, history
<1>2. used' = used /\ goal' = goal
  BY <1>1, UsedSame, Zenon DEF Takes
<1>3. offset = 0 /\ arrived = 0 /\ npc = "idle" /\ ~EndingTrack
  BY <1>1, KeyIsFirst
<1>4. fifo = <<>> /\ ~dlabort => Begins(track)
  BY <1>1, <1>3 DEF Flowing, Awaited, Otherwise, HoldingEnd
<1>5. IF dlabort THEN npc' = "idle" ELSE npc' = "push" /\ buff' = StartOf(track)
  BY Zenon DEF AesCallback, Offer
<1>6. Begins(track) => Begins(track)'
  BY <1>1, <1>2 DEF Begins, DueTrack, UsedWhole
<1>7. fifo = <<>> /\ npc' = "push" => Front(buff)'
  BY <1>1, <1>4, <1>5, <1>6 DEF Front, StartOf, Begins, DueTrack, UsedWhole
<1>8. fifo # <<>> => Front(Head(fifo))'
  BY <1>1, <1>2 DEF Flowing, Front, Begins, DueTrack, UsedWhole, FollowsUsed
<1> QED
  BY <1>1, <1>5, <1>7, <1>8 DEF Flowing, Otherwise, HoldingEnd

\* A packet of data.
LEMMA FlowingData ==
  ASSUME TypeInv, AppTypes, Keyed, Order, Flowing, Takes, [Next]_vars, SubstreamData
  PROVE  Flowing'
<1>1. fifo' = fifo /\ early' = early /\ track' = track /\ offset' = offset
      /\ dlabort' = dlabort /\ Answering("stream")
  BY Zenon DEF SubstreamData, fifoVars, dvars, history, session
<1>2. used' = used /\ goal' = goal
  BY <1>1, UsedSame, Zenon DEF Takes
<1>3. /\ Head(pending).track = track /\ Head(pending).offset = offset /\ track \in TrackNo /\ npc = "idle"
      /\ ~EndingTrack
  BY <1>1, StreamIsHere
<1>4. track # NoTrack
  BY <1>3, NoTrackIsNone
<1>5. fifo = <<>> /\ ~dlabort =>
        IF offset + arrived = 0 THEN Begins(track) ELSE used = <<track, offset + arrived>>
  BY <1>3, <1>4 DEF Flowing, Awaited, Otherwise, HoldingEnd
<1>6. IF dlabort THEN npc' = "idle"
      ELSE npc' = "push" /\ buff' = [cmd |-> "DATA", track |-> track, n |-> offset + arrived + 1,
                                     len |-> PacketLen, key |-> aes]
  BY <1>3 DEF SubstreamData, Offer
<1>7. offset \in Nat /\ arrived \in Nat
  BY SizesAssumption DEF TypeInv, TypeOK, NetTypes
<1>8. npc' = "push" => buff'.cmd = "DATA" /\ buff'.track = track /\ buff'.n = offset + arrived + 1
  BY <1>6
<1>9. ASSUME fifo = <<>>, npc' = "push" PROVE FollowsUsed(buff)'
  <2>1. CASE offset + arrived = 0
    <3>1. Begins(track) /\ buff'.n = 1
      BY <1>5, <1>6, <1>8, <1>9, <2>1
    <3> QED
      BY <1>1, <1>2, <1>8, <1>9, <3>1 DEF FollowsUsed, Begins, DueTrack, UsedWhole
  <2>2. CASE offset + arrived # 0
    <3>1. used = <<track, offset + arrived>>
      BY <1>5, <1>6, <1>9, <2>2
    <3>2. used[1] = track /\ used[2] = offset + arrived /\ used # Nothing
      BY <1>4, <3>1 DEF Nothing
    <3> QED
      BY <1>1, <1>2, <1>8, <1>9, <3>2 DEF FollowsUsed
  <2> QED
    BY <2>1, <2>2
<1>10. fifo = <<>> /\ npc' = "push" => Front(buff)'
  BY <1>8, <1>9 DEF Front
<1>11. fifo # <<>> => Front(Head(fifo))'
  BY <1>1, <1>2 DEF Flowing, Front, Begins, DueTrack, UsedWhole, FollowsUsed
<1> QED
  BY <1>1, <1>6, <1>10, <1>11 DEF Flowing, Otherwise, HoldingEnd

\* The end of a substream.
LEMMA FlowingEnd ==
  ASSUME TypeInv, AppTypes, Keyed, Order, Flowing, Takes, [Next]_vars, SubstreamEnd
  PROVE  Flowing'
<1>1. fifo' = fifo /\ early' = early /\ dlabort' = dlabort /\ Answering("stream")
      /\ arrived = Amount(Head(pending)) /\ arrived' = 0 /\ offset' = offset + arrived
  BY Zenon DEF SubstreamEnd, fifoVars, dvars, history
<1>2. used' = used /\ goal' = goal
  BY <1>1, UsedSame, Zenon DEF Takes
<1>3. /\ track \in TrackNo /\ npc = "idle" /\ ~EndingTrack /\ Tracks[track] \in Nat \ {0}
      /\ arrived < Substream => offset + arrived = Tracks[track]
  BY <1>1, StreamIsHere
<1>4. track # NoTrack
  BY <1>3, NoTrackIsNone
<1>5. fifo = <<>> /\ ~dlabort =>
        IF offset + arrived = 0 THEN Begins(track) ELSE used = <<track, offset + arrived>>
  BY <1>3, <1>4 DEF Flowing, Awaited, Otherwise, HoldingEnd
<1>6. fifo # <<>> => Front(Head(fifo))'
  BY <1>1, <1>2 DEF Flowing, Front, Begins, DueTrack, UsedWhole, FollowsUsed
<1>7. CASE arrived < Substream
  <2>1. npc' = "advance" /\ buff' = EndOf(track)
    BY <1>7, Zenon DEF SubstreamEnd
  <2>2. fifo = <<>> /\ ~dlabort => used = <<track, Tracks[track]>>
    BY <1>3, <1>5, <1>7
  <2>3. buff'.cmd = "END" /\ buff'.track = track
    BY <2>1 DEF EndOf
  <2>4. fifo = <<>> /\ ~dlabort => Front(buff)'
    BY <1>2, <2>2, <2>3 DEF Front
  <2> QED
    BY <1>1, <1>6, <2>1, <2>4 DEF Flowing, Otherwise, HoldingEnd
<1>8. CASE ~(arrived < Substream)
  <2>1. npc' = "channel end" /\ track' = track
    BY <1>8, Zenon DEF SubstreamEnd
  <2>2. ~EndingTrack'
    BY <2>1 DEF EndingTrack
  <2>3. offset' + arrived' = offset + arrived
    BY <1>1, SizesAssumption DEF TypeInv, TypeOK, NetTypes
  <2>4. fifo = <<>> /\ ~dlabort => Awaited'
    BY <1>1, <1>2, <1>5, <2>1, <2>2, <2>3 DEF Awaited, Begins, DueTrack, UsedWhole
  <2> QED
    BY <1>1, <1>6, <2>1, <2>4 DEF Flowing, Otherwise, HoldingEnd
<1> QED
  BY <1>7, <1>8

\* ds->track moves on.
LEMMA FlowingAdvance ==
  ASSUME TypeInv, Order, Flowing, Takes, [Next]_vars, AdvanceTrack
  PROVE  Flowing'
<1>1. npc = "advance" /\ npc' = "end" /\ fifo' = fifo /\ dlabort' = dlabort /\ buff' = buff
  BY OrderAdvance
<1>2. early' = early
  BY Zenon DEF AdvanceTrack, dvars, history
<1>3. used' = used /\ goal' = goal
  BY <1>1, UsedSame, Zenon DEF Takes
<1>4. fifo # <<>> => Front(Head(fifo))'
  BY <1>1, <1>2, <1>3 DEF Flowing, Front, Begins, DueTrack, UsedWhole, FollowsUsed
<1>5. fifo = <<>> /\ ~dlabort => Front(buff)
  BY <1>1 DEF Flowing, HoldingEnd
<1>6. Front(buff) => Front(buff)'
  BY <1>1, <1>2, <1>3 DEF Front, Begins, DueTrack, UsedWhole, FollowsUsed
<1> QED
  BY <1>1, <1>4, <1>5, <1>6 DEF Flowing, Otherwise, HoldingEnd

\* The packet goes through snd_ioctl.
LEMMA FlowingBuffer ==
  ASSUME TypeInv, Keyed, Order, Flowing, Takes, [Next]_vars,
         EndIoctl \/ OfferEnd \/ Push \/ PushNull \/ Signal \/ ChannelEnd
  PROVE  Flowing'
<1>1. /\ pending' = pending /\ arrived' = arrived /\ track' = track /\ offset' = offset /\ buff' = buff
      /\ dlabort' = dlabort /\ (EndingTrack' <=> EndingTrack)
      /\ ~Push => fifo' = fifo
  BY BufferSteps
<1>2. early' = early
  BY Zenon DEF EndIoctl, OfferEnd, PushNull, Push, Signal, ChannelEnd, dvars, history
<1>3. goal' = goal
  BY Zenon DEF Takes
<1>4. CASE Push
  <2> DEFINE e == IF lastcmd = "START" /\ buff.cmd = "DATA" THEN [buff EXCEPT !.len = @ - PageLen] ELSE buff
  <2>1. e \in Buffer
    BY CutBuffer DEF TypeInv, TypeOK, QueueTypes, WholePackets
  <2>2. e.cmd = buff.cmd /\ e.track = buff.track /\ e.n = buff.n
    BY DEF TypeInv, TypeOK, QueueTypes, Buffer
  <2>3. fifo' = Append(fifo, e) /\ npc = "push" /\ npc' = "signal"
    BY <1>4, Zenon DEF Push
  <2> HIDE DEF e
  <2>4. used' = used
    BY <2>1, <2>3, UsedSame, Zenon
  <2>5. fifo' # <<>> /\ (fifo = <<>> => Head(fifo') = e) /\ (fifo # <<>> => Head(fifo') = Head(fifo))
    BY <2>1, <2>3, HeadTailAppend DEF TypeInv, TypeOK, QueueTypes
  <2>6. fifo = <<>> => Front(buff)
    BY <2>3 DEF Flowing
  <2>7. fifo # <<>> => Front(Head(fifo))
    BY DEF Flowing
  <2>8. CASE fifo = <<>>
    <3>1. Head(fifo') = e /\ Front(buff)
      BY <2>5, <2>6, <2>8
    <3> QED
      BY <1>2, <1>3, <2>2, <2>3, <2>4, <2>5, <3>1
         DEF Flowing, Front, Begins, DueTrack, UsedWhole, FollowsUsed, Otherwise, HoldingEnd
  <2>9. CASE fifo # <<>>
    <3>1. Head(fifo') = Head(fifo) /\ Front(Head(fifo))
      BY <2>5, <2>7, <2>9
    <3> QED
      BY <1>2, <1>3, <2>3, <2>4, <2>5, <3>1
         DEF Flowing, Front, Begins, DueTrack, UsedWhole, FollowsUsed, Otherwise, HoldingEnd
  <2> QED
    BY <2>8, <2>9
<1>5. CASE ~Push
  <2>1. fifo' = fifo
    BY <1>1, <1>5
  <2>2. used' = used
    BY <2>1, UsedSame, Zenon
  <2>3. fifo # <<>> => Front(Head(fifo))'
    BY <1>2, <1>3, <2>1, <2>2 DEF Flowing, Front, Begins, DueTrack, UsedWhole, FollowsUsed
  <2>4. Front(buff) => Front(buff)'
    BY <1>1, <1>2, <1>3, <2>2 DEF Front, Begins, DueTrack, UsedWhole, FollowsUsed
  <2>5. Awaited => Awaited'
    BY <1>1, <1>2, <1>3, <2>2 DEF Awaited, Begins, DueTrack, UsedWhole
  <2>6. CASE EndIoctl \/ OfferEnd
    <3>1. /\ HoldingEnd
          /\ ~HoldingEnd' => npc' = IF dlabort THEN "after end" ELSE "push"
      BY <2>6 DEF EndIoctl, OfferEnd, Offer, HoldingEnd
    <3> QED
      BY <1>1, <2>1, <2>3, <2>4, <3>1 DEF Flowing, Otherwise, HoldingEnd
  <2>8. CASE PushNull
    BY <2>1, <2>3, <2>8 DEF PushNull, Flowing, Otherwise, HoldingEnd
  <2>7. CASE Signal \/ ChannelEnd
    <3>1. npc \in {"signal", "channel end"} /\ npc' \in {"idle", "after end"}
      BY <2>7 DEF Signal, ChannelEnd
    <3> QED
      BY <1>1, <2>1, <2>3, <2>5, <3>1 DEF Flowing, Otherwise, HoldingEnd
  <2> QED
    BY <1>5, <2>6, <2>7, <2>8
<1> QED
  BY <1>4, <1>5

\* The next track is awaited from its beginning.
LEMMA FlowingAfter ==
  ASSUME TypeInv, Order, Flowing, Takes, [Next]_vars, AfterEnd
  PROVE  Flowing'
<1>1. /\ offset' = 0 /\ arrived' = 0 /\ track' = track /\ ~EndingTrack' /\ buff' = buff /\ fifo' = fifo
      /\ dlabort' = dlabort
  BY OrderAfterEnd
<1>2. early' = early /\ npc = "after end" /\ npc' = "channel end"
  BY Zenon DEF AfterEnd, dvars, history
<1>3. used' = used /\ goal' = goal
  BY <1>1, UsedSame, Zenon DEF Takes
<1>4. fifo # <<>> => Front(Head(fifo))'
  BY <1>1, <1>2, <1>3 DEF Flowing, Front, Begins, DueTrack, UsedWhole, FollowsUsed
<1>5. Awaited => Begins(track)
  BY <1>2 DEF Awaited, EndingTrack
<1>6. Begins(track) => Begins(track)'
  BY <1>1, <1>2, <1>3 DEF Begins, DueTrack, UsedWhole
<1>7. Awaited => Awaited'
  BY <1>1, <1>5, <1>6 DEF Awaited
<1> QED
  BY <1>1, <1>2, <1>4, <1>7 DEF Flowing, Otherwise, HoldingEnd

\* What follows the first of the queue when that is taken: the next one, or what N brings.
LEMMA TakenFront ==
  ASSUME TypeInv, Keyed, InOrder, lost = {}, ~dlabort, fifo # <<>>
  PROVE  /\ Head(fifo) \in Buffer
         /\ Tail(fifo) # <<>> => Head(Tail(fifo)) \in Buffer /\ Precedes(Head(fifo), Head(Tail(fifo)))
         /\ Tail(fifo) = <<>> =>
              /\ npc = "push" \/ HoldingEnd => Precedes(Head(fifo), buff)
              /\ npc = "push" => Follow(buff)
              /\ Otherwise => Follow(Head(fifo)) /\ Head(fifo) = Tip
<1>1. fifo \in Seq(Buffer) /\ Head(fifo) \in Buffer
  BY DEF TypeInv, TypeOK, QueueTypes
<1>2. Gapless /\ Before /\ AtEnd /\ Behind
  BY DEF InOrder
<1>3. ASSUME Tail(fifo) # <<>> PROVE Head(Tail(fifo)) \in Buffer /\ Precedes(Head(fifo), Head(Tail(fifo)))
  <2>1. 1 \in DOMAIN fifo /\ 1 + 1 \in DOMAIN fifo /\ Head(Tail(fifo)) = fifo[1 + 1] /\ Head(fifo) = fifo[1]
    BY <1>1, <1>3
  <2>2. Precedes(fifo[1], fifo[1 + 1])
    BY <1>2, <2>1, Zenon DEF Gapless
  <2>3. fifo[1 + 1] \in Buffer
    BY <1>1, <2>1
  <2> QED
    BY <2>1, <2>2, <2>3, Zenon
<1>4. ASSUME Tail(fifo) = <<>> PROVE Head(fifo) = Tip
  BY <1>1, <1>4, OnlyBuffer, Zenon DEF Tip
<1> QED
  BY <1>1, <1>2, <1>3, <1>4, Zenon DEF Before, AtEnd, Behind

\* A START is taken.
LEMMA FlowingStart ==
  ASSUME TypeInv, Keyed, Order, Aborting, InOrder, Flowing, Takes, [Next]_vars, TakeStart, lost = {}
  PROVE  Flowing'
<1> DEFINE b == Head(fifo)
           c == Head(Tail(fifo))
<1>1. /\ fifo # <<>> /\ b.cmd = "START" /\ dpc \in {"read", "look"} /\ fifo' = Tail(fifo)
      /\ npc' = npc /\ buff' = buff /\ track' = track /\ offset' = offset /\ arrived' = arrived
      /\ dlabort' = dlabort /\ early' = early
  BY Zenon DEF TakeStart, AtBuffer, nvars, session, net, history
<1>2. used' = used /\ goal' = goal
  BY <1>1 DEF Takes
<1>3. ~dlabort
  BY <1>1 DEF Aborting
<1>4. Begins(b.track)
  BY <1>1 DEF Flowing, Front
<1>5. /\ b \in Buffer
      /\ Tail(fifo) # <<>> => c \in Buffer /\ Precedes(b, c)
      /\ Tail(fifo) = <<>> =>
              /\ npc = "push" \/ HoldingEnd => Precedes(b, buff)
              /\ Otherwise => Follow(b)
  BY <1>1, <1>3, TakenFront, Zenon
<1> HIDE DEF b, c
<1>6. ASSUME Tail(fifo) # <<>> PROVE Flowing'
  <2>1. c.cmd = "DATA" /\ c.track = b.track /\ c.n = 1
    BY <1>1, <1>5, <1>6 DEF Precedes
  <2>2. fifo' # <<>> /\ Head(fifo') = c
    BY <1>1, <1>6 DEF c
  <2> QED
    BY <1>1, <1>2, <1>4, <2>1, <2>2 DEF Flowing, Front, FollowsUsed, Begins, DueTrack, UsedWhole
<1>7. ASSUME Tail(fifo) = <<>>, npc = "push" \/ HoldingEnd PROVE Flowing'
  <2>1. buff.cmd = "DATA" /\ buff.track = b.track /\ buff.n = 1
    BY <1>1, <1>5, <1>7 DEF Precedes
  <2>2. npc = "push"
    BY <1>7, <2>1 DEF Keyed
  <2> QED
    BY <1>1, <1>2, <1>4, <1>7, <2>1, <2>2
       DEF Flowing, Front, FollowsUsed, Begins, DueTrack, UsedWhole, Otherwise, HoldingEnd
<1>8. ASSUME Tail(fifo) = <<>>, Otherwise PROVE Flowing'
  <2>1. track = b.track /\ offset + arrived = 0
    BY <1>1, <1>5, <1>8 DEF Follow
  <2>2. Begins(track)'
    BY <1>1, <1>2, <1>4, <2>1 DEF Begins, DueTrack, UsedWhole
  <2>3. Awaited'
    BY <1>1, <2>1, <2>2 DEF Awaited
  <2> QED
    BY <1>1, <1>8, <2>3 DEF Flowing, Otherwise, HoldingEnd
<1>9. ASSUME Tail(fifo) = <<>>, npc = "dead" PROVE Flowing'
  BY <1>1, <1>9 DEF Flowing, Otherwise, HoldingEnd
<1> QED
  BY <1>6, <1>7, <1>8, <1>9 DEF Otherwise

\* Data is taken, all of it or a part.
LEMMA FlowingTaken ==
  ASSUME TypeInv, AppTypes, Keyed, Order, Aborting, InOrder, Pushed, Flowing, Takes, [Next]_vars, TakeData,
         lost = {}
  PROVE  Flowing'
<1> DEFINE b == Head(fifo)
           c == Head(Tail(fifo))
<1>1. /\ fifo # <<>> /\ b.cmd = "DATA" /\ dpc \in {"read", "look"}
      /\ npc' = npc /\ buff' = buff /\ track' = track /\ offset' = offset /\ arrived' = arrived
      /\ dlabort' = dlabort /\ early' = early
  BY Zenon DEF TakeData, AtBuffer, nvars, net, history
<1>2. fifo' = fifo \/ fifo' = Tail(fifo)
  BY Zenon DEF TakeData
<1>3. ~dlabort
  BY <1>1 DEF Aborting
<1>4. FollowsUsed(b)
  BY <1>1 DEF Flowing, Front
<1>5. /\ b \in Buffer
      /\ Tail(fifo) # <<>> => c \in Buffer /\ Precedes(b, c)
      /\ Tail(fifo) = <<>> =>
              /\ npc = "push" \/ HoldingEnd => Precedes(b, buff)
              /\ Otherwise => Follow(b) /\ b = Tip
  BY <1>1, <1>3, TakenFront, Zenon
<1>6. CASE fifo' = fifo
  <2>1. used' = used /\ goal' = goal
    BY <1>6, UsedSame, Zenon DEF Takes
  <2> QED
    BY <1>1, <1>6, <2>1, FlowingSame, Zenon
<1>7. ASSUME fifo' = Tail(fifo) PROVE Flowing'
  <2>1. used' = <<b.track, b.n>> /\ goal' = goal
    BY <1>1, <1>7, Zenon DEF Takes
  <2> HIDE DEF b, c
  <2>2. b.track \in TrackNo /\ b.n \in Nat /\ b.track # NoTrack
    BY <1>5, NoTrackIsNone DEF Buffer
  <2>3. used' # Nothing /\ used'[1] = b.track /\ used'[2] = b.n
    BY <2>1, <2>2 DEF Nothing
  <2>4. b.n # 0
    <3>1. used # Nothing => used[2] \in Nat
      BY UsedType
    <3> QED
      BY <1>4, <3>1 DEF FollowsUsed
  <2>5. ASSUME Tail(fifo) # <<>> PROVE Flowing'
    <3>1. c.track = b.track /\ IF b.n = Tracks[b.track] THEN c.cmd = "END" ELSE c.cmd = "DATA" /\ c.n = b.n + 1
      BY <1>1, <1>5, <2>5 DEF Precedes
    <3>2. fifo' # <<>> /\ Head(fifo') = c
      BY <1>7, <2>5 DEF c
    <3>3. Front(Head(fifo))'
      BY <2>1, <2>3, <3>1, <3>2 DEF Front, FollowsUsed
    <3> QED
      BY <3>2, <3>3 DEF Flowing
  <2>6. ASSUME Tail(fifo) = <<>>, npc = "push" \/ HoldingEnd PROVE Flowing'
    <3>1. /\ buff.track = b.track
          /\ IF b.n = Tracks[b.track] THEN buff.cmd = "END" ELSE buff.cmd = "DATA" /\ buff.n = b.n + 1
      BY <1>1, <1>5, <2>6 DEF Precedes
    <3>2. Front(buff)'
      BY <1>1, <2>1, <2>3, <3>1 DEF Front, FollowsUsed
    <3> QED
      BY <1>1, <1>7, <2>6, <3>2 DEF Flowing, Otherwise, HoldingEnd
  <2>7. ASSUME Tail(fifo) = <<>>, Otherwise PROVE Flowing'
    <3>1. track = b.track /\ offset + arrived = b.n
      BY <1>1, <1>5, <2>7 DEF Follow
    <3>2. ~EndingTrack
      <4>1. EndingTrack => npc \in {"signal", "after end"} /\ buff.cmd = "END"
        BY <2>7 DEF EndingTrack, Order, OneEnd, Otherwise, HoldingEnd
      <4>2. npc \in {"signal", "after end"} => buff.cmd = b.cmd
        BY <1>1, <1>3, <1>5, <2>7, Zenon DEF Pushed
      <4> QED
        BY <1>1, <4>1, <4>2
    <3>3. ~EndingTrack'
      BY <1>1, <3>2, Zenon DEF EndingTrack
    <3>4. Awaited'
      BY <1>1, <2>1, <2>4, <3>1, <3>3 DEF Awaited
    <3> QED
      BY <1>1, <1>7, <2>7, <3>4 DEF Flowing, Otherwise, HoldingEnd
  <2>8. ASSUME Tail(fifo) = <<>>, npc = "dead" PROVE Flowing'
    BY <1>1, <1>7, <2>8 DEF Flowing, Otherwise, HoldingEnd
  <2> QED
    BY <2>5, <2>6, <2>7, <2>8 DEF Otherwise
<1> QED
  BY <1>2, <1>6, <1>7, Zenon

\* The END of a track is taken.
LEMMA FlowingTakeEnd ==
  ASSUME TypeInv, AppTypes, Keyed, Order, Aborting, InOrder, Flowing, Takes, TakeEnd, lost = {}, play_as_list
  PROVE  Flowing'
<1> DEFINE b == Head(fifo)
           c == Head(Tail(fifo))
<1>1. /\ fifo # <<>> /\ b.cmd = "END" /\ dpc \in {"read", "look"} /\ fifo' = Tail(fifo)
      /\ npc' = npc /\ buff' = buff /\ track' = track /\ offset' = offset /\ arrived' = arrived
      /\ dlabort' = dlabort
  BY Zenon DEF TakeEnd, AtBuffer, nvars, net, session
<1>2. used' = used /\ goal' = goal
  BY <1>1 DEF Takes
<1>3. ~dlabort
  BY <1>1 DEF Aborting
<1>4. used = <<b.track, Tracks[b.track]>> \/ b.track = Len(Tracks)
  BY <1>1 DEF Flowing, Front
<1>5. /\ b \in Buffer
      /\ Tail(fifo) # <<>> => c \in Buffer /\ Precedes(b, c)
      /\ Tail(fifo) = <<>> =>
              /\ npc = "push" \/ HoldingEnd => Precedes(b, buff)
              /\ Otherwise => Follow(b)
  BY <1>1, <1>3, TakenFront, Zenon
<1> HIDE DEF b, c
<1>6. b.track \in TrackNo /\ b.track # NoTrack /\ buff.track \in TrackNo
  BY <1>5, NoTrackIsNone DEF Buffer, TypeInv, TypeOK, QueueTypes
<1>7. ASSUME b.track # Len(Tracks) PROVE used' # Nothing /\ used'[1] = b.track /\ used'[2] = Tracks[b.track]
  <2>1. used' = <<b.track, Tracks[b.track]>>
    BY <1>2, <1>4, <1>7
  <2> QED
    BY <1>6, <2>1 DEF Nothing
<1>8. \A t \in TrackNo : t = b.track + 1 => b.track # Len(Tracks)
  BY <1>6, SizesAssumption DEF TrackNo
<1>9. ASSUME Tail(fifo) # <<>> PROVE Flowing'
  <2>1. c.cmd = "START" /\ c.track = b.track + 1 /\ c.track \in TrackNo
    BY <1>1, <1>5, <1>9 DEF Precedes, Buffer
  <2>2. fifo' # <<>> /\ Head(fifo') = c
    BY <1>1, <1>9 DEF c
  <2>3. used' # Nothing /\ used'[1] = b.track /\ used'[2] = Tracks[b.track]
    BY <1>7, <1>8, <2>1
  <2>4. Front(Head(fifo))'
    BY <2>1, <2>2, <2>3 DEF Front, Begins, DueTrack, UsedWhole
  <2> QED
    BY <2>2, <2>4 DEF Flowing
<1>10. ASSUME Tail(fifo) = <<>>, npc = "push" \/ HoldingEnd PROVE Flowing'
  <2>1. buff.cmd = "START" /\ buff.track = b.track + 1
    BY <1>1, <1>5, <1>10 DEF Precedes
  <2>2. npc = "push"
    BY <1>10, <2>1 DEF Keyed
  <2>3. used' # Nothing /\ used'[1] = b.track /\ used'[2] = Tracks[b.track]
    BY <1>6, <1>7, <1>8, <2>1
  <2>4. Front(buff)'
    BY <1>1, <2>1, <2>3 DEF Front, Begins, DueTrack, UsedWhole
  <2> QED
    BY <1>1, <1>10, <2>2, <2>4 DEF Flowing, Otherwise, HoldingEnd
<1>11. ASSUME Tail(fifo) = <<>>, Otherwise PROVE Flowing'
  <2> SUFFICES ASSUME track # NoTrack PROVE Awaited'
    BY <1>1, <1>11 DEF Flowing, Otherwise, HoldingEnd
  <2>1. track = NextTrack(b.track) /\ (EndingTrack \/ offset + arrived = 0)
    BY <1>1, <1>5, <1>11 DEF Follow
  <2>2. track = b.track + 1 /\ track \in TrackNo
    BY <1>6, <2>1, AfterTrack DEF TypeInv, TypeOK, NetTypes
  <2>3. Begins(track)'
    <3>1. used' # Nothing /\ used'[1] = b.track /\ used'[2] = Tracks[b.track]
      BY <1>7, <1>8, <2>2
    <3> QED
      BY <1>1, <2>2, <3>1 DEF Begins, DueTrack, UsedWhole
  <2>4. EndingTrack' <=> EndingTrack
    BY <1>1, Zenon DEF EndingTrack
  <2> QED
    BY <1>1, <2>1, <2>3, <2>4 DEF Awaited
<1>12. ASSUME Tail(fifo) = <<>>, npc = "dead" PROVE Flowing'
  BY <1>1, <1>12 DEF Flowing, Otherwise, HoldingEnd
<1> QED
  BY <1>9, <1>10, <1>11, <1>12 DEF Otherwise

\* What Awaited and Front rest on stays as long as nothing is taken.
LEMMA DueSameTrack ==
  ASSUME used' = used, goal' = goal
  PROVE  DueTrack' = DueTrack /\ (UsedWhole' <=> UsedWhole)
<1>1. DueTrack' = DueTrack
  BY DEF DueTrack
<1> QED
  BY <1>1, Zenon DEF UsedWhole

\* D comes to its snd_stop with an early end: the next track has not begun.
LEMMA HaltingStart ==
  ASSUME TypeInv, AppTypes, Keyed, Order, Aborting, InOrder, Flowing, Takes, TakeEnd, lost = {}, play_as_list,
         npc # "dead"
  PROVE  Halting'
<1> DEFINE b == Head(fifo)
<1> SUFFICES ASSUME dpc' \in Stops PROVE Halting'
  BY DEF Halting
<1>1. /\ fifo # <<>> /\ b.cmd = "END" /\ dpc \in {"read", "look"} /\ fifo' = Tail(fifo)
      /\ npc' = npc /\ buff' = buff /\ track' = track /\ offset' = offset /\ arrived' = arrived
      /\ dlabort' = dlabort /\ pending' = pending /\ got' = got /\ got = 0
  BY Zenon DEF TakeEnd, AtBuffer, nvars, net, session
<1>2. used' = used /\ goal' = goal
  BY <1>1 DEF Takes
<1>3. ~dlabort
  BY <1>1 DEF Aborting
<1>4. used = <<b.track, Tracks[b.track]>> \/ b.track = Len(Tracks)
  BY <1>1 DEF Flowing, Front
<1>5. Tail(fifo) = <<>>
  BY DEF TakeEnd, Stops
<1>6. /\ b \in Buffer
      /\ npc = "push" \/ HoldingEnd => Precedes(b, buff)
      /\ npc = "push" => Follow(buff)
      /\ Otherwise => Follow(b)
  BY <1>1, <1>3, <1>5, TakenFront, Zenon
<1>7. early' = (early \/ b.track # Len(Tracks))
  BY <1>1, <1>5 DEF TakeEnd
<1> HIDE DEF b
<1>8. b.track \in TrackNo /\ b.track # NoTrack /\ buff.track \in TrackNo /\ track \in TrackNo \cup {NoTrack}
  BY <1>6, NoTrackIsNone DEF Buffer, TypeInv, TypeOK, QueueTypes, NetTypes
<1>9. \A t \in TrackNo : t = b.track + 1 => b.track # Len(Tracks)
  BY <1>8, SizesAssumption DEF TrackNo
<1>10. npc = "push" => buff.cmd = "START" /\ track = b.track + 1
  BY <1>1, <1>6 DEF Precedes, Follow
<1>11. ~HoldingEnd
  BY <1>1, <1>6 DEF Precedes, Keyed
<1>12. ASSUME track # NoTrack PROVE track = b.track + 1 /\ track \in TrackNo
  <2>1. npc # "push" => track = NextTrack(b.track)
    BY <1>1, <1>6, <1>11 DEF Follow, Otherwise
  <2>2. npc # "push" => track = b.track + 1
    BY <1>8, <1>12, <2>1, AfterTrack
  <2> QED
    BY <1>8, <1>10, <1>12, <2>2
<1>13. ASSUME track # NoTrack PROVE early' /\ UsedWhole' /\ track = DueTrack'
  <2>1. b.track # Len(Tracks)
    BY <1>9, <1>12, <1>13
  <2>2. used' = <<b.track, Tracks[b.track]>>
    BY <1>2, <1>4, <2>1
  <2>3. used' # Nothing /\ used'[1] = b.track /\ used'[2] = Tracks[b.track]
    BY <1>8, <2>2 DEF Nothing
  <2>4. early'
    BY <1>7, <2>1
  <2> QED
    BY <1>12, <1>13, <2>3, <2>4 DEF UsedWhole, DueTrack
<1>14. ASSUME Otherwise, track # NoTrack PROVE EndingTrack \/ KeyPending
  BY <1>1, <1>6, <1>14 DEF Follow
<1>15. (EndingTrack' <=> EndingTrack) /\ (KeyPending' <=> KeyPending)
  BY <1>1, Zenon DEF EndingTrack, KeyPending
<1> QED
  BY <1>1, <1>5, <1>10, <1>11, <1>13, <1>14, <1>15 DEF Halting, Otherwise, HoldingEnd

\* The answers while D is in its snd_stop.
LEMMA HaltingAnswers ==
  ASSUME TypeInv, AppTypes, Keyed, Order, Halting, Takes, dpc \in Stops, [Next]_vars,
         AesCallback \/ SubstreamData \/ SubstreamEnd
  PROVE  Halting'
<1>1. dpc' = dpc /\ got' = got /\ early' = early /\ fifo' = fifo /\ dlabort' = dlabort
  BY Zenon DEF AesCallback, SubstreamData, SubstreamEnd, dvars, call, history, fifoVars, session
<1>2. used' = used /\ goal' = goal
  BY <1>1, UsedSame, Zenon DEF Takes
<1>3. DueTrack' = DueTrack /\ (UsedWhole' <=> UsedWhole)
  BY <1>2, DueSameTrack
<1>4. /\ got = 0
      /\ track # NoTrack =>
           /\ early /\ UsedWhole
           /\ track = DueTrack \/ (track = DueTrack + 1 /\ StreamsOf(pending) = {} /\ npc # "advance")
      /\ fifo # <<>> =>
           /\ Head(fifo).cmd = "START"
           /\ Head(fifo).track = DueTrack \/ (Head(fifo).track = DueTrack + 1 /\ track # DueTrack)
      /\ fifo = <<>> =>
           /\ npc = "push" => buff.cmd = "START"
           /\ HoldingEnd => dlabort
           /\ Otherwise /\ ~dlabort /\ track # NoTrack => EndingTrack \/ KeyPending
  BY DEF Halting
<1>5. pending \in Seq(Requests) /\ DueTrack \in Int
  <2>1. used # Nothing => used[1] \in Int
    BY UsedType DEF TrackNo
  <2> QED
    BY <2>1 DEF TypeInv, TypeOK, NetTypes, Requests, AppTypes, DueTrack, TrackNo, NoTrack
<1>6. CASE AesCallback
  <2>1. /\ Answering("key") /\ track' = track /\ pending' = Tail(pending) /\ npc = "idle"
        /\ IF dlabort THEN npc' = "idle" ELSE npc' = "push" /\ buff' = StartOf(track)
    BY <1>6, Zenon DEF AesCallback, Offer, Answering
  <2>2. buff'.cmd = "START" \/ npc' = "idle"
    BY <2>1 DEF StartOf
  <2>3. StreamsOf(pending) = {} => StreamsOf(pending') = {}
    <3>1. \A i \in DOMAIN pending' : i + 1 \in DOMAIN pending /\ pending'[i] = pending[i + 1]
      BY <2>1, KeyIsFirst
    <3> QED
      BY <3>1 DEF StreamsOf
  <2>4. npc' \in {"idle", "push"} /\ (npc' # "push" => dlabort)
    BY <2>1
  <2> QED
    BY <1>1, <1>3, <1>4, <2>1, <2>2, <2>3, <2>4 DEF Halting, Otherwise, HoldingEnd
<1>7. CASE SubstreamData
  <2>1. /\ Answering("stream") /\ track' = track /\ pending' = pending /\ npc = "idle"
        /\ npc' = (IF dlabort THEN "idle" ELSE "push")
    BY <1>7, Zenon DEF SubstreamData, Offer, Answering, session
  <2>2. ~KeyPending /\ ~EndingTrack /\ track \in TrackNo
    BY <2>1, StreamIsHere
  <2>3. fifo = <<>> => dlabort
    BY <1>4, <2>1, <2>2, NoTrackIsNone DEF Otherwise, HoldingEnd
  <2> QED
    BY <1>1, <1>3, <1>4, <2>1, <2>3 DEF Halting, Otherwise, HoldingEnd
<1>8. CASE SubstreamEnd
  <2>1. /\ Answering("stream") /\ pending' = Tail(pending) /\ npc = "idle"
        /\ track' = track /\ npc' \in {"advance", "channel end"}
    BY <1>8 DEF SubstreamEnd, Answering
  <2>2. ~KeyPending /\ ~EndingTrack /\ track \in TrackNo /\ Tail(pending) = <<>>
    BY <2>1, StreamIsHere
  <2>3. fifo = <<>> => dlabort
    BY <1>4, <2>1, <2>2, NoTrackIsNone DEF Otherwise, HoldingEnd
  <2>4. StreamsOf(pending) # {}
    <3>1. pending # <<>> /\ Head(pending).kind = "stream"
      BY <2>1, Zenon DEF Answering
    <3>2. 1 \in DOMAIN pending /\ pending[1].kind = "stream"
      BY <1>5, <3>1
    <3> QED
      BY <3>2 DEF StreamsOf
  <2>5. StreamsOf(pending') = {}
    <3>1. pending' = <<>>
      BY <2>1, <2>2, Zenon
    <3> QED
      BY <3>1 DEF StreamsOf
  <2>6. track = DueTrack /\ early /\ UsedWhole
    BY <1>4, <2>2, <2>4, NoTrackIsNone
  <2>8. fifo # <<>> => Head(fifo).cmd = "START" /\ Head(fifo).track = DueTrack
    BY <1>4, <2>6
  <2> QED
    BY <1>1, <1>3, <1>4, <2>1, <2>3, <2>5, <2>6, <2>8 DEF Halting, Otherwise, HoldingEnd
<1> QED
  BY <1>6, <1>7, <1>8

\* ds->track moves on.
LEMMA HaltingAdvance ==
  ASSUME TypeInv, AppTypes, Order, Halting, Takes, dpc \in Stops, [Next]_vars, AdvanceTrack
  PROVE  Halting'
<1>1. /\ npc = "advance" /\ npc' = "end" /\ fifo' = fifo /\ dlabort' = dlabort /\ buff' = buff
      /\ track = buff.track /\ track' = NextTrack(buff.track) /\ pending' = <<>>
  BY OrderAdvance
<1>2. dpc' = dpc /\ got' = got /\ early' = early
  BY Zenon DEF AdvanceTrack, dvars, call, history
<1>3. used' = used /\ goal' = goal
  BY <1>1, UsedSame, Zenon DEF Takes
<1>4. DueTrack' = DueTrack /\ (UsedWhole' <=> UsedWhole)
  BY <1>3, DueSameTrack
<1>5. track \in TrackNo /\ track # NoTrack
  BY <1>1, NoTrackIsNone DEF TypeInv, TypeOK, QueueTypes, Buffer
<1>6. got = 0 /\ early /\ UsedWhole /\ track = DueTrack
  BY <1>1, <1>5 DEF Halting
<1>7. /\ fifo # <<>> => Head(fifo).cmd = "START" /\ Head(fifo).track = DueTrack
      /\ fifo = <<>> => dlabort
  BY <1>1, <1>6 DEF Halting, HoldingEnd
<1>8. track' # NoTrack => track' = DueTrack + 1
  <2>1. track' \in TrackNo \cup {NoTrack} /\ track' = NextTrack(track)
    BY <1>1, <1>5, NextTrackType
  <2> QED
    BY <1>5, <1>6, <2>1, AfterTrack
<1>9. StreamsOf(pending') = {}
  BY <1>1 DEF StreamsOf
<1>10. DueTrack \in Int
  BY <1>5, <1>6 DEF TrackNo
<1> QED
  BY <1>1, <1>2, <1>4, <1>6, <1>7, <1>8, <1>9, <1>10 DEF Halting, Otherwise, HoldingEnd

\* N's other steps while D is in its snd_stop, and D's own.
LEMMA HaltingBuffer ==
  ASSUME TypeInv, Keyed, Order, InOrder, Halting, Takes, dpc \in Stops, lost = {},
         EndIoctl \/ OfferEnd \/ Push \/ PushNull \/ Signal \/ ChannelEnd
  PROVE  Halting'
<1>1. /\ pending' = pending /\ arrived' = arrived /\ track' = track /\ offset' = offset /\ buff' = buff
      /\ dlabort' = dlabort /\ (EndingTrack' <=> EndingTrack) /\ npc' # "advance"
      /\ ~Push => fifo' = fifo
  BY BufferSteps
<1>2. dpc' = dpc /\ got' = got /\ early' = early
  <2>1. got' = got /\ early' = early
    BY Zenon DEF EndIoctl, OfferEnd, PushNull, Push, Signal, ChannelEnd, dvars, call, history
  <2>2. dpc' = dpc
    BY DEF EndIoctl, OfferEnd, PushNull, Push, Signal, ChannelEnd, dvars, Stops
  <2> QED
    BY <2>1, <2>2
<1>3. goal' = goal
  BY Zenon DEF Takes
<1>4. /\ got = 0
      /\ track # NoTrack =>
           /\ early /\ UsedWhole
           /\ track = DueTrack \/ (track = DueTrack + 1 /\ StreamsOf(pending) = {} /\ npc # "advance")
      /\ fifo # <<>> =>
           /\ Head(fifo).cmd = "START"
           /\ Head(fifo).track = DueTrack \/ (Head(fifo).track = DueTrack + 1 /\ track # DueTrack)
      /\ fifo = <<>> =>
           /\ npc = "push" => buff.cmd = "START"
           /\ HoldingEnd => dlabort
           /\ Otherwise /\ ~dlabort /\ track # NoTrack => EndingTrack \/ KeyPending
  BY DEF Halting
<1>5. KeyPending' <=> KeyPending
  BY <1>1, Zenon DEF KeyPending
<1>6. CASE Push
  <2> DEFINE e == IF lastcmd = "START" /\ buff.cmd = "DATA" THEN [buff EXCEPT !.len = @ - PageLen] ELSE buff
  <2>1. e \in Buffer
    BY CutBuffer DEF TypeInv, TypeOK, QueueTypes, WholePackets
  <2>2. e.cmd = buff.cmd /\ e.track = buff.track
    BY DEF TypeInv, TypeOK, QueueTypes, Buffer
  <2>3. fifo' = Append(fifo, e) /\ npc = "push" /\ npc' = "signal"
    BY <1>6, Zenon DEF Push
  <2> HIDE DEF e
  <2>4. used' = used
    BY <2>1, <2>3, UsedSame, Zenon
  <2>5. DueTrack' = DueTrack /\ (UsedWhole' <=> UsedWhole)
    BY <1>3, <2>4, DueSameTrack
  <2>6. fifo' # <<>> /\ (fifo = <<>> => Head(fifo') = e) /\ (fifo # <<>> => Head(fifo') = Head(fifo))
    BY <2>1, <2>3, HeadTailAppend DEF TypeInv, TypeOK, QueueTypes
  <2>7. Follow(buff)
    BY <2>3, Zenon DEF InOrder, Before
  <2>8. buff.track # NoTrack
    BY NoTrackIsNone DEF TypeInv, TypeOK, QueueTypes, Buffer
  <2>9. fifo = <<>> => buff.cmd = "START" /\ track = buff.track /\ (track = DueTrack \/ track = DueTrack + 1)
    BY <1>4, <2>3, <2>7, <2>8 DEF Follow
  <2>10. /\ Head(fifo').cmd = "START"
         /\ Head(fifo').track = DueTrack \/ (Head(fifo').track = DueTrack + 1 /\ track # DueTrack)
    <3>1. CASE fifo # <<>>
      BY <1>4, <2>6, <3>1
    <3>2. CASE fifo = <<>>
      <4>1. Head(fifo').cmd = "START" /\ Head(fifo').track = track
        BY <2>2, <2>6, <2>9, <3>2
      <4> QED
        BY <2>9, <3>2, <4>1
    <3> QED
      BY <3>1, <3>2
  <2> QED
    BY <1>1, <1>2, <1>4, <2>5, <2>6, <2>10 DEF Halting
<1>7. CASE ~Push
  <2>1. fifo' = fifo
    BY <1>1, <1>7
  <2>2. used' = used
    BY <2>1, UsedSame, Zenon
  <2>3. DueTrack' = DueTrack /\ (UsedWhole' <=> UsedWhole)
    BY <1>3, <2>2, DueSameTrack
  <2>4. CASE EndIoctl \/ OfferEnd
    <3>1. /\ HoldingEnd
          /\ ~HoldingEnd' => npc' = IF dlabort THEN "after end" ELSE "push"
      BY <2>4 DEF EndIoctl, OfferEnd, Offer, HoldingEnd
    <3> QED
      BY <1>1, <1>2, <1>4, <2>1, <2>3, <3>1 DEF Halting, Otherwise, HoldingEnd
  <2>6. CASE PushNull
    BY <1>1, <1>2, <1>4, <2>1, <2>3, <2>6 DEF PushNull, Halting, Otherwise, HoldingEnd
  <2>5. CASE Signal \/ ChannelEnd
    <3>1. npc \in {"signal", "channel end"} /\ npc' \in {"idle", "after end"}
      BY <2>5 DEF Signal, ChannelEnd
    <3> QED
      BY <1>1, <1>2, <1>4, <1>5, <2>1, <2>3, <3>1 DEF Halting, Otherwise, HoldingEnd
  <2> QED
    BY <1>7, <2>4, <2>5, <2>6
<1> QED
  BY <1>6, <1>7

LEMMA HaltingAfter ==
  ASSUME TypeInv, Order, Halting, Takes, dpc \in Stops, lost' = {}, play_as_list, AfterEnd
  PROVE  Halting'
<1>1. /\ track' = track /\ ~EndingTrack' /\ fifo' = fifo /\ dlabort' = dlabort
      /\ \/ track # NoTrack /\ pending' = <<KeyRequest(track)>> /\ KeyPending'
         \/ track = NoTrack
  <2>1. \A t : lost \cup {<<"key", t>>} # {}
    OBVIOUS
  <2> QED
    BY <2>1, OrderAfterEnd, Zenon
<1>2. npc' = "channel end" /\ dpc' = dpc /\ got' = got /\ early' = early
  BY Zenon DEF AfterEnd, dvars, call, history
<1>3. used' = used /\ goal' = goal
  BY <1>1, UsedSame, Zenon DEF Takes
<1>4. DueTrack' = DueTrack /\ (UsedWhole' <=> UsedWhole)
  BY <1>3, DueSameTrack
<1>5. track # NoTrack => StreamsOf(pending') = {}
  BY <1>1 DEF StreamsOf, KeyRequest
<1> QED
  BY <1>1, <1>2, <1>4, <1>5 DEF Halting, Otherwise, HoldingEnd

\* D sets or keeps dlabort, and waits.
LEMMA HaltingStops ==
  ASSUME TypeInv, Halting, Takes, dpc \in Stops, StopLook \/ StopAbort \/ StopWait \/ UNCHANGED vars
  PROVE  Halting'
<1>1. /\ pending' = pending /\ track' = track /\ buff' = buff /\ npc' = npc /\ fifo' = fifo
      /\ got' = got /\ early' = early
  BY Zenon DEF StopLook, StopAbort, StopWait, vars, net, session, nvars, fifoVars, dvars, call, history
<1>2. dlabort => dlabort'
  <2>1. CASE StopAbort
    BY <2>1 DEF StopAbort
  <2>2. CASE StopLook \/ StopWait \/ UNCHANGED vars
    BY <2>2, Zenon DEF StopLook, StopWait, vars, session
  <2> QED
    BY <2>1, <2>2
<1>3. used' = used /\ goal' = goal
  BY <1>1, UsedSame, Zenon DEF Takes
<1>4. DueTrack' = DueTrack /\ (UsedWhole' <=> UsedWhole)
  BY <1>3, DueSameTrack
<1>5. (EndingTrack' <=> EndingTrack) /\ (KeyPending' <=> KeyPending)
  BY <1>1, Zenon DEF EndingTrack, KeyPending
<1>6. (HoldingEnd' <=> HoldingEnd) /\ (Otherwise' <=> Otherwise)
  BY <1>1, Zenon DEF HoldingEnd, Otherwise
<1> QED
  BY <1>1, <1>2, <1>4, <1>5, <1>6 DEF Halting

LEMMA HaltingKept ==
  ASSUME TypeInv, AppTypes, Keyed, Order, Aborting, InOrder, Flowing, Halting, Takes, [Next]_vars,
         lost = {}, lost' = {}, play_as_list, npc # "dead"
  PROVE  Halting'
<1> SUFFICES ASSUME dpc' \in Stops PROVE Halting'
  BY DEF Halting
<1>1. CASE TakeEnd
  BY <1>1, HaltingStart
<1>2. ASSUME dpc \in Stops PROVE Halting'
  <2>1. CASE AesCallback \/ SubstreamData \/ SubstreamEnd
    BY <1>2, <2>1, HaltingAnswers
  <2>2. CASE EndIoctl \/ OfferEnd \/ Push \/ PushNull \/ Signal \/ ChannelEnd
    BY <1>2, <2>2, HaltingBuffer
  <2>7. CASE AdvanceTrack
    BY <1>2, <2>7, HaltingAdvance
  <2>3. CASE AfterEnd
    BY <1>2, <2>3, HaltingAfter
  <2>4. CASE AesKeyError \/ SubstreamError
    BY <2>4, FaultLoses
  <2>5. CASE StopLook \/ StopAbort \/ StopWait \/ UNCHANGED vars
    BY <1>2, <2>5, HaltingStops
  <2>6. CASE Decoder \/ UseFreed
    <3>1. StopLook \/ StopAbort \/ StopWait \/ StopClear
      BY <1>2, <2>6 DEF Stops, Decoder, UseFreed, GetPcm, FillFifo, Choose, SayBusy, SendRequest, Decode,
         Lock,
                        CondWait, CondWake, NothingThere, TakeStart, TakeData, LeaveEnd, TakeEnd, AtBuffer,
                        Return, Report
    <3>2. ~StopClear
      BY DEF StopClear, Stops
    <3> QED
      BY <2>5, <3>1, <3>2
  <2> QED
    BY <2>1, <2>2, <2>3, <2>4, <2>5, <2>6, <2>7, Zenon DEF Next, Network
<1> QED
  BY <1>1, <1>2, StopsStart

LEMMA FlowingKept ==
  ASSUME TypeInv, AppTypes, Keyed, Order, Aborting, InOrder, Pushed, Flowing, Takes, [Next]_vars,
         lost = {}, lost' = {}, play_as_list, ~StopClear
  PROVE  Flowing'
<1>1. CASE AesCallback
  BY <1>1, FlowingKey
<1>2. CASE SubstreamData
  BY <1>2, FlowingData
<1>3. CASE SubstreamEnd
  BY <1>3, FlowingEnd
<1>4. CASE AesKeyError \/ SubstreamError
  BY <1>4, FaultLoses
<1>5. CASE EndIoctl \/ OfferEnd \/ Push \/ PushNull \/ Signal \/ ChannelEnd
  BY <1>5, FlowingBuffer
<1>11. CASE AdvanceTrack
  BY <1>11, FlowingAdvance
<1>6. CASE AfterEnd
  BY <1>6, FlowingAfter
<1>7. CASE TakeStart
  BY <1>7, FlowingStart
<1>8. CASE TakeData
  BY <1>8, FlowingTaken
<1>9. CASE TakeEnd
  BY <1>9, FlowingTakeEnd
<1>10. CASE (Decoder \/ UseFreed \/ UNCHANGED vars) /\ ~TakeStart /\ ~TakeData /\ ~TakeEnd
  <2>1. npc' = npc /\ buff' = buff /\ arrived' = arrived /\ track' = track /\ offset' = offset
    BY <1>10, DecoderSteps, Zenon
  <2>2. fifo' = fifo
    BY <1>10, Zenon DEF Decoder, UseFreed, GetPcm, FillFifo, Choose, SayBusy, SendRequest, Decode, Lock,
                        CondWait, CondWake, NothingThere, LeaveEnd, Return, StopLook, StopAbort, StopWait,
                        Report, vars, fifoVars
  <2>3. dlabort => dlabort'
    <3>1. CASE StopAbort
      BY <3>1 DEF StopAbort
    <3>2. CASE ~StopAbort /\ ~SendRequest
      BY <1>10, <3>2, DecoderSteps, Zenon
    <3>3. CASE SendRequest
      BY <3>3, Zenon DEF SendRequest, session
    <3> QED
      BY <3>1, <3>2, <3>3
  <2>4. used' = used /\ goal' = goal
    BY <2>2, UsedSame, Zenon DEF Takes
  <2>5. early' = early
    BY <1>10, EarlySame
  <2> QED
    BY <2>1, <2>2, <2>3, <2>4, <2>5, FlowingSame, Zenon
<1> QED
  BY <1>1, <1>2, <1>3, <1>4, <1>5, <1>6, <1>7, <1>8, <1>9, <1>10, <1>11, Zenon DEF Next, Network

-----------------------------------------------------------------------------
(* A playback goes on, or comes to rest. *)

\* With no substream under way only a key can be pending.
LEMMA OnlyKeys ==
  ASSUME TypeInv, Keyed, Order, StreamsOf(pending) = {}
  PROVE  /\ arrived = 0 /\ (track = NoTrack => pending = <<>>)
         /\ pending # <<>> => KeyPending /\ offset = 0
<1>1. pending \in Seq(Requests)
  BY DEF TypeInv, TypeOK, NetTypes, Requests
<1>2. \A i \in DOMAIN pending : pending[i].kind = "key" /\ pending[i].track \in TrackNo
  <2>1. \A i \in DOMAIN pending : pending[i] \in Requests
    BY <1>1
  <2>2. \A q \in Requests : q.kind \in {"key", "stream"} /\ q.track \in TrackNo
    BY DEF Requests
  <2>3. \A i \in DOMAIN pending : pending[i].kind # "stream"
    BY Zenon DEF StreamsOf
  <2> QED
    BY <2>1, <2>2, <2>3
<1>3. pending # <<>> => 1 \in DOMAIN pending /\ pending[1] = Head(pending)
  BY <1>1
<1>4. arrived = 0
  BY <1>2, <1>3 DEF Order, Arriving
<1>5. track = NoTrack => pending = <<>>
  BY <1>2, <1>3, NoTrackIsNone DEF Keyed
<1>6. pending # <<>> => KeyPending
  BY <1>2, <1>3 DEF KeyPending
<1> QED
  BY <1>4, <1>5, <1>6 DEF Order, KeyAtStart

\* D's snd_stop empties the queue: the next track is awaited from its beginning, or nothing comes any more.
LEMMA ClearPlays ==
  ASSUME TypeInv, AppTypes, Fetch, Keyed, Order, InOrder, DataComes, Flowing, Halting, Takes,
         lost = {}, StopClear
  PROVE  (Flowing' /\ Halting') \/ Resting'
<1>1. /\ fifo' = <<>> /\ dlabort' = FALSE /\ dpc = "stop clear" /\ dpc' = "report" /\ pending' = pending
      /\ npc' = npc /\ buff' = buff /\ track' = track /\ offset' = offset /\ arrived' = arrived
      /\ got' = got /\ early' = early
  BY Zenon DEF StopClear, net, nvars, call, history
<1>2. StreamsOf(pending) = {} /\ (Ending => track = NoTrack /\ npc \notin {"advance", "end"})
  BY <1>1 DEF Fetch
<1>3. /\ got = 0
      /\ track # NoTrack => early /\ UsedWhole /\ (track = DueTrack \/ track = DueTrack + 1)
      /\ fifo # <<>> => Head(fifo).cmd = "START"
  BY <1>1 DEF Halting, Stops
<1>4. used' = used /\ goal' = goal
  BY <1>3 DEF Takes
<1>5. Halting'
  BY <1>1 DEF Halting, Stops
<1>6. arrived = 0 /\ (track = NoTrack => pending = <<>>) /\ (pending # <<>> => KeyPending /\ offset = 0)
  BY <1>2, OnlyKeys
<1>7. npc = "push" => Follow(buff)
  BY DEF InOrder, Before
<1>8. npc \in {"push", "signal"} => buff.cmd # "DATA"
  BY <1>2 DEF DataComes
<1>9. buff.cmd \in Cmd /\ buff.track \in TrackNo /\ buff.track # NoTrack
  BY NoTrackIsNone DEF TypeInv, TypeOK, QueueTypes, Buffer
<1>10. CASE track = NoTrack
  <2> DEFINE Brings == npc = "push" \/ HoldingEnd
  <2>1. HoldingEnd => buff.cmd = "END" /\ NextTrack(buff.track) = NoTrack
    <3>1. HoldingEnd => Ending /\ EndingTrack
      BY DEF Ending, EndingTrack, HoldingEnd
    <3> QED
      BY <1>2, <1>10, <3>1 DEF Order, OneEnd
  <2>2. Brings => buff.cmd = "END" /\ NextTrack(buff.track) = NoTrack
    BY <1>7, <1>8, <1>9, <1>10, <2>1 DEF Follow, Cmd
  <2>3. Brings => buff.track = Len(Tracks)
    <3>1. \A n \in Nat : \A t \in 1..n : ~(t < n) => t = n
      OBVIOUS
    <3>2. \A t \in Nat : t + 1 # NoTrack
      BY DEF NoTrack
    <3>3. buff.track \in Nat /\ Len(Tracks) \in Nat
      BY <1>9, SizesAssumption DEF TrackNo
    <3> QED
      BY <1>9, <2>2, <3>1, <3>2, <3>3 DEF NextTrack, TrackNo
  <2>4. Brings => Front(buff)'
    BY <1>1, <2>2, <2>3 DEF Front
  <2>5. Flowing'
    BY <1>1, <1>10, <2>4 DEF Flowing, HoldingEnd
  <2> QED
    BY <1>5, <2>5
<1>11. CASE track # NoTrack /\ pending # <<>>
  <2>1. Begins(track)'
    BY <1>1, <1>3, <1>4, <1>11 DEF Begins, DueTrack, UsedWhole
  <2>2. Awaited'
    <3>1. offset = 0 /\ arrived = 0
      BY <1>6, <1>11, Zenon
    <3>2. offset' = offset /\ arrived' = arrived
      BY <1>1
    <3>3. offset' + arrived' = 0
      BY <3>1, <3>2
    <3> QED
      BY <2>1, <3>3 DEF Awaited
  <2>3. KeyPending
    BY <1>6, <1>11
  <2>4. npc # "push" /\ ~HoldingEnd
    <3>1. npc = "push" /\ buff.cmd = "END" => Ending
      BY DEF Ending
    <3>2. HoldingEnd => Ending
      BY DEF Ending, HoldingEnd
    <3> QED
      BY <1>2, <1>7, <1>8, <1>9, <1>11, <2>3, <3>1, <3>2 DEF Follow, Cmd
  <2>5. Flowing'
    BY <1>1, <2>2, <2>4 DEF Flowing, HoldingEnd
  <2> QED
    BY <1>5, <2>5
<1>12. CASE track # NoTrack /\ pending = <<>>
  <2>1. npc \in {"idle", "push", "signal"} /\ (npc \in {"push", "signal"} => buff.cmd = "START")
    BY <1>2, <1>8, <1>9, <1>12 DEF Ending, TypeInv, TypeOK, PlaceTypes, Cmd
  <2>2. CASE npc = "push"
    <3>1. track = buff.track /\ buff.cmd = "START"
      BY <1>7, <2>1, <2>2 DEF Follow
    <3>2. Front(buff)'
      BY <1>1, <1>3, <1>4, <1>12, <3>1 DEF Front, Begins, DueTrack, UsedWhole
    <3>3. Flowing'
      BY <1>1, <2>2, <3>2 DEF Flowing, Otherwise, HoldingEnd
    <3> QED
      BY <1>5, <3>3
  <2>3. CASE npc # "push"
    BY <1>1, <1>3, <1>12, <2>1, <2>3 DEF Resting
  <2> QED
    BY <2>2, <2>3
<1> QED
  BY <1>10, <1>11, <1>12

LEMMA PlayingKept ==
  ASSUME TypeInv, AppTypes, Playing, Takes, [Next]_vars, lost = {}, lost' = {}, play_as_list, npc # "dead"
  PROVE  Playing' \/ Resting'
<1>1. /\ Fetch /\ Keyed /\ Order /\ GoodKeys /\ Aborting /\ InOrder /\ Pushed /\ DataComes /\ Flowing
      /\ Halting
  BY DEF Playing
<1>2. /\ Fetch' /\ Keyed' /\ Order' /\ GoodKeys' /\ Aborting' /\ InOrder' /\ Pushed' /\ DataComes'
  BY <1>1, FetchKept, KeyedKept, OrderKept, GoodKept, AbortingKept, InOrderKept, PushedKept, DataComesKept
<1>3. CASE StopClear
  BY <1>1, <1>2, <1>3, ClearPlays, Zenon DEF Playing
<1>4. CASE ~StopClear
  <2>1. Flowing' /\ Halting'
    BY <1>1, <1>4, FlowingKept, HaltingKept
  <2> QED
    BY <1>2, <2>1, Zenon DEF Playing
<1> QED
  BY <1>3, <1>4

-----------------------------------------------------------------------------
(* D's sleep in snd_fill_fifo. *)

\* It ends without a substream under way, and leaves all but dlstate and D's place as it is.
LEMMA WaitEnds ==
  ASSUME TypeInv, FillWait
  PROVE  /\ dlstate # "BUSY" /\ dlstate' = "DRAINING" /\ dpc = "fill wait" /\ dpc' \in {"idle", "decode"}
         /\ npc' = npc /\ buff' = buff /\ pending' = pending /\ arrived' = arrived
         /\ track' = track /\ offset' = offset /\ dlabort' = dlabort /\ play_as_list' = play_as_list
         /\ fifo' = fifo /\ totbytes' = totbytes /\ lost' = lost /\ aes' = aes /\ early' = early /\ got' = got
<1>1. dlstate # "BUSY" /\ dlstate' = "DRAINING" /\ dpc = "fill wait" /\ dpc' = back
  BY Zenon DEF FillWait
<1>2. dpc' \in {"idle", "decode"}
  BY <1>1 DEF TypeInv, TypeOK, PlaceTypes
<1>3. /\ npc' = npc /\ buff' = buff /\ pending' = pending /\ arrived' = arrived
      /\ track' = track /\ offset' = offset /\ dlabort' = dlabort /\ play_as_list' = play_as_list
      /\ fifo' = fifo /\ totbytes' = totbytes /\ lost' = lost /\ aes' = aes /\ early' = early /\ got' = got
  BY Zenon DEF FillWait, net, nvars, fifoVars, faultVars, call, history
<1> QED
  BY <1>1, <1>2, <1>3, Zenon

LEMMA WaitTypes ==
  ASSUME TypeInv, FillWait
  PROVE  TypeInv'
<1>1. dpc' \in {"idle", "decode"} /\ dlstate' = "DRAINING"
  BY WaitEnds
<1>2. FlagTypes' /\ NetTypes' /\ QueueTypes' /\ Consumed' /\ WholePackets'
  <2>1. FlagTypes' /\ NetTypes'
    BY Zenon DEF TypeInv, TypeOK, FillWait, FlagTypes, NetTypes, net, faultVars, call, history
  <2>2. QueueTypes' /\ Consumed' /\ WholePackets'
    BY Zenon DEF TypeInv, TypeOK, FillWait, QueueTypes, Consumed, WholePackets, fifoVars, nvars, call, history
  <2> QED
    BY <2>1, <2>2
<1>3. PlaceTypes'
  BY <1>1 DEF TypeInv, TypeOK, FillWait, PlaceTypes, fifoVars, nvars, call
<1> QED
  BY <1>2, <1>3 DEF TypeInv, TypeOK

LEMMA WaitPlays ==
  ASSUME TypeInv, AppTypes, Playing, Takes, FillWait
  PROVE  Playing'
<1>1. /\ dlstate # "BUSY" /\ dlstate' = "DRAINING" /\ dpc = "fill wait" /\ dpc' \in {"idle", "decode"}
      /\ npc' = npc /\ buff' = buff /\ pending' = pending /\ arrived' = arrived
      /\ track' = track /\ offset' = offset /\ dlabort' = dlabort /\ play_as_list' = play_as_list
      /\ fifo' = fifo /\ lost' = lost /\ aes' = aes /\ early' = early
  BY WaitEnds
<1>2. used' = used /\ goal' = goal
  BY <1>1, UsedSame, Zenon DEF Takes
<1>3. Fetch'
  <2>1. Ending' <=> Ending
    BY <1>1, Zenon DEF Ending
  <2>2. /\ StreamsOf(pending) = {} /\ AtMostOne(pending)
        /\ Ending => track = NoTrack /\ npc \notin {"advance", "end"}
    BY <1>1 DEF Playing, Fetch
  <2>3. StreamsOf(pending)' = {} /\ AtMostOne(pending)'
    BY <1>1, <2>2, Zenon DEF StreamsOf, AtMostOne
  <2> QED
    BY <1>1, <2>1, <2>2, <2>3 DEF Fetch
<1>4. Keyed'
  BY <1>1, Zenon DEF Playing, Keyed, EndingTrack, HoldingEnd, HasKey, KeyPending, StreamsOf
<1>5. GoodKeys'
  BY <1>1, Zenon DEF Playing, GoodKeys, GoodKey
<1>6. Order'
  BY <1>1, OrderSame, Zenon DEF Playing, EndingTrack
<1>7. Aborting'
  <2>1. ~dlabort
    BY <1>1 DEF Playing, Aborting
  <2> QED
    BY <1>1, <2>1 DEF Aborting
<1>8. InOrder' /\ Pushed'
  BY <1>1, Zenon DEF Playing, InOrder, Gapless, Before, AtEnd, Behind, Tip, Follow, Precedes, KeyPending,
                     EndingTrack, HoldingEnd, Otherwise, Pushed
<1>9. DataComes'
  BY <1>1, Zenon DEF Playing, DataComes, StreamsOf
<1>10. Flowing'
  BY <1>1, <1>2, FlowingSame, Zenon DEF Playing
<1>11. Halting'
  BY <1>1 DEF Halting, Stops
<1> QED
  BY <1>3, <1>4, <1>5, <1>6, <1>7, <1>8, <1>9, <1>10, <1>11, Zenon DEF Playing

LEMMA WaitRests ==
  ASSUME TypeInv, Resting, FillWait
  PROVE  Resting' /\ npc' = npc /\ track' = track /\ offset' = offset /\ dlabort' = dlabort
<1>1. /\ dpc' \in {"idle", "decode"} /\ npc' = npc /\ buff' = buff /\ pending' = pending /\ fifo' = fifo
      /\ track' = track /\ offset' = offset /\ dlabort' = dlabort
  BY WaitEnds
<1> QED
  BY <1>1 DEF Resting

-----------------------------------------------------------------------------
(* The steps of A: types and the byte count. *)

\* The first START of the queue.
LEMMA FirstStart ==
  ASSUME TypeInv, Starts # {}
  PROVE  /\ Min(Starts) \in 1..Len(fifo) /\ fifo[Min(Starts)].cmd = "START"
         /\ fifo[Min(Starts)] \in Buffer
         /\ fifo # <<>> /\ (Head(fifo).cmd = "START" => Min(Starts) = 1)
<1>1. fifo \in Seq(Buffer)
  BY DEF TypeInv, TypeOK, QueueTypes
<1>2. Starts \in SUBSET Nat
  BY <1>1 DEF Starts
<1>3. \E x \in Starts : \A y \in Starts : x <= y
  BY <1>2, LeastNumber
<1>4. Min(Starts) \in Starts /\ \A y \in Starts : Min(Starts) <= y
  BY <1>3 DEF Min
<1>5. Min(Starts) \in 1..Len(fifo) /\ fifo[Min(Starts)].cmd = "START"
  BY <1>1, <1>4 DEF Starts
<1>6. fifo[Min(Starts)] \in Buffer /\ fifo # <<>>
  BY <1>1, <1>5
<1>7. Head(fifo).cmd = "START" => 1 \in Starts
  <2>1. 1 \in DOMAIN fifo /\ fifo[1] = Head(fifo)
    BY <1>1, <1>6
  <2> QED
    BY <2>1 DEF Starts
<1> QED
  BY <1>4, <1>5, <1>6, <1>7

\* What snd_next keeps of the queue.
Kept == IF Starts = {} THEN Len(fifo) + 1 ELSE Min(Starts)

LEMMA KeptQueue ==
  ASSUME TypeInv
  PROVE  LET t == SubSeq(fifo, Kept, Len(fifo))
         IN  /\ Kept \in 1..(Len(fifo) + 1) /\ t \in Seq(Buffer) /\ Len(t) = Len(fifo) - Kept + 1
             /\ \A i \in DOMAIN t : i \in Int /\ i + Kept - 1 \in DOMAIN fifo /\ t[i] = fifo[i + Kept - 1]
             /\ (t = <<>>) <=> (Starts = {})
<1> DEFINE t == SubSeq(fifo, Kept, Len(fifo))
<1>1. fifo \in Seq(Buffer) /\ Len(fifo) \in Nat
  BY DEF TypeInv, TypeOK, QueueTypes
<1>2. Kept \in 1..(Len(fifo) + 1) /\ (Starts # {} => Kept \in 1..Len(fifo)) /\ (Starts = {} => Kept = Len(fifo) + 1)
  BY <1>1, FirstStart DEF Kept
<1> HIDE DEF Kept
<1>3. \A i \in Kept..Len(fifo) : fifo[i] \in Buffer
  BY <1>1, <1>2
<1>4. /\ t \in Seq(Buffer) /\ Len(t) = (IF Kept <= Len(fifo) THEN Len(fifo) - Kept + 1 ELSE 0)
      /\ \A i \in 1..(Len(fifo) - Kept + 1) : t[i] = fifo[Kept + i - 1]
  BY <1>1, <1>2, <1>3, SubSeqProperties
<1> HIDE DEF t
<1>5. Len(t) = Len(fifo) - Kept + 1
  BY <1>1, <1>2, <1>4
<1>6. \A i \in DOMAIN t : i \in Int /\ i + Kept - 1 \in DOMAIN fifo /\ t[i] = fifo[i + Kept - 1]
  <2>1. DOMAIN t = 1..(Len(fifo) - Kept + 1)
    BY <1>4, <1>5
  <2>2. ASSUME NEW i \in DOMAIN t PROVE i \in Int /\ i + Kept - 1 \in DOMAIN fifo /\ t[i] = fifo[i + Kept - 1]
    <3>1. i \in 1..(Len(fifo) - Kept + 1) /\ Kept + i - 1 = i + Kept - 1
      BY <1>1, <1>2, <2>1, <2>2
    <3>2. t[i] = fifo[i + Kept - 1]
      BY <1>4, <3>1
    <3> QED
      BY <1>1, <1>2, <3>1, <3>2
  <2> QED
    BY <2>2
<1>7. (t = <<>>) <=> (Starts = {})
  <2>1. (t = <<>>) <=> (Len(t) = 0)
    BY <1>4
  <2> QED
    BY <1>1, <1>2, <1>5, <2>1
<1> QED
  BY <1>2, <1>4, <1>5, <1>6, <1>7 DEF t

\* What is in a queue behind its first k - 1 buffers.
LEMMA SumSuffix ==
  ASSUME NEW s \in Seq(Buffer), NEW f \in [0..Len(s) -> Int], Counts(f, s), NEW k \in 1..(Len(s) + 1),
         NEW t \in Seq(Buffer), Len(t) = Len(s) - k + 1, \A i \in DOMAIN t : t[i] = s[i + k - 1]
  PROVE  Sum(t, f[Len(s)] - f[k - 1])
<1> DEFINE g == [i \in 0..Len(t) |-> f[i + k - 1] - f[k - 1]]
<1>0. Len(s) \in Nat /\ DOMAIN t = 1..Len(t)
  OBVIOUS
<1>1. \A i \in 1..Len(s) : f[i] = f[i - 1] + s[i].len
  BY <1>0, CountAt, Zenon
<1>2. \A i \in 0..Len(t) : i + k - 1 \in 0..Len(s)
  BY <1>0
<1>3. k - 1 \in 0..Len(s) /\ f[k - 1] \in Int /\ \A i \in 0..Len(t) : f[i + k - 1] \in Int
  <2>1. k - 1 \in 0..Len(s)
    BY <1>0
  <2>2. \A j \in 0..Len(s) : f[j] \in Int
    OBVIOUS
  <2> QED
    BY <1>2, <2>1, <2>2, Zenon
<1>4. g \in [0..Len(t) -> Int]
  BY <1>3
<1>5. g[Len(t)] = f[Len(s)] - f[k - 1]
  <2>1. Len(t) + k - 1 = Len(s) /\ Len(t) \in 0..Len(t)
    BY <1>0
  <2> QED
    BY <2>1
<1>6. ASSUME NEW i \in 0..Len(t) PROVE g[i] = IF i = 0 THEN 0 ELSE g[i - 1] + t[i].len
  <2>1. CASE i = 0
    <3>1. g[0] = f[0 + k - 1] - f[k - 1] /\ 0 + k - 1 = k - 1
      BY <2>1
    <3>2. g[0] = 0
      BY <1>3, <3>1
    <3> QED
      BY <2>1, <3>2
  <2>2. CASE i # 0
    <3> DEFINE j == i + k - 1
    <3>0. i \in Int /\ k \in Int /\ 1 <= i /\ i <= Len(t) /\ 1 <= k /\ Len(t) = Len(s) - k + 1 /\ Len(t) \in Nat
      BY <1>0, <2>2
    <3>1. i \in 1..Len(t) /\ i - 1 \in 0..Len(t) /\ (i - 1) + k - 1 = j - 1 /\ j \in 1..Len(s)
      BY <1>0, <3>0
    <3> HIDE DEF j
    <3>2. f[j] = f[j - 1] + s[j].len
      BY <1>1, <3>1
    <3>3. t[i] = s[j]
      <4>1. i \in DOMAIN t
        BY <1>0, <3>1
      <4> QED
        BY <4>1 DEF j
    <3>4. s[j].len \in Int
      <4>1. s[j] \in Buffer
        BY <3>1
      <4> QED
        BY <4>1 DEF Buffer
    <3>5. g[i] = f[j] - f[k - 1]
      BY <3>1 DEF j
    <3>6. g[i - 1] = f[j - 1] - f[k - 1]
      BY <3>1
    <3>7. f[j - 1] \in Int
      <4>1. j - 1 \in 0..Len(s)
        BY <1>0, <3>1
      <4> QED
        BY <4>1
    <3> HIDE DEF g
    <3>8. (f[j - 1] + s[j].len) - f[k - 1] = (f[j - 1] - f[k - 1]) + s[j].len
      BY <1>3, <3>4, <3>7
    <3>9. g[i] = g[i - 1] + t[i].len
      <4>1. g[i] = (f[j - 1] + s[j].len) - f[k - 1]
        BY <3>2, <3>5, Zenon
      <4>2. g[i - 1] + t[i].len = (f[j - 1] - f[k - 1]) + s[j].len
        BY <3>3, <3>6, Zenon
      <4> QED
        BY <3>8, <4>1, <4>2, Zenon
    <3> QED
      BY <2>2, <3>9
  <2> QED
    BY <2>1, <2>2
<1>7. Counts(g, t)
  BY <1>6 DEF Counts
<1> HIDE DEF g
<1> QED
  BY <1>4, <1>5, <1>7 DEF Sum

\* The calls of A leave what the other threads do next as it is, and a loss remains.
Calls == App \/ CallStop \/ CallPlay \/ CallNext

LEMMA CallsLeave ==
  ASSUME Calls
  PROVE  /\ npc' = npc /\ buff' = buff /\ dpc' = dpc /\ back' = back /\ use' = use /\ got' = got
         /\ sawEnd' = sawEnd /\ ended' = ended /\ lock' = lock /\ aes' = aes /\ lastcmd' = lastcmd
         /\ play_as_list' = play_as_list /\ arrived' = arrived /\ faults' = faults
BY Zenon DEF Calls, App, Stop, LookState, Abort, Await, Drain, Clear, Rewind, SetTrack, AskKey, Skip, Restart,
   ReadTrack, Advance, Look, PlayNext, CallStop, CallPlay, CallNext, vars, fifoVars, session, net, nvars, dvars,
   call, history, faultVars

\* The calls by what they touch.
Untouched == LookState \/ Await \/ ReadTrack \/ CallStop \/ CallPlay \/ CallNext \/ Look \/ PlayNext
Session == Abort \/ Drain \/ Rewind \/ Restart \/ Advance \/ SetTrack

LEMMA CallsTouch ==
  /\ Calls => Untouched \/ Session \/ AskKey \/ Clear \/ Skip
  /\ Untouched => UNCHANGED vars
BY Zenon DEF Calls, App, Stop, Untouched, Session, LookState, Await, ReadTrack, CallStop, CallPlay,
   CallNext, Look, PlayNext

LEMMA SessionLeaves ==
  ASSUME Session
  PROVE  /\ fifo' = fifo /\ consumed' = consumed /\ totbytes' = totbytes /\ pending' = pending
         /\ early' = early /\ (~SetTrack => lost' = lost)
BY Zenon DEF Session, Abort, Drain, Rewind, Restart, Advance, SetTrack, fifoVars, net, dvars, history,
   faultVars

\* The bytes of what snd_next drops.
LEMMA KeptBytes ==
  ASSUME TypeInv, Counted
  PROVE  Bytes[Kept - 1] \in Int /\ Sum(SubSeq(fifo, Kept, Len(fifo)), totbytes - Bytes[Kept - 1])
<1> DEFINE t == SubSeq(fifo, Kept, Len(fifo))
<1>1. fifo \in Seq(Buffer) /\ Len(fifo) \in Nat
  BY DEF TypeInv, TypeOK, QueueTypes
<1>2. Counts(Bytes, fifo) /\ Bytes \in [0..Len(fifo) -> Int] /\ Bytes[Len(fifo)] = totbytes
  BY <1>1, SumIsBytes, Zenon DEF Counted
<1>3. /\ Kept \in 1..(Len(fifo) + 1) /\ t \in Seq(Buffer) /\ Len(t) = Len(fifo) - Kept + 1
      /\ \A i \in DOMAIN t : t[i] = fifo[i + Kept - 1]
  BY KeptQueue, Zenon
<1> HIDE DEF t
<1>4. Sum(t, Bytes[Len(fifo)] - Bytes[Kept - 1])
  BY <1>1, <1>2, <1>3, SumSuffix, Zenon
<1>5. Kept - 1 \in 0..Len(fifo)
  BY <1>1, <1>3
<1>6. Bytes[Kept - 1] \in Int
  BY <1>2, <1>5
<1> QED
  BY <1>2, <1>4, <1>6, Zenon DEF t

\* The variables of N and D keep their types.
LEMMA CallTypes ==
  ASSUME TypeInv, AppTypes, Counted, Calls
  PROVE  TypeInv'
<1>0. /\ npc' = npc /\ buff' = buff /\ dpc' = dpc /\ back' = back /\ use' = use /\ got' = got /\ sawEnd' = sawEnd
      /\ ended' = ended /\ lock' = lock /\ aes' = aes /\ lastcmd' = lastcmd
      /\ play_as_list' = play_as_list /\ arrived' = arrived /\ faults' = faults
  BY CallsLeave
<1>1. FlagTypes /\ PlaceTypes /\ QueueTypes /\ NetTypes /\ Consumed /\ WholePackets
  BY DEF TypeInv, TypeOK
<1>2. WholePackets'
  BY <1>0, <1>1, Zenon DEF WholePackets
<1>3. FlagTypes' /\ PlaceTypes'
  <2>1. /\ dlabort' \in BOOLEAN /\ ready' \in BOOLEAN /\ early' \in BOOLEAN
        /\ dlstate' = dlstate \/ dlstate' = "DRAINING"
        /\ vf' = vf \/ vf' = "null"
    <3>1. CASE Untouched
      BY <1>1, <3>1, CallsTouch, Zenon DEF FlagTypes, vars, session, dvars, history
    <3>2. CASE Session
      BY <1>1, <3>2, Zenon DEF FlagTypes, Session, Abort, Drain, Rewind, Restart, Advance, SetTrack,
         dvars, history
    <3>3. CASE AskKey \/ Skip
      BY <1>1, <3>3, Zenon DEF FlagTypes, AskKey, Skip, session, dvars, history
    <3>4. CASE Clear
      BY <1>1, <3>4 DEF FlagTypes, Clear
    <3> QED
      BY <3>1, <3>2, <3>3, <3>4, CallsTouch, Zenon
  <2>2. FlagTypes'
    BY <1>0, <1>1, <2>1, Zenon DEF FlagTypes
  <2>3. PlaceTypes'
    <3>1. dlstate' \in {"FILLING", "BUSY", "DRAINING", "END_OF_LIST"} /\ vf' \in {"null", "opening", "open", "broken"}
      BY <1>1, <2>1 DEF PlaceTypes
    <3> QED
      BY <1>0, <1>1, <3>1, Zenon DEF PlaceTypes
  <2> QED
    BY <2>2, <2>3
<1>4. QueueTypes' /\ Consumed'
  <2>1. CASE fifo' = fifo /\ consumed' = consumed /\ totbytes' = totbytes
    BY <1>0, <1>1, <2>1, Zenon DEF QueueTypes, Consumed
  <2>2. CASE Clear
    <3>1. fifo' = <<>> /\ consumed' = 0 /\ totbytes' = 0
      BY <2>2, Zenon DEF Clear
    <3> QED
      BY <1>0, <1>1, <3>1, SizesAssumption DEF QueueTypes, Consumed
  <2>3. CASE Skip
    <3>1. fifo' = SubSeq(fifo, Kept, Len(fifo)) /\ consumed' = 0 /\ totbytes' = totbytes - Bytes[Kept - 1]
      BY <2>3, Zenon DEF Skip, Kept
    <3>2. fifo' \in Seq(Buffer)
      BY <3>1, KeptQueue, Zenon
    <3>3. totbytes' \in Int
      BY <1>1, <3>1, KeptBytes DEF QueueTypes
    <3> QED
      BY <1>0, <1>1, <3>1, <3>2, <3>3, SizesAssumption DEF QueueTypes, Consumed
  <2>4. CASE Untouched \/ AskKey
    <3>1. fifo' = fifo /\ consumed' = consumed /\ totbytes' = totbytes
      BY <2>4, CallsTouch, Zenon DEF AskKey, vars, fifoVars
    <3> QED
      BY <2>1, <3>1
  <2>5. CASE Session
    BY <2>1, <2>5, SessionLeaves
  <2> QED
    BY <2>2, <2>3, <2>4, <2>5, CallsTouch
<1>5. NetTypes'
  <2>1. pending \in Seq(Requests) /\ track \in TrackNo \cup {NoTrack} /\ goal \in TrackNo \cup {NoTrack}
    BY <1>1 DEF NetTypes, Requests, AppTypes
  <2>2. pending' \in Seq(Requests)
    <3>1. CASE AskKey
      <4>1. track # NoTrack => Append(pending, KeyRequest(track)) \in Seq(Requests)
        BY <1>1, <2>1, NewRequests
      <4>2. pending' = pending \/ (track # NoTrack /\ pending' = Append(pending, KeyRequest(track)))
        BY <3>1, Zenon DEF AskKey
      <4> QED
        BY <2>1, <4>1, <4>2, Zenon
    <3>2. CASE Untouched \/ Session \/ Clear \/ Skip
      <4>1. pending' = pending
        BY <3>2, CallsTouch, SessionLeaves, Zenon DEF Clear, Skip, vars, net
      <4> QED
        BY <2>1, <4>1
    <3> QED
      BY <3>1, <3>2, CallsTouch
  <2>3. track' \in TrackNo \cup {NoTrack}
    <3>1. track' = track \/ track' = goal \/ track' = NextTrack(goal)
      <4>1. CASE Untouched
        BY <4>1, CallsTouch, Zenon DEF vars, session
      <4>2. CASE Session
        BY <4>2, Zenon DEF Session, Abort, Drain, Rewind, Restart, Advance, SetTrack
      <4>3. CASE AskKey \/ Clear \/ Skip
        BY <4>3, Zenon DEF AskKey, Clear, Skip, session
      <4> QED
        BY <4>1, <4>2, <4>3, CallsTouch, Zenon
    <3>2. NextTrack(NoTrack) \in TrackNo \cup {NoTrack}
      BY SizesAssumption DEF NextTrack, TrackNo, NoTrack
    <3> QED
      BY <2>1, <3>1, <3>2, NextTrackType
  <2>4. offset' = offset \/ offset' = 0
    <3>1. CASE Untouched
      BY <3>1, CallsTouch, Zenon DEF vars, session
    <3>2. CASE Session
      BY <3>2, Zenon DEF Session, Abort, Drain, Rewind, Restart, Advance, SetTrack
    <3>3. CASE AskKey \/ Clear \/ Skip
      BY <3>3, Zenon DEF AskKey, Clear, Skip, session
    <3> QED
      BY <3>1, <3>2, <3>3, CallsTouch, Zenon
  <2>5. lost' = lost \/ \E t \in TrackNo \cup {NoTrack} : lost' = lost \cup {<<"key", t>>}
    <3>1. CASE Untouched \/ Clear \/ Skip
      BY <3>1, CallsTouch, Zenon DEF Clear, Skip, vars, faultVars
    <3>2. CASE AskKey
      BY <2>1, <3>2, Zenon DEF AskKey
    <3>3. CASE Session
      BY <2>1, <3>3, SessionLeaves, Zenon DEF SetTrack
    <3> QED
      BY <3>1, <3>2, <3>3, CallsTouch, Zenon
  <2>6. lost' \subseteq ({<<"stream">>} \cup ({"key"} \X (TrackNo \cup {NoTrack})))
    BY <1>1, <2>5 DEF NetTypes
  <2>7. offset' \in Nat
    BY <1>1, <2>4 DEF NetTypes
  <2> QED
    BY <1>0, <1>1, <2>2, <2>3, <2>6, <2>7, Zenon DEF NetTypes, Requests
<1> QED
  BY <1>2, <1>3, <1>4, <1>5 DEF TypeInv, TypeOK

\* What is queued keeps its order, and is counted.
LEMMA CallCounts ==
  ASSUME TypeInv, Commands, Counted, Arriving, Calls
  PROVE  Commands' /\ Counted' /\ Arriving'
<1>0. buff' = buff /\ arrived' = arrived
  BY CallsLeave
<1>1. ASSUME fifo' = fifo, totbytes' = totbytes PROVE Commands' /\ Counted'
  BY <1>0, <1>1, Zenon DEF Commands, Bare, Counted, Sum, Counts
<1>2. ASSUME pending' = pending PROVE Arriving'
  BY <1>0, <1>2, Zenon DEF Arriving
<1>3. CASE Untouched
  BY <1>1, <1>2, <1>3, CallsTouch, Zenon DEF vars, fifoVars, net
<1>4. CASE Session
  BY <1>1, <1>2, <1>4, SessionLeaves, Zenon
<1>5. CASE AskKey
  <2>1. fifo' = fifo /\ totbytes' = totbytes
    BY <1>5, Zenon DEF AskKey, fifoVars
  <2>2. pending' = pending \/ (track # NoTrack /\ pending' = Append(pending, KeyRequest(track)))
    BY <1>5, Zenon DEF AskKey
  <2>3. ASSUME track # NoTrack, pending' = Append(pending, KeyRequest(track)) PROVE Arriving'
    <3>1. pending \in Seq(Requests) /\ KeyRequest(track) \in Requests
      BY <2>3, NewRequests DEF TypeInv, TypeOK, NetTypes, Requests
    <3>2. CASE pending = <<>>
      BY <1>0, <3>2 DEF Arriving
    <3>3. CASE pending # <<>>
      <4>1. pending' # <<>> /\ Head(pending') = Head(pending)
        BY <2>3, <3>1, <3>3, HeadTailAppend
      <4> QED
        BY <1>0, <4>1 DEF Arriving
    <3> QED
      BY <3>2, <3>3
  <2> QED
    BY <1>1, <1>2, <2>1, <2>2, <2>3
<1>6. CASE Clear
  <2>1. fifo' = <<>> /\ totbytes' = 0 /\ pending' = pending
    BY <1>6, Zenon DEF Clear, net
  <2>2. Counted'
    BY <2>1, SumNothing, Zenon DEF Counted, Sum, Counts
  <2>3. Commands'
    BY <1>0, <2>1 DEF Commands, Bare
  <2> QED
    BY <1>2, <2>1, <2>2, <2>3
<1>7. CASE Skip
  <2>1. /\ fifo' = SubSeq(fifo, Kept, Len(fifo)) /\ totbytes' = totbytes - Bytes[Kept - 1]
        /\ pending' = pending
    BY <1>7, Zenon DEF Skip, Kept, net
  <2>2. Sum(fifo', totbytes')
    BY <2>1, KeptBytes, Zenon
  <2>3. Counted'
    BY <2>2, Zenon DEF Counted, Sum, Counts
  <2>4. \A i \in DOMAIN fifo' : i + Kept - 1 \in DOMAIN fifo /\ fifo'[i] = fifo[i + Kept - 1]
    BY <2>1, KeptQueue, Zenon
  <2>5. Commands'
    BY <1>0, <2>4, Zenon DEF Commands, Bare
  <2> QED
    BY <1>2, <2>1, <2>3, <2>5
<1> QED
  BY <1>3, <1>4, <1>5, <1>6, <1>7, CallsTouch

\* Where A is, what it calls and what is taken keep their types.
LEMMA AppTypesKept ==
  ASSUME TypeInv, AppTypes, PlayerNext
  PROVE  AppTypes'
<1>1. /\ apc \in {"out", "abort", "set", "await", "drain", "clear", "rewind", "token", "ask", "skip",
                  "restart", "advance", "step", "look", "play", "dead"}
      /\ playing \in BOOLEAN /\ calls \in 0..MaxCalls /\ disturbed \in BOOLEAN
      /\ goal \in TrackNo \cup {NoTrack} /\ used \in {Nothing} \cup (TrackNo \X Nat)
  BY DEF AppTypes
<1>2. fifo \in Seq(Buffer) /\ track \in TrackNo \cup {NoTrack}
  BY DEF TypeInv, TypeOK, QueueTypes, NetTypes
<1>3. MaxCalls \in Nat
  BY CallsAssumption
<1>4. CASE LookState \/ Abort \/ Await \/ Drain \/ Rewind
  <2>1. UNCHANGED <<playing, goal, calls, used, disturbed>>
    BY <1>4, Zenon DEF LookState, Abort, Await, Drain, Rewind
  <2>2. apc' \in {"set", "await", "drain", "clear", "token", "out"}
    BY <1>4 DEF LookState, Abort, Await, Drain, Rewind
  <2> QED
    BY <1>1, <2>1, <2>2 DEF AppTypes
<1>5. CASE Clear
  <2>1. apc' = "rewind" /\ used' = Nothing /\ UNCHANGED <<playing, goal, calls>>
        /\ disturbed' \in BOOLEAN
    BY <1>5, Zenon DEF Clear
  <2> QED
    BY <1>1, <2>1 DEF AppTypes
<1>6. CASE SetTrack \/ AskKey
  <2>1. UNCHANGED <<playing, goal, calls, used, disturbed>>
    BY <1>6, Zenon DEF SetTrack, AskKey
  <2>2. apc' \in {"ask", "out", "dead"}
    BY <1>6 DEF SetTrack, AskKey
  <2> QED
    BY <1>1, <2>1, <2>2 DEF AppTypes
<1>7. CASE Skip
  <2>1. /\ apc' = (IF Starts = {} THEN "advance" ELSE "restart") /\ used' = Nothing
        /\ goal' = (IF Starts = {} THEN goal ELSE fifo[Min(Starts)].track) /\ UNCHANGED <<playing, calls, disturbed>>
    BY <1>7 DEF Skip
  <2>2. Starts # {} => fifo[Min(Starts)].track \in TrackNo
    BY FirstStart DEF Buffer
  <2> QED
    BY <1>1, <2>1, <2>2 DEF AppTypes
<1>8. CASE Restart \/ Look
  <2>1. UNCHANGED <<playing, goal, calls, used>> /\ disturbed' \in BOOLEAN
    BY <1>8, Zenon DEF Restart, Look
  <2>2. apc' \in {"out", "play"}
    BY <1>8 DEF Restart, Look
  <2> QED
    BY <1>1, <2>1, <2>2 DEF AppTypes
<1>9. CASE ReadTrack \/ Advance
  <2>1. /\ UNCHANGED <<playing, calls, used, disturbed>> /\ apc' \in {"dead", "step", "look"}
        /\ goal' = goal \/ goal' = track
    BY <1>9 DEF ReadTrack, Advance
  <2> QED
    BY <1>1, <1>2, <2>1 DEF AppTypes
<1>10. CASE PlayNext
  <2>1. UNCHANGED <<playing, calls, used, disturbed>> /\ apc' = "abort" /\ goal' = track
    BY <1>10 DEF PlayNext
  <2> QED
    BY <1>1, <1>2, <2>1 DEF AppTypes
<1>11. CASE CallStop \/ CallPlay \/ CallNext
  <2>1. UNCHANGED <<used, disturbed>> /\ apc' \in {"abort", "skip"} /\ playing' \in BOOLEAN
    BY <1>11 DEF CallStop, CallPlay, CallNext
  <2>2. calls < MaxCalls /\ calls' = calls + 1
    BY <1>11, Zenon DEF CallStop, CallPlay, CallNext
  <2>3. goal' = goal \/ goal' \in TrackNo
    BY <1>11, Zenon DEF CallStop, CallPlay, CallNext
  <2>4. calls' \in 0..MaxCalls
    BY <1>1, <1>3, <2>2
  <2> QED
    BY <1>1, <2>1, <2>3, <2>4 DEF AppTypes
<1>12. CASE Other(Next) \/ Other(NetworkDies) \/ Other(FillWait)
  <2>1. UNCHANGED <<apc, playing, goal, calls, disturbed>>
    BY <1>12, Zenon DEF Other, app
  <2>2. used' = used \/ (fifo # <<>> /\ used' = <<Head(fifo).track, Head(fifo).n>>)
    BY <1>12, Zenon DEF Other
  <2>3. fifo # <<>> => Head(fifo) \in Buffer
    BY <1>2
  <2>4. fifo # <<>> => <<Head(fifo).track, Head(fifo).n>> \in TrackNo \X Nat
    BY <2>3 DEF Buffer
  <2> QED
    BY <1>1, <2>1, <2>2, <2>4 DEF AppTypes
<1> QED
  BY <1>4, <1>5, <1>6, <1>7, <1>8, <1>9, <1>10, <1>11, <1>12, Zenon DEF PlayerNext, App, Stop

-----------------------------------------------------------------------------
(* The steps of A: the playback. *)

\* Without an answer to come, a packet in N's hands or D in the decoder, everything rests.
LEMMA AtRest ==
  ASSUME TypeInv, ~Dead, ~Decoding, ~Fetching, fifo' = <<>>, pending' = pending, npc' = npc, dpc' = dpc
  PROVE  Resting' /\ npc' = "idle"
<1>1. npc = "idle" /\ pending = <<>>
  BY DEF Fetching
<1>2. dpc \in {"idle", "fill wait"}
  BY DEF Decoding, Fetching, Dead, TypeInv, TypeOK, PlaceTypes
<1> QED
  BY <1>1, <1>2 DEF Resting

\* The key of the track A has chosen is asked for: a playback begins.
LEMMA PlaybackBegins ==
  ASSUME TypeInv, Arriving, Resting, npc = "idle", ~dlabort, used = Nothing, offset = 0, track = goal,
         play_as_list, AskKey, track # NoTrack, pending' = Append(pending, KeyRequest(track))
  PROVE  Playing'
<1>1. /\ fifo' = fifo /\ npc' = npc /\ dpc' = dpc /\ track' = track /\ offset' = offset /\ arrived' = arrived
      /\ dlabort' = dlabort /\ used' = used /\ goal' = goal /\ play_as_list' = play_as_list /\ buff' = buff
  BY Zenon DEF AskKey, fifoVars, session, nvars, dvars
<1>2. fifo' = <<>> /\ npc' = "idle" /\ offset' = 0 /\ arrived' = 0 /\ ~dlabort'
  BY <1>1 DEF Resting, Arriving
<1>3. dpc' \notin {"busy", "send"} /\ dpc' \notin Stops
  BY <1>1 DEF Resting, Stops
<1>4. /\ \A i \in DOMAIN pending' : i = 1 /\ pending'[i] = KeyRequest(track)
      /\ 1 \in DOMAIN pending' /\ pending' # <<>>
  <2>1. pending = <<>>
    BY DEF Resting
  <2> DEFINE q == KeyRequest(track)
  <2>2. pending' = <<q>>
    BY <2>1
  <2> HIDE DEF q
  <2>3. /\ \A i \in DOMAIN pending' : i = 1 /\ pending'[i] = q
        /\ 1 \in DOMAIN pending' /\ pending' # <<>>
    BY <2>2
  <2> QED
    BY <2>3 DEF q
<1>5. StreamsOf(pending)' = {} /\ ~Ending' /\ ~EndingTrack'
  <2>1. \A i \in DOMAIN pending' : pending'[i].kind = "key"
    BY <1>4 DEF KeyRequest
  <2>2. StreamsOf(pending)' = {}
    BY <2>1 DEF StreamsOf
  <2> QED
    BY <1>2, <2>2 DEF Ending, EndingTrack
<1>6. KeyPending'
  BY <1>4 DEF KeyPending, KeyRequest
<1>7. Fetch'
  BY <1>2, <1>3, <1>5 DEF Fetch, AtMostOne, Stops
<1>8. Keyed'
  <2>1. \A i \in DOMAIN pending' : pending'[i].track = track'
    BY <1>1, <1>4 DEF KeyRequest
  <2> QED
    BY <1>2, <1>5, <1>6, <2>1 DEF Keyed, HoldingEnd
<1>9. Order'
  <2>2. KeyFirst'
    BY <1>1, <1>4, Zenon DEF KeyFirst, KeyRequest
  <2>3. track' # NoTrack => Tracks[track'] \in Nat
    BY SizesAssumption DEF TypeInv, TypeOK, NetTypes, AskKey, session, TrackNo
  <2>4. Within'
    BY <1>2, <2>3 DEF Within
  <2> QED
    BY <1>2, <1>5, <2>2, <2>4 DEF Order, OneEnd, FromHere, Arriving, KeyAtStart
<1>10. GoodKeys' /\ Aborting' /\ InOrder' /\ Pushed' /\ DataComes'
  <2>1. DOMAIN fifo' = {}
    BY <1>2
  <2>2. GoodKeys' /\ Gapless'
    BY <1>2, <2>1 DEF GoodKeys, Gapless
  <2>3. InOrder' /\ Pushed'
    BY <1>2, <2>2 DEF InOrder, Before, AtEnd, Behind, Pushed
  <2> QED
    BY <1>2, <2>2, <2>3 DEF Aborting, DataComes
<1>11. Begins(track)'
  BY <1>1 DEF Begins, DueTrack, UsedWhole
<1>12. Flowing'
  <2>1. offset' + arrived' = 0
    BY <1>2
  <2>2. Awaited'
    BY <1>11, <2>1 DEF Awaited
  <2> QED
    BY <1>2, <2>2 DEF Flowing, Otherwise, HoldingEnd
<1>13. Halting'
  BY <1>3 DEF Halting
<1> QED
  BY <1>7, <1>8, <1>9, <1>10, <1>12, <1>13, Zenon DEF Playing

\* What snd_next keeps begins with a START: the playback goes on with that track.
LEMMA SkipPlays ==
  ASSUME TypeInv, AppTypes, Playing, Skip, Starts # {}, lost = {}
  PROVE  Playing'
<1> DEFINE s == fifo[Min(Starts)]
<1>1. /\ npc' = npc /\ buff' = buff /\ pending' = pending /\ arrived' = arrived /\ dpc' = dpc /\ got' = got
      /\ track' = track /\ offset' = offset /\ dlabort' = dlabort /\ play_as_list' = play_as_list
      /\ dlstate' = dlstate /\ lost' = lost /\ aes' = aes /\ early' = early
  BY Zenon DEF Skip, session, net, nvars, dvars, call, history, faultVars
<1>2. fifo' = SubSeq(fifo, Kept, Len(fifo)) /\ used' = Nothing /\ goal' = s.track /\ Kept = Min(Starts)
  BY Zenon DEF Skip, Kept
<1>3. fifo \in Seq(Buffer) /\ Len(fifo) \in Nat
  BY DEF TypeInv, TypeOK, QueueTypes
<1>4. /\ Kept \in 1..Len(fifo) /\ fifo # <<>> /\ s.cmd = "START" /\ s \in Buffer
      /\ Head(fifo).cmd = "START" => s = Head(fifo)
  <2>1. fifo # <<>> => Head(fifo) = fifo[1]
    BY <1>3
  <2> QED
    BY <1>2, <2>1, FirstStart
<1>5. /\ fifo' \in Seq(Buffer) /\ Len(fifo') = Len(fifo) - Kept + 1
      /\ \A i \in DOMAIN fifo' : i \in Int /\ i + Kept - 1 \in DOMAIN fifo /\ fifo'[i] = fifo[i + Kept - 1]
      /\ fifo' # <<>>
  BY <1>2, KeptQueue, Zenon
<1>6. Head(fifo') = s
  <2>1. 1 \in DOMAIN fifo' /\ Head(fifo') = fifo'[1]
    BY <1>5
  <2>2. 1 + Kept - 1 = Kept
    BY <1>4
  <2> QED
    BY <1>2, <1>5, <2>1, <2>2
<1>7. Tip' = Tip
  <2>1. Len(fifo') \in DOMAIN fifo' /\ Len(fifo') + Kept - 1 = Len(fifo)
    BY <1>3, <1>4, <1>5
  <2> QED
    BY <1>5, <2>1 DEF Tip
<1> HIDE DEF s
<1>8. s.track \in TrackNo /\ s.track \in Int
  BY <1>4 DEF Buffer, TrackNo
<1>9. Fetch'
  BY <1>1, Zenon DEF Playing, Fetch, AtMostOne, StreamsOf, Ending, Asking
<1>10. Keyed'
  BY <1>1, Zenon DEF Playing, Keyed, EndingTrack, HoldingEnd, HasKey, KeyPending, StreamsOf
<1>11. Order' /\ (KeyPending' <=> KeyPending)
  BY <1>1, OrderSame, Zenon DEF Playing, EndingTrack
<1>12. GoodKeys'
  <2>1. \A b : GoodKey(b) => GoodKey(b)'
    BY <1>1, GoodStays, Zenon
  <2>2. \A i \in DOMAIN fifo : GoodKey(fifo[i])
    BY Zenon DEF Playing, GoodKeys
  <2>3. \A i \in DOMAIN fifo' : GoodKey(fifo[i + Kept - 1])
    BY <1>5, <2>2, Zenon
  <2>4. \A i \in DOMAIN fifo' : GoodKey(fifo[i])'
    BY <1>1, <1>5, <2>3, Zenon DEF GoodKey
  <2>5. npc' = "push" => GoodKey(buff)'
    BY <1>1, Zenon DEF Playing, GoodKeys, GoodKey
  <2> QED
    BY <2>4, <2>5, Zenon DEF GoodKeys
<1>13. Aborting' /\ DataComes'
  BY <1>1, Zenon DEF Playing, Aborting, DataComes, StreamsOf
<1>14. InOrder' /\ Pushed'
  <2>1. Gapless /\ Before /\ AtEnd /\ Behind /\ Pushed
    BY DEF Playing, InOrder
  <2>2. Gapless'
    <3> SUFFICES ASSUME NEW i \in DOMAIN fifo', i + 1 \in DOMAIN fifo' PROVE Precedes(fifo[i], fifo[i + 1])'
      BY DEF Gapless
    <3> DEFINE j == i + Kept - 1
    <3>1. j \in DOMAIN fifo /\ fifo'[i] = fifo[j]
      BY <1>5
    <3>2. j + 1 \in DOMAIN fifo /\ fifo'[i + 1] = fifo[j + 1]
      <4>1. i \in Int /\ Kept \in Int
        BY <1>4, <1>5
      <4>2. (i + 1) + Kept - 1 = j + 1
        BY <4>1
      <4> QED
        BY <1>5, <4>2
    <3> HIDE DEF j
    <3>3. Precedes(fifo[j], fifo[j + 1])
      BY <2>1, <3>1, <3>2, Zenon DEF Gapless
    <3> QED
      BY <1>1, <3>1, <3>2, <3>3, Zenon DEF Precedes
  <2>3. EndingTrack' <=> EndingTrack
    BY <1>1, Zenon DEF EndingTrack
  <2>4. Before' /\ AtEnd' /\ Behind'
    <3>1. Before'
      BY <1>1, <1>4, <1>7, <1>11, <2>1, <2>3, Zenon DEF Before, Follow, Precedes
    <3>2. AtEnd'
      BY <1>1, <1>4, <1>7, <2>1, Zenon DEF AtEnd, HoldingEnd, Precedes
    <3>3. Behind'
      BY <1>1, <1>4, <1>7, <1>11, <2>1, <2>3, Zenon DEF Behind, Otherwise, HoldingEnd, Follow
    <3> QED
      BY <3>1, <3>2, <3>3
  <2>5. Pushed'
    BY <1>1, <1>4, <1>7, <2>1, Zenon DEF Pushed
  <2> QED
    BY <2>2, <2>4, <2>5, Zenon DEF InOrder
<1>15. UsedWhole' /\ DueTrack' = s.track
  BY <1>2 DEF UsedWhole, DueTrack
<1>16. Flowing'
  <2>1. Front(Head(fifo))'
    BY <1>4, <1>6, <1>15 DEF Front, Begins
  <2> QED
    BY <1>5, <2>1 DEF Flowing
<1>17. Halting'
  <2> SUFFICES ASSUME dpc \in Stops PROVE Halting'
    BY <1>1 DEF Halting
  <2>1. /\ got = 0
        /\ track # NoTrack =>
             /\ early
             /\ track = DueTrack \/ (track = DueTrack + 1 /\ StreamsOf(pending) = {} /\ npc # "advance")
        /\ Head(fifo).cmd = "START"
        /\ Head(fifo).track = DueTrack \/ (Head(fifo).track = DueTrack + 1 /\ track # DueTrack)
    BY <1>4 DEF Playing, Halting
  <2>2. s.track = DueTrack \/ (s.track = DueTrack + 1 /\ track # DueTrack)
    BY <1>4, <2>1
  <2>3. track # NoTrack =>
          /\ early
          /\ track = s.track \/ (track = s.track + 1 /\ StreamsOf(pending) = {} /\ npc # "advance")
    BY <2>1, <2>2
  <2>4. StreamsOf(pending') = StreamsOf(pending)
    BY <1>1
  <2> QED
    BY <1>1, <1>4, <1>5, <1>6, <1>15, <2>1, <2>3, <2>4 DEF Halting
<1> QED
  BY <1>9, <1>10, <1>11, <1>12, <1>13, <1>14, <1>16, <1>17, Zenon DEF Playing

\* The steps that leave a playback as it is.
LEMMA PlaySame ==
  ASSUME Playing, UNCHANGED <<fifo, pending, arrived, npc, buff, dpc, got, track, offset, dlabort, dlstate,
                              play_as_list, lost, aes, early, used, goal>>
  PROVE  Playing'
<1>1. Fetch' /\ Keyed'
  BY Zenon DEF Playing, Fetch, AtMostOne, StreamsOf, Ending, Asking, Keyed, EndingTrack, HoldingEnd, HasKey,
               KeyPending
<1>2. Order'
  BY OrderSame, Zenon DEF Playing, EndingTrack
<1>3. GoodKeys' /\ Aborting' /\ DataComes'
  BY Zenon DEF Playing, GoodKeys, GoodKey, Aborting, DataComes, StreamsOf
<1>4. InOrder' /\ Pushed'
  BY Zenon DEF Playing, InOrder, Gapless, Before, AtEnd, Behind, Tip, Follow, Precedes, KeyPending,
               EndingTrack, HoldingEnd, Otherwise, Pushed
<1>5. Flowing'
  BY FlowingSame, Zenon DEF Playing
<1>6. Halting'
  BY Zenon DEF Playing, Halting, UsedWhole, DueTrack, StreamsOf, EndingTrack, HoldingEnd, Otherwise,
     KeyPending
<1> QED
  BY <1>1, <1>2, <1>3, <1>4, <1>5, <1>6, Zenon DEF Playing

LEMMA RestSame ==
  ASSUME Resting, UNCHANGED <<fifo, pending, npc, buff, dpc, got>>
  PROVE  Resting'
BY Zenon DEF Resting

-----------------------------------------------------------------------------
(* The invariant is inductive. *)

\* What was lost is not found again.
LEMMA CallsLose == Calls => lost \subseteq lost'
<1>1. Untouched \/ Clear \/ Skip => lost' = lost
  BY CallsTouch, Zenon DEF Clear, Skip, vars, faultVars
<1>2. Session => lost \subseteq lost'
  BY SessionLeaves, Zenon DEF SetTrack
<1>3. AskKey => lost \subseteq lost'
  BY Zenon DEF AskKey
<1> QED
  BY <1>1, <1>2, <1>3, CallsTouch, Zenon

\* The calls of A, one after the other.
LEMMA CallsStage ==
  ASSUME Base, Calls, Stage, lost = {}, ~disturbed', lost' = {}
  PROVE  Stage'
<1>0. TypeInv /\ AppTypes /\ Arriving /\ play_as_list
  BY DEF Base
<1>1. CASE LookState \/ Abort \/ Await \/ Drain \/ CallStop \/ CallPlay \/ PlayNext
  <2>1. apc' \in {"abort", "set", "await", "drain", "clear"}
    BY <1>1 DEF LookState, Abort, Await, Drain, CallStop, CallPlay, PlayNext
  <2> QED
    BY <2>1 DEF Stage
<1>2. CASE Clear
  <2>1. /\ apc' = "rewind" /\ used' = Nothing /\ dlabort' = FALSE /\ fifo' = <<>> /\ pending' = pending
        /\ npc' = npc /\ dpc' = dpc /\ ~Dead /\ ~Decoding /\ ~Fetching
    BY <1>2, Zenon DEF Clear, At, net, nvars
  <2>2. Resting' /\ npc' = "idle"
    BY <1>0, <2>1, AtRest
  <2> QED
    BY <2>1, <2>2 DEF Stage
<1>3. CASE Rewind
  <2>1. /\ apc = "rewind" /\ apc' \in {"token", "out"} /\ used' = used /\ offset' = 0 /\ dlabort' = dlabort
        /\ npc' = npc /\ UNCHANGED <<fifo, pending, npc, buff, dpc, got>>
    <3>1. apc = "rewind" /\ used' = used /\ offset' = 0 /\ dlabort' = dlabort
          /\ npc' = npc /\ UNCHANGED <<fifo, pending, npc, buff, dpc, got>>
      BY <1>3, Zenon DEF Rewind, At, fifoVars, net, nvars, dvars, call
    <3>2. apc' \in {"token", "out"}
      BY <1>3 DEF Rewind
    <3> QED
      BY <3>1, <3>2
  <2>2. Resting /\ npc = "idle" /\ ~dlabort /\ used = Nothing
    BY <2>1 DEF Stage
  <2>3. Resting'
    BY <2>1, <2>2, RestSame
  <2> QED
    BY <2>1, <2>2, <2>3 DEF Stage
<1>4. CASE SetTrack
  <2>1. /\ apc = "token" /\ used' = used /\ offset' = offset /\ dlabort' = dlabort /\ goal' = goal
        /\ npc' = npc /\ UNCHANGED <<fifo, pending, npc, buff, dpc, got>>
    BY <1>4, Zenon DEF SetTrack, At, fifoVars, net, nvars, dvars, call
  <2>2. apc' = "ask" /\ track' = goal
    <3>1. lost \cup {<<"key", goal>>} # {}
      OBVIOUS
    <3> QED
      BY <1>4, <3>1, Zenon DEF SetTrack
  <2>3. Resting /\ npc = "idle" /\ ~dlabort /\ used = Nothing /\ offset = 0
    BY <2>1 DEF Stage
  <2>4. Resting'
    BY <2>1, <2>3, RestSame
  <2> QED
    BY <2>1, <2>2, <2>3, <2>4 DEF Stage
<1>5. CASE AskKey
  <2>1. apc = "ask"
    BY <1>5 DEF AskKey, At
  <2>2. Resting /\ npc = "idle" /\ ~dlabort /\ used = Nothing /\ offset = 0 /\ track = goal
    BY <2>1 DEF Stage
  <2>3. lost \cup {<<"key", track>>} # {}
    OBVIOUS
  <2>4. \/ apc' = "dead"
        \/ track # NoTrack /\ apc' = "out" /\ pending' = Append(pending, KeyRequest(track))
    BY <1>5, <2>3, Zenon DEF AskKey
  <2>5. CASE apc' = "dead"
    BY <2>5 DEF Stage
  <2>6. ASSUME track # NoTrack, apc' = "out", pending' = Append(pending, KeyRequest(track)) PROVE Stage'
    <3>1. Playing'
      BY <1>0, <1>5, <2>2, <2>6, PlaybackBegins
    <3> QED
      BY <2>6, <3>1 DEF Stage
  <2> QED
    BY <2>4, <2>5, <2>6
<1>6. CASE CallNext \/ Restart
  <2>1. /\ apc \in {"out", "restart"} /\ apc' \in {"skip", "out"}
    BY <1>6 DEF CallNext, Restart, At
  <2>2. UNCHANGED <<fifo, pending, arrived, npc, buff, dpc, got, track, offset, dlabort, dlstate,
                    play_as_list, lost, aes, early, used, goal>>
    BY <1>6, Zenon DEF CallNext, Restart, vars, fifoVars, session, net, nvars, dvars, call, history, faultVars
  <2>3. Resting \/ Playing
    BY <2>1 DEF Stage
  <2>4. Resting' \/ Playing'
    BY <2>2, <2>3, PlaySame, RestSame
  <2> QED
    BY <2>1, <2>4 DEF Stage
<1>7. CASE Skip
  <2>1. apc = "skip" /\ apc' = (IF Starts = {} THEN "advance" ELSE "restart")
    BY <1>7, Zenon DEF Skip, At
  <2>2. CASE Starts = {}
    BY <2>1, <2>2 DEF Stage
  <2>3. CASE Starts # {}
    <3>1. Resting \/ Playing
      BY <2>1 DEF Stage
    <3>2. ~Resting
      BY <1>0, <2>3, FirstStart DEF Resting
    <3>3. Playing'
      BY <1>0, <1>7, <2>3, <3>1, <3>2, SkipPlays
    <3> QED
      BY <2>1, <2>3, <3>3 DEF Stage
  <2> QED
    BY <2>2, <2>3
<1>8. CASE ReadTrack \/ Advance
  <2>1. apc' \in {"dead", "step", "look"}
    BY <1>8 DEF ReadTrack, Advance
  <2> QED
    BY <2>1 DEF Stage
<1>9. CASE Look
  <2>1. CASE track = NoTrack
    <3>1. apc' = "out" /\ ~Dead /\ fifo = <<>> /\ ~Decoding /\ ~Fetching
      BY <1>9, <2>1 DEF Look, At
    <3>2. fifo' = fifo /\ pending' = pending /\ npc' = npc /\ dpc' = dpc
      BY <1>9, Zenon DEF Look, vars, fifoVars, net, nvars, dvars
    <3>3. Resting'
      BY <1>0, <3>1, <3>2, AtRest
    <3> QED
      BY <3>1, <3>3 DEF Stage
  <2>2. CASE track # NoTrack
    <3>1. apc' = "play"
      BY <1>9, <2>2 DEF Look
    <3> QED
      BY <3>1 DEF Stage
  <2> QED
    BY <2>1, <2>2
<1> QED
  BY <1>1, <1>2, <1>3, <1>4, <1>5, <1>6, <1>7, <1>8, <1>9, Zenon DEF Calls, App, Stop

\* The steps of N and D.
LEMMA OthersStage ==
  ASSUME Base, Stage, lost = {}, lost' = {}, Takes, apc' = apc, npc # "dead", [Next]_vars \/ FillWait
  PROVE  Stage'
<1>1. used' = used \/ (fifo # <<>> /\ Head(fifo).cmd = "DATA")
  BY Zenon DEF Takes
<1>2. goal' = goal /\ TypeInv /\ AppTypes /\ play_as_list
  BY Zenon DEF Takes, Base
<1>3. Resting => /\ Resting' /\ (npc = "idle" => npc' = "idle") /\ track' = track /\ offset' = offset
                 /\ (~dlabort => ~dlabort') /\ used' = used
  <2> SUFFICES ASSUME Resting
               PROVE  /\ Resting' /\ (npc = "idle" => npc' = "idle") /\ track' = track /\ offset' = offset
                      /\ (~dlabort => ~dlabort') /\ used' = used
    OBVIOUS
  <2>1. used' = used
    BY <1>1 DEF Resting
  <2>2. CASE [Next]_vars
    BY <1>2, <2>1, <2>2, RestingKept, Zenon
  <2>3. CASE FillWait
    <3>1. Resting' /\ npc' = npc /\ track' = track /\ offset' = offset /\ dlabort' = dlabort
      BY <1>2, <2>3, WaitRests
    <3> QED
      BY <2>1, <3>1
  <2> QED
    BY <2>2, <2>3
<1>4. Playing => Playing' \/ Resting'
  BY <1>2, PlayingKept, WaitPlays, Zenon
<1>5. apc' \in {"out", "skip", "restart"} => Resting' \/ Playing'
  BY <1>3, <1>4 DEF Stage
<1>6. ASSUME apc \in {"rewind", "token", "ask"}
      PROVE  /\ Resting' /\ npc' = "idle" /\ ~dlabort' /\ used' = Nothing
             /\ apc # "rewind" => offset' = 0
             /\ apc = "ask" => track' = goal'
  <2>1. /\ Resting /\ npc = "idle" /\ ~dlabort /\ used = Nothing
        /\ apc # "rewind" => offset = 0
        /\ apc = "ask" => track = goal
    BY <1>6 DEF Stage
  <2> QED
    BY <1>2, <1>3, <2>1
<1> QED
  BY <1>5, <1>6 DEF Stage

\* What the properties say of a state does not depend on where N is.
LEMMA FrozenSame ==
  ASSUME Frozen, UNCHANGED <<play_as_list, fifoVars, lock, session, net, buff, dvars, faultVars>>,
         UNCHANGED <<app, used, disturbed>>, npc' = "dead"
  PROVE  Frozen'
<1>1. /\ UNCHANGED <<fifo, consumed, totbytes, lastcmd, lock, dlstate, dlabort, ready, track, offset, vf, aes>>
      /\ UNCHANGED <<play_as_list, pending, arrived, buff, dpc, back, use, got, sawEnd, ended, early>>
      /\ UNCHANGED <<faults, lost, apc, playing, goal, calls, used, disturbed>>
  BY Zenon DEF fifoVars, session, net, dvars, call, history, faultVars, app
<1>2. TypeOK' /\ AppTypes'
  <2>1. FlagTypes' /\ QueueTypes'
    BY <1>1, Zenon DEF Frozen, TypeOK, FlagTypes, QueueTypes
  <2>2. NetTypes'
    BY <1>1, Zenon DEF Frozen, TypeOK, NetTypes
  <2>3. AppTypes'
    BY <1>1, Zenon DEF Frozen, AppTypes
  <2>4. PlaceTypes'
    <3>1. npc' \in {"idle", "advance", "end", "offer", "push", "signal", "after end", "channel end", "dead"}
      OBVIOUS
    <3> QED
      BY <1>1, <3>1, Zenon DEF Frozen, TypeOK, PlaceTypes
  <2> QED
    BY <2>1, <2>2, <2>3, <2>4 DEF TypeOK
<1>3. ByteCountIsExact'
  BY <1>1, Zenon DEF Frozen, ByteCountIsExact, Bytes
<1>4. PlayIsClean'
  <2>1. QueueIsGapless => QueueIsGapless'
    <3>1. fifo' = fifo /\ lost' = lost /\ play_as_list' = play_as_list
      BY <1>1
    <3>2. Gapless => Gapless'
      BY <3>1, GaplessSame
    <3> QED
      BY <3>1, <3>2, Zenon DEF QueueIsGapless, Gapless
  <2>2. ASSUME fifo # <<>>, FollowsUsed(Head(fifo)) PROVE FollowsUsed(Head(fifo))'
    BY <1>1, <2>2, Zenon DEF FollowsUsed
  <2>3. /\ apc' = apc /\ disturbed' = disturbed /\ lost' = lost /\ fifo' = fifo
    BY <1>1
  <2> QED
    <3>1. SUFFICES ASSUME apc = "out", ~disturbed, lost = {} PROVE PlayIsClean'
      BY <2>3 DEF PlayIsClean
    <3>2. /\ QueueIsGapless
          /\ fifo # <<>> /\ Head(fifo).cmd = "DATA" => FollowsUsed(Head(fifo))
          /\ \A i \in DOMAIN fifo : fifo[i].cmd = "DATA" => fifo[i].key = fifo[i].track
      BY <3>1, Zenon DEF Frozen, PlayIsClean
    <3>3. fifo' # <<>> /\ Head(fifo').cmd = "DATA" => FollowsUsed(Head(fifo))'
      BY <2>2, <2>3, <3>2, Zenon
    <3> QED
      BY <2>1, <2>3, <3>2, <3>3, Zenon DEF PlayIsClean
<1> QED
  BY <1>2, <1>3, <1>4, Zenon DEF Frozen

\* The invariant says what the properties say.
LEMMA CleanNow ==
  ASSUME Base, disturbed \/ lost # {} \/ Stage
  PROVE  Frozen
<1>1. TypeOK /\ AppTypes
  BY DEF Base, TypeInv
<1>2. ByteCountIsExact
  <2>1. fifo \in Seq(Buffer) /\ Sum(fifo, totbytes)
    BY <1>1 DEF TypeOK, QueueTypes, Base, Counted
  <2> QED
    BY <2>1, SumIsBytes, Zenon DEF ByteCountIsExact
<1>3. PlayIsClean
  <2> SUFFICES ASSUME apc = "out", ~disturbed, lost = {}
               PROVE  /\ QueueIsGapless
                      /\ fifo # <<>> /\ Head(fifo).cmd = "DATA" => FollowsUsed(Head(fifo))
                      /\ \A i \in DOMAIN fifo : fifo[i].cmd = "DATA" => fifo[i].key = fifo[i].track
    BY Zenon DEF PlayIsClean
  <2>1. CASE Resting
    <3>1. fifo = <<>>
      BY <2>1 DEF Resting
    <3>2. DOMAIN fifo = {}
      BY <3>1
    <3> QED
      BY <3>1, <3>2 DEF QueueIsGapless
  <2>2. CASE Playing
    <3>1. QueueIsGapless
      BY <2>2 DEF Playing, InOrder, Gapless, QueueIsGapless
    <3>2. fifo # <<>> /\ Head(fifo).cmd = "DATA" => FollowsUsed(Head(fifo))
      BY <2>2, Zenon DEF Playing, Flowing, Front
    <3>3. \A i \in DOMAIN fifo : fifo[i].cmd = "DATA" => fifo[i].key = fifo[i].track
      <4>1. \A i \in DOMAIN fifo : GoodKey(fifo[i])
        BY <2>2, Zenon DEF Playing, GoodKeys
      <4>2. \A i : <<"key", fifo[i].track>> \notin lost
        OBVIOUS
      <4> QED
        BY <4>1, <4>2, Zenon DEF GoodKey, Base
    <3> QED
      BY <3>1, <3>2, <3>3
  <2> QED
    BY <2>1, <2>2 DEF Stage
<1> QED
  BY <1>1, <1>2, <1>3, Zenon DEF Frozen

\* The calls.
LEMMA CallsKeep ==
  ASSUME npc # "dead", IInv, Calls
  PROVE  IInv'
<1>1. Base /\ (disturbed \/ lost # {} \/ Stage)
  BY DEF IInv
<1>2. npc' = npc /\ play_as_list' = play_as_list
  BY CallsLeave
<1>3. Base'
  <2>1. TypeInv'
    BY <1>1, CallTypes, Zenon DEF Base
  <2>2. AppTypes'
    <3>1. PlayerNext
      BY Zenon DEF Calls, PlayerNext
    <3> QED
      BY <1>1, <3>1, AppTypesKept, Zenon DEF Base
  <2>3. Commands' /\ Counted' /\ Arriving'
    BY <1>1, CallCounts, Zenon DEF Base
  <2> QED
    BY <1>1, <1>2, <2>1, <2>2, <2>3, Zenon DEF Base
<1>4. disturbed' \/ lost' # {} \/ Stage'
  <2> SUFFICES ASSUME ~disturbed', lost' = {} PROVE Stage'
    OBVIOUS
  <2>1. lost = {}
    BY CallsLose
  <2>2. ~disturbed
    BY Zenon DEF Calls, App, Stop, LookState, Abort, Await, Drain, Clear, Rewind, SetTrack, AskKey, Skip,
       Restart,
       ReadTrack, Advance, Look, PlayNext, CallStop, CallPlay, CallNext, At
  <2>3. Stage
    BY <1>1, <2>1, <2>2
  <2> QED
    BY <1>1, <2>1, <2>3, CallsStage
<1> QED
  BY <1>2, <1>3, <1>4 DEF IInv

\* The steps of N and D, and none.
LEMMA OthersKeep ==
  ASSUME npc # "dead", npc' # "dead", IInv, [Next]_vars \/ FillWait, Takes, UNCHANGED <<app, disturbed>>
  PROVE  IInv'
<1>1. Base /\ (disturbed \/ lost # {} \/ Stage)
  BY DEF IInv
<1>2. TypeInv /\ AppTypes /\ Commands /\ Counted /\ Arriving /\ play_as_list
  BY <1>1, Zenon DEF Base
<1>3. TypeInv'
  BY <1>2, TypeKept, WaitTypes, Zenon
<1>4. /\ apc' = apc /\ playing' = playing /\ calls' = calls /\ disturbed' = disturbed /\ goal' = goal
  BY Zenon DEF app
<1>5. AppTypes'
  <2>1. used' \in {Nothing} \cup (TrackNo \X Nat)
    <3>1. fifo # <<>> => Head(fifo) \in Buffer
      BY <1>2 DEF TypeInv, TypeOK, QueueTypes
    <3>2. ASSUME fifo # <<>>, Head(fifo).cmd = "DATA" PROVE <<Head(fifo).track, Head(fifo).n>> \in TrackNo \X Nat
      BY <3>1, <3>2 DEF Buffer
    <3> QED
      BY <1>2, <3>2 DEF Takes, AppTypes
  <2> QED
    BY <1>2, <1>4, <2>1 DEF AppTypes
<1>6. Commands' /\ Counted' /\ Arriving' /\ lost \subseteq lost' /\ play_as_list'
  <2>1. CASE [Next]_vars
    BY <1>2, <2>1, CommandsKept, CountedKept, ArrivingKept, LostStays
  <2>2. CASE FillWait
    <3>1. /\ buff' = buff /\ pending' = pending /\ arrived' = arrived /\ play_as_list' = play_as_list
          /\ fifo' = fifo /\ totbytes' = totbytes /\ lost' = lost
      BY <1>2, <2>2, WaitEnds
    <3>2. Commands' /\ Counted' /\ Arriving'
      BY <1>2, <3>1, Zenon DEF Commands, Bare, Counted, Sum, Counts, Arriving
    <3> QED
      BY <1>2, <3>1, <3>2
  <2> QED
    BY <2>1, <2>2
<1>7. Base'
  BY <1>3, <1>5, <1>6, Zenon DEF Base
<1>9. disturbed' \/ lost' # {} \/ Stage'
  <2> SUFFICES ASSUME ~disturbed', lost' = {} PROVE Stage'
    OBVIOUS
  <2>1. lost = {} /\ Stage
    BY <1>1, <1>4, <1>6
  <2> QED
    BY <1>1, <1>4, <2>1, OthersStage
<1> QED
  BY <1>7, <1>9 DEF IInv

\* N follows a null pointer.
LEMMA NextDies ==
  ASSUME TypeInv, Next \/ FillWait, npc # "dead", npc' = "dead"
  PROVE  PushNull
<1>1. ~AesCallback /\ ~SubstreamData /\ ~EndIoctl /\ ~OfferEnd
  BY DEF AesCallback, SubstreamData, EndIoctl, OfferEnd, Offer
<1>2. ~SubstreamEnd /\ ~AdvanceTrack /\ ~Push /\ ~Signal /\ ~AfterEnd /\ ~ChannelEnd
  BY DEF SubstreamEnd, AdvanceTrack, Push, Signal, AfterEnd, ChannelEnd
<1>3. ~AesKeyError /\ ~SubstreamError
  BY Zenon DEF AesKeyError, SubstreamError, nvars
<1>4. ~Decoder /\ ~UseFreed
  BY DecoderSteps, Zenon
<1>5. ~FillWait
  BY WaitEnds, Zenon
<1> QED
  BY <1>1, <1>2, <1>3, <1>4, <1>5, Zenon DEF Next, Network

LEMMA DyingKeeps ==
  ASSUME npc # "dead", IInv, NetworkDies \/ PushNull, Takes, UNCHANGED <<app, disturbed>>
  PROVE  IInv'
<1>1. TypeInv /\ Base /\ (disturbed \/ lost # {} \/ Stage)
  BY Zenon DEF IInv, Base
<1>2. Frozen
  BY <1>1, CleanNow
<1>3. /\ npc' = "dead"
      /\ UNCHANGED <<play_as_list, fifoVars, lock, session, net, buff, dvars, faultVars>>
  BY Zenon DEF NetworkDies, PushNull
<1>4. fifo' = fifo
  BY <1>3, Zenon DEF fifoVars
<1>5. used' = used
  BY <1>1, <1>4, UsedSame
<1>6. Frozen'
  BY <1>2, <1>3, <1>5, FrozenSame
<1> QED
  BY <1>3, <1>6 DEF IInv

LEMMA IInvKept == IInv /\ [PlayerNext]_pvars => IInv'
<1> SUFFICES ASSUME IInv, [PlayerNext]_pvars PROVE IInv'
  OBVIOUS
<1>1. CASE npc = "dead"
  <2>1. Dead
    BY <1>1 DEF Dead
  <2>2. ~PlayerNext
    BY <2>1, Zenon DEF PlayerNext, App, Stop, LookState, Abort, Await, Drain, Clear, Rewind, SetTrack, AskKey,
       Skip, Restart, ReadTrack, Advance, Look, PlayNext, CallStop, CallPlay, CallNext, At, Other
  <2>3. UNCHANGED pvars
    BY <2>2
  <2>4. /\ npc' = npc
        /\ UNCHANGED <<play_as_list, fifoVars, lock, session, net, buff, dvars, faultVars, app, used, disturbed>>
    BY <2>3, Zenon DEF pvars, vars, nvars
  <2>5. Frozen
    BY <1>1 DEF IInv
  <2>6. Frozen'
    BY <1>1, <2>4, <2>5, FrozenSame
  <2> QED
    BY <1>1, <2>4, <2>6 DEF IInv
<1>2. ASSUME npc # "dead" PROVE IInv'
  <2>1. CASE Calls
    BY <1>2, <2>1, CallsKeep
  <2>2. CASE Other(Next) \/ Other(FillWait)
    <3>1. Next \/ FillWait
      BY <2>2, Zenon DEF Other
    <3>2. Takes /\ UNCHANGED <<app, disturbed>>
      BY <2>2, Zenon DEF Other, Takes, app
    <3>3. TypeInv
      BY <1>2, Zenon DEF IInv, Base
    <3>4. CASE npc' = "dead"
      BY <1>2, <3>1, <3>2, <3>3, <3>4, NextDies, DyingKeeps, Zenon
    <3>5. CASE npc' # "dead"
      BY <1>2, <3>1, <3>2, <3>5, OthersKeep, Zenon
    <3> QED
      BY <3>4, <3>5
  <2>3. CASE Other(NetworkDies)
    <3>1. NetworkDies
      BY <2>3, Zenon DEF Other
    <3>2. Takes /\ UNCHANGED <<app, disturbed>>
      BY <2>3, Zenon DEF Other, Takes, app
    <3> QED
      BY <1>2, <3>1, <3>2, DyingKeeps, Zenon
  <2>4. CASE UNCHANGED pvars
    <3>1. UNCHANGED vars /\ used' = used /\ UNCHANGED <<app, disturbed>>
      BY <2>4, Zenon DEF pvars
    <3>2. fifo' = fifo /\ goal' = goal /\ npc' = npc
      BY <3>1, Zenon DEF vars, fifoVars, nvars, app
    <3>3. Takes
      <4>1. TypeInv
        BY <1>2 DEF IInv, Base
      <4>2. fifo # <<>> => fifo # Tail(fifo)
        <5>1. fifo \in Seq(Buffer)
          BY <4>1 DEF TypeInv, TypeOK, QueueTypes
        <5>2. fifo # <<>> => Len(Tail(fifo)) = Len(fifo) - 1 /\ Len(fifo) \in Nat
          BY <5>1
        <5> QED
          BY <5>2
      <4> QED
        BY <3>1, <3>2, <4>2, Zenon DEF Takes
    <3> QED
      BY <1>2, <3>1, <3>2, <3>3, OthersKeep, Zenon
  <2> QED
    BY <2>1, <2>2, <2>3, <2>4, Zenon DEF PlayerNext, Calls
<1> QED
  BY <1>1, <1>2

LEMMA IInvInit == PlayerInit => IInv
<1> SUFFICES ASSUME PlayerInit PROVE IInv
  OBVIOUS
<1>1. Init /\ play_as_list
  BY Zenon DEF PlayerInit
<1>2. TypeInv
  BY <1>1, TypeInit
<1>3. /\ fifo = <<>> /\ npc = "idle" /\ dpc = "idle" /\ buff = StartOf(1) /\ track = 1 /\ offset = 0 /\ arrived = 0
      /\ pending = <<KeyRequest(1)>> /\ dlabort = FALSE
  BY <1>1, Zenon DEF Init
<1>4. /\ apc = "out" /\ playing = FALSE /\ goal = 1 /\ calls = 0 /\ used = Nothing /\ disturbed = FALSE
  BY Zenon DEF PlayerInit
<1>5. AppTypes
  <2>1. 1 \in TrackNo /\ 0 \in 0..MaxCalls
    BY SizesAssumption, CallsAssumption DEF TrackNo
  <2> QED
    BY <1>4, <2>1 DEF AppTypes
<1>6. Commands /\ Counted
  BY <1>1, CountedInit
<1>7. Fetch /\ Keyed /\ GoodKeys /\ Order /\ Aborting /\ InOrder /\ Pushed
  BY <1>1, <1>2, FetchInit, KeyedInit, OrderInit, InOrderInit
<1>8. Arriving
  BY <1>7 DEF Order
<1>9. DataComes /\ Halting
  BY <1>3 DEF DataComes, Halting, Stops
<1>10. Flowing
  <2>1. Awaited
    BY <1>3, <1>4 DEF Awaited, Begins, UsedWhole, DueTrack
  <2> QED
    BY <1>3, <2>1 DEF Flowing, Otherwise, HoldingEnd
<1>11. Playing
  BY <1>7, <1>9, <1>10, Zenon DEF Playing
<1>12. Stage
  BY <1>4, <1>11 DEF Stage
<1>13. Base
  BY <1>1, <1>2, <1>5, <1>6, <1>8, Zenon DEF Base
<1> QED
  BY <1>3, <1>12, <1>13 DEF IInv

-----------------------------------------------------------------------------
(* The theorems. *)

\* With the application calling as often as it likes, the variables of all three threads have their
\* types (despotify_play, despotify_next and despotify_stop against the two threads of sndqueue.c).
THEOREM PlayerTypeCorrect == PlayerSpec => []PlayerTypeOK
<1>1. IInv => PlayerTypeOK
  BY DEF IInv, Frozen, Base, TypeInv, PlayerTypeOK
<1> QED
  BY <1>1, IInvInit, IInvKept, PTL DEF PlayerSpec

\* The byte count stays exact when snd_next drops what is queued before the next START and when
\* snd_stop empties the queue under the other two threads, for every list, every size and any number
\* of calls (snd_next, snd_stop).
THEOREM PlayerByteCount == PlayerSpec => []ByteCountIsExact
<1>1. IInv => Frozen
  BY CleanNow DEF IInv
<1>2. Frozen => ByteCountIsExact
  BY DEF Frozen
<1> QED
  BY <1>1, <1>2, IInvInit, IInvKept, PTL DEF PlayerSpec

\* A call that does not meet the other threads at work is clean: behind it the queue is gapless, goes
\* on with what was taken, begins with the first packet of the track it was called for, and holds each
\* track under its own key, for every list, every size and any number of calls in any order
\* (despotify_play, despotify_next, despotify_stop).
THEOREM PlayerClean == PlayerSpec => []PlayIsClean
<1>1. IInv => Frozen
  BY CleanNow DEF IInv
<1>2. Frozen => PlayIsClean
  BY DEF Frozen
<1> QED
  BY <1>1, <1>2, IInvInit, IInvKept, PTL DEF PlayerSpec

=============================================================================
