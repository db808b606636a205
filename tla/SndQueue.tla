------------------------------ MODULE SndQueue ------------------------------
(***************************************************************************)
(* The sound queue of libdespotify (sndqueue.c) and the playback callbacks *)
(* of despotify.c, after one despotify_play: the network thread N pushes   *)
(* what the server sends onto the fifo, the decoder thread D takes it off  *)
(* through the Ogg read callback and asks for more.                        *)
(*                                                                         *)
(* The fifo is guarded by fifo->lock; dlstate, dlabort, ready, vf, track   *)
(* and offset are shared without any lock, and every access to them is a   *)
(* step of its own here.  What N does inside one critical section is one   *)
(* step; D holds the lock over several.                                    *)
(*                                                                         *)
(* A data packet of PacketLen units stands for the payload of one channel  *)
(* packet; lengths of tracks and offsets are counted in packets.  The      *)
(* server answers requests in the order in which they were sent.  Both the *)
(* server and libvorbis are external.                                      *)
(***************************************************************************)
EXTENDS Integers, Sequences, FiniteSetsExt

CONSTANTS
  Tracks,      \* lengths of the playable tracks of the list, in packets
  Substream,   \* SUBSTREAM_SIZE in packets
  PacketLen,   \* units in a packet
  PageLen,     \* units of the first Ogg page, dropped from a track's first packet
  ReadLen,     \* units libvorbis asks for in one read
  MaxBytes,    \* fifo->maxbytes
  Watermark,   \* fifo->watermark
  MinBytes,    \* the 4096 bytes needed to open the decoder
  Prefill,     \* the 128 KB needed to start decoding
  MaxFaults    \* bound: requests that fail

ASSUME SizesAssumption ==
  /\ Tracks \in Seq(Nat \ {0})
  /\ Tracks # <<>>
  /\ Substream \in Nat \ {0}
  /\ PacketLen \in Nat \ {0}
  /\ PageLen \in 0..(PacketLen - 1)
  /\ ReadLen \in Nat \ {0}
  /\ MaxBytes \in Nat
  /\ Watermark \in Nat
  /\ MinBytes \in Nat \ {0}
  /\ Prefill \in Nat
  /\ MaxFaults \in Nat

VARIABLES
  fifo,      \* the buffers from fifo->start to fifo->end
  consumed,  \* the consumed field of the first buffer
  totbytes,  \* fifo->totbytes
  lastcmd,   \* fifo->lastcmd
  lock,      \* fifo->lock: "D" while the decoder holds it, else "free"
  dlstate, dlabort, ready, track, offset,
  vf,        \* ds->vf: "null", "opening", "open", or "broken" (no Vorbis header found)
  aes,       \* the track whose key the AES state was set up with
  play_as_list,
  pending,   \* requests sent and not yet answered in full
  arrived,   \* data packets received for the first of them
  npc,       \* what the network thread does next
  buff,      \* the buffer N is about to push
  dpc,       \* what the decoder thread does next
  back,      \* where D goes on after snd_fill_fifo
  use,       \* on whose behalf the read callback runs: "open" or "read"
  got,       \* totlength of the read callback
  sawEnd,    \* the read callback has consumed an END
  ended,     \* the last track whose END the decoder has consumed
  early,     \* D has stopped at the END of a track that is not the last
  faults,    \* requests that failed so far
  lost       \* what went missing: "stream" requests, or "key" requests of tracks

fifoVars == <<fifo, consumed, totbytes, lastcmd>>
session == <<dlstate, dlabort, ready, track, offset, vf, aes>>
net == <<pending, arrived>>
nvars == <<npc, buff>>
call == <<use, got, sawEnd>>
history == <<ended, early>>
dvars == <<dpc, back, call, history>>
faultVars == <<faults, lost>>
vars == <<fifoVars, lock, session, play_as_list, net, nvars, dvars, faultVars>>

-----------------------------------------------------------------------------

NoTrack == 0   \* ds->track = NULL
TrackNo == 1..Len(Tracks)

Cmd == {"START", "DATA", "END"}
\* n: the packet's place in its track; key: the key it was decrypted with.
Buffer == [cmd : Cmd, track : TrackNo, n : Nat, len : 0..PacketLen, key : TrackNo \cup {NoTrack}]
StartOf(t) == [cmd |-> "START", track |-> t, n |-> 0, len |-> 0, key |-> NoTrack]
EndOf(t) == [cmd |-> "END", track |-> t, n |-> 0, len |-> 0, key |-> NoTrack]

KeyRequest(t) == [kind |-> "key", track |-> t, offset |-> 0]
StreamRequest(t, o) == [kind |-> "stream", track |-> t, offset |-> o]

MinOf(a, b) == IF a < b THEN a ELSE b

\* How many data packets the server has for a substream request.
Amount(q) ==
  IF q.offset >= Tracks[q.track] THEN 0 ELSE MinOf(Substream, Tracks[q.track] - q.offset)

\* ds->track->next, the unplayable tracks skipped.
NextTrack(t) == IF t < Len(Tracks) THEN t + 1 ELSE NoTrack

\* After despotify_play(ds, first track, play_as_list) has returned.
Init ==
  /\ fifo = <<>> /\ consumed = 0 /\ totbytes = 0
  /\ lastcmd = "START"    \* the zero of calloc
  /\ lock = "free"
  /\ dlstate = "FILLING" /\ dlabort = FALSE /\ ready = FALSE
  /\ track = 1 /\ offset = 0
  /\ vf = "null" /\ aes = NoTrack /\ play_as_list \in BOOLEAN
  /\ pending = <<KeyRequest(1)>> /\ arrived = 0
  /\ npc = "idle" /\ buff = StartOf(1)
  /\ dpc = "idle" /\ back = "idle" /\ use = "read" /\ got = 0 /\ sawEnd = FALSE
  /\ ended = NoTrack /\ early = FALSE
  /\ faults = 0 /\ lost = {}

-----------------------------------------------------------------------------
(* The network thread. *)

Answering(kind) == npc = "idle" /\ pending # <<>> /\ Head(pending).kind = kind

\* snd_ioctl up to its lock: the buffer is dropped while dlabort is set.
Offer(b, dropped) ==
  IF dlabort THEN npc' = dropped /\ UNCHANGED buff
             ELSE npc' = "push" /\ buff' = b

\* Slip: the key is set up for the first track only.
AesCallbackOnce ==
  /\ Answering("key") /\ track # NoTrack
  /\ pending' = Tail(pending)
  /\ aes' = IF aes = NoTrack THEN Head(pending).track ELSE aes
  /\ Offer(StartOf(track), "idle")
  /\ UNCHANGED <<play_as_list, fifoVars, lock, dlstate, dlabort, ready, track, offset, vf, arrived,
                 dvars, faultVars>>

\* despotify_aes_callback: set the key up, queue a START for the current track.
AesCallback ==
  /\ Answering("key") /\ track # NoTrack
  /\ pending' = Tail(pending)
  /\ aes' = Head(pending).track
  /\ Offer(StartOf(track), "idle")
  /\ UNCHANGED <<play_as_list, fifoVars, lock, dlstate, dlabort, ready, track, offset, vf, arrived,
                 dvars, faultVars>>

\* CMD_AESKEYERR: the client is told, and nothing else happens.
AesKeyError ==
  /\ Answering("key")
  /\ faults < MaxFaults
  /\ faults' = faults + 1
  /\ lost' = lost \cup {<<"key", Head(pending).track>>}
  /\ pending' = Tail(pending)
  /\ UNCHANGED <<play_as_list, fifoVars, lock, session, arrived, nvars, dvars>>

\* despotify_substream_callback, CHANNEL_DATA: decrypt, queue.
SubstreamData ==
  /\ Answering("stream")
  /\ LET q == Head(pending)
     IN  /\ arrived < Amount(q)
         /\ Offer([cmd |-> "DATA", track |-> q.track, n |-> q.offset + arrived + 1,
                   len |-> PacketLen, key |-> aes], "idle")
  /\ arrived' = arrived + 1
  /\ UNCHANGED <<play_as_list, fifoVars, lock, session, pending, dvars, faultVars>>

\* CHANNEL_ERROR: counted, nothing else; dlstate stays as it is.
SubstreamError ==
  /\ Answering("stream")
  /\ faults < MaxFaults
  /\ faults' = faults + 1
  /\ lost' = lost \cup {<<"stream">>}
  /\ pending' = Tail(pending)
  /\ arrived' = 0
  /\ UNCHANGED <<play_as_list, fifoVars, lock, session, nvars, dvars>>

\* Slip: the offset does not move past a full substream.
SubstreamEndStays ==
  /\ Answering("stream")
  /\ arrived = Amount(Head(pending)) /\ (track # NoTrack \/ arrived = Substream)
  /\ pending' = Tail(pending)
  /\ arrived' = 0
  /\ offset' = IF arrived < Substream THEN offset + arrived ELSE offset
  /\ IF arrived < Substream THEN npc' = "advance" /\ buff' = EndOf(track)
                            ELSE npc' = "channel end" /\ UNCHANGED buff
  /\ UNCHANGED <<play_as_list, fifoVars, lock, dlstate, dlabort, ready, track, vf, aes, dvars,
                 faultVars>>

\* CHANNEL_END: a short count ends the track, and ds->track is read for its successor.
SubstreamEnd ==
  /\ Answering("stream")
  /\ arrived = Amount(Head(pending)) /\ (track # NoTrack \/ arrived = Substream)
  /\ pending' = Tail(pending)
  /\ arrived' = 0
  /\ offset' = offset + arrived
  /\ IF arrived < Substream THEN npc' = "advance" /\ buff' = EndOf(track)
                            ELSE npc' = "channel end" /\ UNCHANGED buff
  /\ UNCHANGED <<play_as_list, fifoVars, lock, dlstate, dlabort, ready, track, vf, aes, dvars,
                 faultVars>>

\* ... which is written.
AdvanceTrack ==
  /\ npc = "advance"
  /\ track' = NextTrack(buff.track)
  /\ npc' = "end"
  /\ UNCHANGED <<play_as_list, fifoVars, lock, dlstate, dlabort, ready, offset, vf, aes, net, buff,
                 dvars, faultVars>>

\* Slip: the end of the list is not noted.
EndIoctlForgets ==
  /\ npc = "end"
  /\ npc' = "offer"
  /\ UNCHANGED <<play_as_list, fifoVars, lock, session, net, buff, dvars, faultVars>>

\* snd_ioctl(SND_CMD_END): the end of the list is noted ...
EndIoctl ==
  /\ npc = "end"
  /\ dlstate' = IF track = NoTrack THEN "END_OF_LIST" ELSE dlstate
  /\ npc' = "offer"
  /\ UNCHANGED <<play_as_list, fifoVars, lock, dlabort, ready, track, offset, vf, aes, net, buff,
                 dvars, faultVars>>

\* ... which ends the wait of a snd_stop, and then dlabort is looked at.
OfferEnd ==
  /\ npc = "offer"
  /\ Offer(buff, "after end")
  /\ UNCHANGED <<play_as_list, fifoVars, lock, session, net, dvars, faultVars>>

\* Right behind a START the first page is looked for in the buffer, and an END has no data.
Headless == npc = "push" /\ buff.cmd = "END" /\ lastcmd = "START"

\* Slip: the length before the cut is counted.
PushUncut ==
  /\ npc = "push" /\ ~Headless
  /\ lock = "free"
  /\ fifo' = Append(fifo, IF lastcmd = "START" /\ buff.cmd = "DATA"
                          THEN [buff EXCEPT !.len = @ - PageLen] ELSE buff)
  /\ totbytes' = totbytes + buff.len
  /\ npc' = "signal"
  /\ UNCHANGED <<play_as_list, consumed, lastcmd, lock, session, net, buff, dvars, faultVars>>

\* The critical section of snd_ioctl.  The first page of a track is cut off.
Push ==
  /\ npc = "push" /\ ~Headless
  /\ lock = "free"
  /\ LET b == IF lastcmd = "START" /\ buff.cmd = "DATA"
              THEN [buff EXCEPT !.len = @ - PageLen] ELSE buff
     IN  /\ fifo' = Append(fifo, b)
         /\ totbytes' = totbytes + b.len
  /\ npc' = "signal"
  /\ UNCHANGED <<play_as_list, consumed, lastcmd, lock, session, net, buff, dvars, faultVars>>

\* buff->ptr[5] of an END: a null pointer is followed.
PushNull ==
  /\ Headless
  /\ lock = "free"
  /\ npc' = "dead"
  /\ UNCHANGED <<play_as_list, fifoVars, lock, session, net, buff, dvars, faultVars>>

\* Slip: only data is signalled.
SignalData ==
  /\ npc = "signal"
  /\ dpc' = IF dpc = "waiting" /\ buff.cmd = "DATA" THEN "woken" ELSE dpc
  /\ lastcmd' = buff.cmd
  /\ npc' = IF buff.cmd = "END" THEN "after end" ELSE "idle"
  /\ UNCHANGED <<play_as_list, fifo, consumed, totbytes, lock, session, net, buff, back, call,
                 history, faultVars>>

\* pthread_cond_signal after the unlock, then lastcmd.
Signal ==
  /\ npc = "signal"
  /\ dpc' = IF dpc = "waiting" THEN "woken" ELSE dpc
  /\ lastcmd' = buff.cmd
  /\ npc' = IF buff.cmd = "END" THEN "after end" ELSE "idle"
  /\ UNCHANGED <<play_as_list, fifo, consumed, totbytes, lock, session, net, buff, back, call,
                 history, faultVars>>

\* Slip: the next key is left to the next call of despotify_play.
AfterEndAsksNothing ==
  /\ npc = "after end"
  /\ npc' = "channel end"
  /\ offset' = 0
  /\ UNCHANGED <<play_as_list, fifoVars, lock, dlstate, dlabort, ready, track, vf, aes, net, buff,
                 dvars, faultVars>>

\* The rest of the end of a track: ask for the next key.
AfterEnd ==
  /\ npc = "after end"
  /\ npc' = "channel end"
  /\ offset' = 0
  /\ \/ /\ track # NoTrack /\ play_as_list
        /\ pending' = Append(pending, KeyRequest(track))
        /\ UNCHANGED faultVars
     \/ /\ track # NoTrack /\ play_as_list    \* packet_write fails
        /\ faults < MaxFaults
        /\ faults' = faults + 1
        /\ lost' = lost \cup {<<"key", track>>}
        /\ UNCHANGED pending
     \/ /\ ~(track # NoTrack /\ play_as_list)
        /\ UNCHANGED <<pending, faultVars>>
  /\ UNCHANGED <<play_as_list, fifoVars, lock, dlstate, dlabort, ready, track, vf, aes, arrived,
                 buff, dvars>>

\* Slip: the end of a substream frees the downloader only in an abort.
ChannelEndForgets ==
  /\ npc = "channel end"
  /\ npc' = "idle"
  /\ dlstate' = IF dlabort THEN "DRAINING" ELSE dlstate
  /\ UNCHANGED <<play_as_list, fifoVars, lock, dlabort, ready, track, offset, vf, aes, net, buff,
                 dvars, faultVars>>

\* Slip: in an abort it is dropped like the data.
ChannelEndDropped ==
  /\ npc = "channel end"
  /\ npc' = "idle"
  /\ dlstate' = IF ~dlabort /\ dlstate # "END_OF_LIST" THEN "FILLING" ELSE dlstate
  /\ UNCHANGED <<play_as_list, fifoVars, lock, dlabort, ready, track, offset, vf, aes, net, buff,
                 dvars, faultVars>>

\* snd_ioctl(SND_CMD_CHANNEL_END).
ChannelEnd ==
  /\ npc = "channel end"
  /\ npc' = "idle"
  /\ dlstate' = IF dlabort THEN "DRAINING"
                ELSE IF dlstate # "END_OF_LIST" THEN "FILLING" ELSE dlstate
  /\ UNCHANGED <<play_as_list, fifoVars, lock, dlabort, ready, track, offset, vf, aes, net, buff,
                 dvars, faultVars>>

-----------------------------------------------------------------------------
(* The decoder thread: snd_get_pcm, over and over. *)

\* Nothing queued: sleep and return.  Otherwise top up the fifo.
GetPcm ==
  /\ dpc = "idle"
  /\ fifo # <<>>
  /\ dpc' = "fill"
  /\ back' = "decode"
  /\ UNCHANGED <<play_as_list, fifoVars, lock, session, net, nvars, call, history, faultVars>>

LowOnData ==
  \/ dlstate = "DRAINING" /\ totbytes < Watermark
  \/ dlstate = "FILLING" /\ totbytes < MaxBytes - Substream * PacketLen

\* snd_fill_fifo: dlabort first, which only an abort of another thread has set (see Player).
FillFifo ==
  /\ dpc = "fill"
  /\ dpc' = IF dlabort THEN "fill wait" ELSE "choose"
  /\ UNCHANGED <<play_as_list, fifoVars, lock, session, net, nvars, back, call, history, faultVars>>

\* The switch.
Choose ==
  /\ dpc = "choose"
  /\ IF LowOnData
     THEN dpc' = "busy" /\ UNCHANGED dlstate
     ELSE /\ dlstate' = IF dlstate = "FILLING" THEN "DRAINING" ELSE dlstate
          /\ dpc' = back
  /\ UNCHANGED <<play_as_list, fifoVars, lock, dlabort, ready, track, offset, vf, aes, net, nvars,
                 back, call, history, faultVars>>

\* Slip: the state does not say that a fetch is under way.
SayNothing ==
  /\ dpc = "busy"
  /\ dpc' = "send"
  /\ UNCHANGED <<play_as_list, fifoVars, lock, session, net, nvars, back, call, history, faultVars>>

SayBusy ==
  /\ dpc = "busy"
  /\ dlstate' = "BUSY"
  /\ dpc' = "send"
  /\ UNCHANGED <<play_as_list, fifoVars, lock, dlabort, ready, track, offset, vf, aes, net, nvars,
                 back, call, history, faultVars>>

\* despotify_snd_read_stream and cmd_getsubstreams; a failure is ignored, and a
\* missing track is dereferenced.
SendRequest ==
  /\ dpc = "send"
  /\ dpc' = IF track = NoTrack THEN "dead" ELSE back
  /\ \/ /\ track # NoTrack
        /\ pending' = Append(pending, StreamRequest(track, offset))
        /\ UNCHANGED faultVars
     \/ /\ track # NoTrack
        /\ faults < MaxFaults
        /\ faults' = faults + 1
        /\ lost' = lost \cup {<<"stream">>}
        /\ UNCHANGED pending
     \/ /\ track = NoTrack
        /\ UNCHANGED <<pending, faultVars>>
  /\ UNCHANGED <<play_as_list, fifoVars, lock, session, arrived, nvars, back, call, history>>

\* The middle of snd_get_pcm: open the decoder, wait for the prefill, or read.
Decode ==
  /\ dpc = "decode"
  /\ \/ /\ vf = "null" /\ totbytes < MinBytes
        /\ dpc' = "idle"
        /\ UNCHANGED <<vf, ready, use>>
     \/ /\ vf = "null" /\ totbytes >= MinBytes
        /\ vf' = "opening" /\ use' = "open"
        /\ dpc' = "lock"
        /\ UNCHANGED ready
     \/ /\ vf # "null" /\ ~ready /\ totbytes < Prefill
        /\ dpc' = "idle"
        /\ UNCHANGED <<vf, ready, use>>
     \/ /\ vf # "null" /\ (ready \/ totbytes >= Prefill)
        /\ ready' = TRUE /\ use' = "read"
        /\ dpc' = "lock"
        /\ UNCHANGED vf
  /\ UNCHANGED <<play_as_list, fifoVars, lock, dlstate, dlabort, track, offset, aes, net, nvars,
                 back, got, sawEnd, history, faultVars>>

-----------------------------------------------------------------------------
(* The decoder thread inside snd_ov_read_callback. *)

Lock ==
  /\ dpc = "lock"
  /\ lock = "free"
  /\ lock' = "D"
  /\ got' = 0 /\ sawEnd' = FALSE
  /\ dpc' = "read"
  /\ UNCHANGED <<play_as_list, fifoVars, session, net, nvars, back, use, history, faultVars>>

\* The head of the loop with nothing queued: pthread_cond_wait.
CondWait ==
  /\ dpc = "read"
  /\ fifo = <<>>
  /\ lock' = "free"
  /\ dpc' = "waiting"
  /\ UNCHANGED <<play_as_list, fifoVars, session, net, nvars, back, call, history, faultVars>>

\* pthread_cond_wait returns; the queue is not checked again.
CondWake ==
  /\ dpc = "woken"
  /\ lock = "free"
  /\ lock' = "D"
  /\ dpc' = "look"
  /\ UNCHANGED <<play_as_list, fifoVars, session, net, nvars, back, call, history, faultVars>>

\* if (!b) break;
NothingThere ==
  /\ dpc = "look"
  /\ fifo = <<>>
  /\ dpc' = "return"
  /\ UNCHANGED <<play_as_list, fifoVars, lock, session, net, nvars, back, call, history, faultVars>>

AtBuffer(cmd) == dpc \in {"read", "look"} /\ fifo # <<>> /\ Head(fifo).cmd = cmd

\* SND_CMD_START: tell the client, take it off, go round the loop.
TakeStart ==
  /\ AtBuffer("START")
  /\ fifo' = Tail(fifo)
  /\ dpc' = "read"
  /\ UNCHANGED <<play_as_list, consumed, totbytes, lastcmd, lock, session, net, nvars, back, call,
                 history, faultVars>>

\* SND_CMD_DATA: copy what fits, free the buffer when it is used up, and leave
\* the loop when the input is empty or the output is full.
TakeData ==
  /\ AtBuffer("DATA")
  /\ LET b == Head(fifo)
         length == MinOf(b.len - consumed, ReadLen - got)
         usedUp == consumed + length = b.len
     IN  /\ got' = got + length
         /\ fifo' = IF usedUp THEN Tail(fifo) ELSE fifo
         /\ consumed' = IF usedUp THEN 0 ELSE consumed + length
         /\ totbytes' = IF usedUp THEN totbytes - b.len ELSE totbytes
         /\ dpc' = IF fifo' = <<>> \/ got' = ReadLen THEN "return" ELSE "read"
         \* libvorbis finds its header only at the beginning of a track.
         /\ vf' = IF vf = "opening"
                  THEN IF b.n = 1 /\ consumed = 0 THEN "open" ELSE "broken"
                  ELSE vf
  /\ UNCHANGED <<play_as_list, lastcmd, lock, dlstate, dlabort, ready, track, offset, aes, net,
                 nvars, back, use, sawEnd, history, faultVars>>

\* SND_CMD_END behind data that has been copied: return the data first.
LeaveEnd ==
  /\ AtBuffer("END")
  /\ got > 0
  /\ dpc' = "return"
  /\ UNCHANGED <<play_as_list, fifoVars, lock, session, net, nvars, back, call, history, faultVars>>

\* SND_CMD_END: take it off.  When nothing is behind it, unlock and stop.
TakeEnd ==
  /\ AtBuffer("END")
  /\ got = 0
  /\ fifo' = Tail(fifo)
  /\ ended' = Head(fifo).track
  /\ sawEnd' = TRUE
  /\ IF fifo' = <<>> THEN dpc' = "stop" /\ lock' = "free"
                     ELSE dpc' = "return" /\ UNCHANGED lock
  /\ early' = (early \/ (fifo' = <<>> /\ Head(fifo).track # Len(Tracks)))
  /\ UNCHANGED <<play_as_list, consumed, totbytes, lastcmd, session, net, nvars, back, use, got,
                 faultVars>>

\* The callback unlocks and returns to libvorbis, which calls it again for more data or is
\* done: ov_open_callbacks succeeds when it has seen a header and is fatal to the application
\* otherwise (tick asserts); ov_read takes 0 bytes for the end of the file.
Return ==
  /\ dpc = "return"
  /\ lock' = "free"
  /\ got' = 0 /\ sawEnd' = FALSE
  /\ \/ /\ got > 0 /\ (use = "read" \/ vf = "open")
        /\ dpc' = "lock"
        /\ UNCHANGED <<vf, back>>
     \/ /\ use = "open" /\ vf = "open" /\ got > 0
        /\ dpc' = "decode"
        /\ UNCHANGED <<vf, back>>
     \/ /\ use = "open" /\ ~(vf = "open" /\ got > 0)
        /\ dpc' = "dead" /\ vf' = "null"
        /\ UNCHANGED back
     \/ /\ use = "read" /\ got = 0
        /\ dpc' = "idle" /\ vf' = "null"
        /\ UNCHANGED back
     \/ /\ use = "read" /\ got > 0
        /\ dpc' = "fill" /\ back' = "idle"
        /\ UNCHANGED vf
  /\ UNCHANGED <<play_as_list, fifoVars, dlstate, dlabort, ready, track, offset, aes, net, nvars,
                 use, history, faultVars>>

\* snd_stop has freed the decoder that called: libvorbis goes on with what was freed, and
\* returns as above or not at all.
UseFreed ==
  /\ dpc = "return" /\ vf = "null"
  /\ dpc' = "dead"
  /\ UNCHANGED <<play_as_list, fifoVars, lock, session, net, nvars, back, call, history, faultVars>>

-----------------------------------------------------------------------------
(* snd_stop, called by the read callback at an END with nothing behind it. *)

\* Is a substream being fetched, or about to be?
StopLook ==
  /\ dpc = "stop"
  /\ dpc' = IF dlstate \in {"FILLING", "BUSY"} THEN "stop set" ELSE "stop wait"
  /\ UNCHANGED <<play_as_list, fifoVars, lock, session, net, nvars, back, call, history, faultVars>>

\* Then what comes is dropped.
StopAbort ==
  /\ dpc = "stop set"
  /\ dlabort' = TRUE
  /\ dpc' = "stop wait"
  /\ UNCHANGED <<play_as_list, fifoVars, lock, dlstate, ready, track, offset, vf, aes, net, nvars,
                 back, call, history, faultVars>>

\* Sleep until no substream is being fetched.
StopWait ==
  /\ dpc = "stop wait"
  /\ dlstate # "BUSY"
  /\ dlstate' = "DRAINING"
  /\ dpc' = "stop clear"
  /\ UNCHANGED <<play_as_list, fifoVars, lock, dlabort, ready, track, offset, vf, aes, net, nvars,
                 back, call, history, faultVars>>

\* The critical section: free the queue, snd_reset, end the abort.
StopClear ==
  /\ dpc = "stop clear"
  /\ lock = "free"
  /\ fifo' = <<>> /\ consumed' = 0 /\ totbytes' = 0
  /\ dlstate' = "DRAINING"
  /\ ready' = FALSE
  /\ vf' = "null"
  /\ dlabort' = FALSE
  /\ dpc' = "report"
  /\ UNCHANGED <<play_as_list, lastcmd, lock, track, offset, aes, net, nvars, back, call, history,
                 faultVars>>

\* Back in the read callback: lock again, tell the client, return 0 bytes.
Report ==
  /\ dpc = "report"
  /\ lock = "free"
  /\ lock' = "D"
  /\ dpc' = "return"
  /\ UNCHANGED <<play_as_list, fifoVars, session, net, nvars, back, call, history, faultVars>>

-----------------------------------------------------------------------------

Network ==
  \/ AesCallback \/ SubstreamData \/ SubstreamEnd \/ AdvanceTrack
  \/ EndIoctl \/ OfferEnd \/ Push \/ PushNull \/ Signal \/ AfterEnd \/ ChannelEnd

Decoder ==
  \/ GetPcm \/ FillFifo \/ Choose \/ SayBusy \/ SendRequest \/ Decode
  \/ Lock \/ CondWait \/ CondWake \/ NothingThere
  \/ TakeStart \/ TakeData \/ LeaveEnd \/ TakeEnd \/ Return
  \/ StopLook \/ StopAbort \/ StopWait \/ StopClear \/ Report

Next == Network \/ AesKeyError \/ SubstreamError \/ Decoder \/ UseFreed

\* Both threads are scheduled and the server answers; it need not fail.
Fairness == WF_vars(Network) /\ WF_vars(Decoder)

Spec == Init /\ [][Next]_vars
FairSpec == Spec /\ Fairness

-----------------------------------------------------------------------------
(* Properties. *)

FlagTypes ==
  /\ play_as_list \in BOOLEAN /\ dlabort \in BOOLEAN /\ ready \in BOOLEAN
  /\ sawEnd \in BOOLEAN /\ early \in BOOLEAN

PlaceTypes ==
  /\ lastcmd \in Cmd
  /\ lock \in {"free", "D"}
  /\ dlstate \in {"FILLING", "BUSY", "DRAINING", "END_OF_LIST"}
  /\ vf \in {"null", "opening", "open", "broken"}
  /\ npc \in {"idle", "advance", "end", "offer", "push", "signal", "after end", "channel end",
              "dead"}
  /\ dpc \in {"idle", "fill", "fill wait", "choose", "busy", "send", "decode", "lock", "read",
              "waiting", "woken", "look", "return", "stop", "stop set", "stop wait", "stop clear",
              "report", "dead"}
  /\ back \in {"idle", "decode"}
  /\ use \in {"open", "read"}

QueueTypes ==
  /\ fifo \in Seq(Buffer) /\ buff \in Buffer
  /\ consumed \in 0..PacketLen /\ totbytes \in Int
  /\ got \in 0..ReadLen
  /\ ended \in TrackNo \cup {NoTrack}

NetTypes ==
  /\ track \in TrackNo \cup {NoTrack} /\ offset \in Nat
  /\ aes \in TrackNo \cup {NoTrack}
  /\ pending \in Seq([kind : {"key", "stream"}, track : TrackNo, offset : Nat])
  /\ arrived \in 0..Substream
  /\ faults \in 0..MaxFaults
  /\ lost \subseteq ({<<"stream">>} \cup ({"key"} \X (TrackNo \cup {NoTrack})))

\* Types of the variables.
TypeOK == FlagTypes /\ PlaceTypes /\ QueueTypes /\ NetTypes

\* totbytes is what is in the queue, whichever thread touched it last and however
\* the first page was cut or the queue was freed: the watermarks and the prefill are
\* decided on a true count (snd_ioctl, snd_ov_read_callback, snd_stop).
Bytes[i \in 0..Len(fifo)] == IF i = 0 THEN 0 ELSE Bytes[i - 1] + fifo[i].len
ByteCountIsExact == totbytes = Bytes[Len(fifo)]

StreamsPending == {i \in DOMAIN pending : pending[i].kind = "stream"}

\* One substream is fetched at a time, and while one is asked for or under way
\* dlstate says so, although the two threads write dlstate without a lock
\* (snd_fill_fifo, SND_CMD_CHANNEL_END).
OneFetchAtATime ==
  /\ Cardinality(StreamsPending) <= 1
  /\ StreamsPending # {} =>
       dlstate = "BUSY" /\ dpc \notin {"busy", "send"} /\ npc \in {"idle", "push", "signal"}

\* Data of a track whose key the server sent is decrypted with that key: the key of
\* the next track is not set up before the last data of this one has been decrypted
\* (despotify_aes_callback, despotify_substream_callback).  Without play_as_list the
\* client goes on to the next track too, and asks for no key.
RightKey ==
  \A i \in DOMAIN fifo :
    LET b == fifo[i]
    IN  b.cmd = "DATA" /\ (play_as_list \/ b.track = 1) /\ <<"key", b.track>> \notin lost =>
          b.key = b.track

\* b comes right before c in an undisturbed play of the list.
Precedes(b, c) ==
  CASE b.cmd = "START" -> c.cmd = "DATA" /\ c.track = b.track /\ c.n = 1
    [] b.cmd = "DATA" -> /\ c.track = b.track
                         /\ IF b.n = Tracks[b.track] THEN c.cmd = "END"
                                                     ELSE c.cmd = "DATA" /\ c.n = b.n + 1
    [] b.cmd = "END" -> /\ c.track = b.track + 1
                        /\ IF play_as_list THEN c.cmd = "START" ELSE c.cmd = "DATA" /\ c.n = 1

\* What is queued is a gapless, ordered stretch of the list: no packet is lost,
\* repeated or swapped between two that are in the queue, across substreams and
\* across tracks, as long as no request failed.
QueueIsGapless ==
  lost = {} => \A i \in DOMAIN fifo : i + 1 \in DOMAIN fifo => Precedes(fifo[i], fifo[i + 1])

\* A substream that was asked for comes to its end and frees the downloader, unless
\* a substream request failed or the application died (SND_CMD_CHANNEL_END).
FetchEnds == dlstate = "BUSY" ~> (dlstate # "BUSY" \/ <<"stream">> \in lost \/ dpc = "dead")

\* The START of a track is still to come: the END before it has just been queued, its key is
\* asked for, answered, refused, or was never to be asked for.
StartIsDue(t) ==
  \/ npc \in {"signal", "after end", "channel end"}
  \/ npc = "push" /\ buff = StartOf(t)
  \/ \E i \in DOMAIN pending : pending[i] = KeyRequest(t)
  \/ ~play_as_list \/ <<"key", t>> \in lost

\* The END of a track that is not the last is taken for the end of the playlist, as the code does
\* when nothing is queued behind it, only while the START of the next track is due.
EarlyOnlyIfDue == [][early' # early => StartIsDue(Head(fifo).track + 1)]_vars

\* A null pointer is followed, by a substream that is asked for without a track or an END that
\* is queued right behind a START, only after such an early end: its snd_stop puts DL_DRAINING
\* in the place of DL_END_OF_LIST, or drops the last END, or all of the last track's data but
\* not its END (despotify_snd_read_stream, snd_ioctl).
NullOnlyIfEarly == (dpc = "send" /\ track = NoTrack) \/ Headless => early

\* snd_get_pcm does not decode: too little is queued to open the decoder, or to begin.
Starved ==
  \/ vf = "null" /\ totbytes < MinBytes
  \/ ~ready /\ totbytes < Prefill

\* D waits inside libvorbis for data that only D itself would ask for.
Parched == dpc = "waiting" /\ npc = "idle" /\ pending = <<>>

\* When the list has been fetched its last END is taken off the queue, and so END_OF_PLAYLIST
\* reported, unless what is left is too little for the decoder to be opened or begun.
LastEndIsTaken == track = NoTrack ~> ended = Len(Tracks) \/ dpc = "dead" \/ []Starved

-----------------------------------------------------------------------------
(* What a comment in the source says, and the code does not keep. *)

\* sndqueue.c: "return 0 bytes as EOF marker to decoder".  0 bytes are returned
\* only when the end of a track has been consumed.
ZeroBytesMeansEof == dpc = "return" /\ got = 0 => sawEnd
=============================================================================
