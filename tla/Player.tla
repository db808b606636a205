------------------------------- MODULE Player -------------------------------
(***************************************************************************)
(* The application thread A as a third actor of the sound queue: it calls  *)
(* despotify_play, despotify_next and despotify_stop (despotify.c, with    *)
(* snd_next and snd_stop of sndqueue.c) while the network thread and the   *)
(* decoder thread of SndQueue are at work.                                 *)
(*                                                                         *)
(* None of the three calls waits for the decoder, takes back a key that    *)
(* was asked for, or looks at what the other threads do other than at      *)
(* dlstate.  disturbed records a call that met the others at work when it  *)
(* emptied the queue or freed the decoder.                                 *)
(***************************************************************************)
EXTENDS SndQueue

CONSTANTS
  MaxCalls  \* bound: the calls A makes after the first despotify_play

ASSUME CallsAssumption == MaxCalls \in Nat

VARIABLES
  apc,        \* where A is
  playing,    \* the snd_stop that A is in belongs to a despotify_play
  goal,       \* the track that is to be played from its first packet
  calls,
  used,       \* the last data packet that libvorbis has taken since, for the open or a read
  disturbed   \* D or N were at work when A emptied the queue or freed the decoder

app == <<apc, playing, goal, calls>>
pvars == <<vars, app, used, disturbed>>

Nothing == <<NoTrack, 0>>

PlayerInit ==
  /\ Init /\ play_as_list
  /\ apc = "out" /\ playing = FALSE /\ goal = 1 /\ calls = 0
  /\ used = Nothing /\ disturbed = FALSE

\* A null pointer is followed in one of the threads.
Dead == "dead" \in {apc, npc, dpc}

\* D is in libvorbis or about to enter it.
Decoding == dpc \in {"decode", "lock", "read", "waiting", "woken", "look", "return",
                     "stop", "stop set", "stop wait", "stop clear", "report"}

\* D is on its way to ask for a substream, N handles a packet, or an answer is to come.
Fetching ==
  \/ dpc \in {"fill", "choose", "busy", "send"}
  \/ npc # "idle" \/ pending # <<>>

\* A is at a place, and nothing has happened that is not followed.
At(place) == ~Dead /\ ~disturbed /\ apc = place

-----------------------------------------------------------------------------
(* snd_stop on A. *)

\* Is a substream being fetched, or about to be?
LookState ==
  /\ At("abort")
  /\ apc' = IF dlstate \in {"FILLING", "BUSY"} THEN "set" ELSE "await"
  /\ UNCHANGED <<vars, playing, goal, calls, used, disturbed>>

\* Then what comes is dropped.
Abort ==
  /\ At("set")
  /\ dlabort' = TRUE
  /\ apc' = "await"
  /\ UNCHANGED <<fifoVars, lock, dlstate, ready, track, offset, vf, aes, play_as_list, net, nvars,
                 dvars, faultVars, playing, goal, calls, used, disturbed>>

\* Sleep until no substream is being fetched.
Await ==
  /\ At("await")
  /\ dlstate # "BUSY"
  /\ apc' = "drain"
  /\ UNCHANGED <<vars, playing, goal, calls, used, disturbed>>

Drain ==
  /\ At("drain")
  /\ dlstate' = "DRAINING"
  /\ apc' = "clear"
  /\ UNCHANGED <<fifoVars, lock, dlabort, ready, track, offset, vf, aes, play_as_list, net, nvars,
                 dvars, faultVars, playing, goal, calls, used, disturbed>>

\* Slip: the abort is not ended.
ClearKeepsAbort ==
  /\ At("clear")
  /\ lock = "free"
  /\ fifo' = <<>> /\ consumed' = 0 /\ totbytes' = 0
  /\ dlstate' = "DRAINING" /\ ready' = FALSE /\ vf' = "null"
  /\ apc' = "rewind"
  /\ used' = Nothing /\ early' = FALSE
  /\ disturbed' = (disturbed \/ Decoding \/ Fetching)
  /\ UNCHANGED <<lastcmd, lock, dlabort, track, offset, aes, play_as_list, net, nvars, dpc, back,
                 call, ended, faultVars, playing, goal, calls>>

\* The critical section: free the queue, snd_reset, end the abort.
Clear ==
  /\ At("clear")
  /\ lock = "free"
  /\ fifo' = <<>> /\ consumed' = 0 /\ totbytes' = 0
  /\ dlstate' = "DRAINING" /\ ready' = FALSE /\ vf' = "null" /\ dlabort' = FALSE
  /\ apc' = "rewind"
  /\ used' = Nothing /\ early' = FALSE
  /\ disturbed' = (disturbed \/ Decoding \/ Fetching)
  /\ UNCHANGED <<lastcmd, lock, track, offset, aes, play_as_list, net, nvars, dpc, back, call, ended,
                 faultVars, playing, goal, calls>>

-----------------------------------------------------------------------------
(* despotify_stop and despotify_play. *)

CallStop ==
  /\ At("out") /\ calls < MaxCalls
  /\ apc' = "abort" /\ playing' = FALSE /\ calls' = calls + 1
  /\ UNCHANGED <<vars, goal, used, disturbed>>

CallPlay ==
  /\ At("out") /\ calls < MaxCalls
  /\ goal' \in TrackNo
  /\ apc' = "abort" /\ playing' = TRUE /\ calls' = calls + 1
  /\ UNCHANGED <<vars, used, disturbed>>

\* Slip: the offset is left where it was.
RewindNothing ==
  /\ At("rewind")
  /\ apc' = IF playing THEN "token" ELSE "out"
  /\ UNCHANGED <<vars, playing, goal, calls, used, disturbed>>

\* ds->offset = 0 behind snd_stop: the end of despotify_stop.
Rewind ==
  /\ At("rewind")
  /\ offset' = 0
  /\ apc' = IF playing THEN "token" ELSE "out"
  /\ UNCHANGED <<fifoVars, lock, dlstate, dlabort, ready, track, vf, aes, play_as_list, net, nvars,
                 dvars, faultVars, playing, goal, calls, used, disturbed>>

\* CMD_TOKENNOTIFY, which may not be written; then ds->track.  The list is played as a list: see
\* SndQueue for play_as_list FALSE.
SetTrack ==
  /\ At("token")
  /\ \/ apc' = "ask" /\ track' = goal /\ UNCHANGED lost
     \/ apc' = "out" /\ lost' = lost \cup {<<"key", goal>>} /\ UNCHANGED track
  /\ UNCHANGED <<faults, fifoVars, lock, dlstate, dlabort, ready, offset, vf, aes, play_as_list, net, nvars,
                 dvars, playing, goal, calls, used, disturbed>>

\* The key of ds->track.
AskKey ==
  /\ At("ask")
  /\ \/ track = NoTrack /\ apc' = "dead" /\ UNCHANGED <<pending, lost>>
     \/ /\ track # NoTrack /\ apc' = "out"
        /\ pending' = Append(pending, KeyRequest(track)) /\ UNCHANGED lost
     \/ /\ track # NoTrack /\ apc' = "out"    \* packet_write fails
        /\ lost' = lost \cup {<<"key", track>>} /\ UNCHANGED pending
  /\ UNCHANGED <<faults, fifoVars, lock, session, play_as_list, arrived, nvars, dvars,
                 playing, goal, calls, used, disturbed>>

-----------------------------------------------------------------------------
(* despotify_next. *)

CallNext ==
  /\ At("out") /\ calls < MaxCalls
  /\ apc' = "skip" /\ playing' = TRUE /\ calls' = calls + 1
  /\ UNCHANGED <<vars, goal, used, disturbed>>

Starts == {i \in DOMAIN fifo : fifo[i].cmd = "START"}

\* Slip: what is dropped is still counted.
SkipUncounted ==
  /\ At("skip")
  /\ lock = "free"
  /\ LET kept == IF Starts = {} THEN Len(fifo) + 1 ELSE Min(Starts)
     IN  /\ fifo' = SubSeq(fifo, kept, Len(fifo))
         /\ totbytes' = totbytes
         /\ goal' = IF Starts = {} THEN goal ELSE fifo[kept].track
         /\ apc' = IF Starts = {} THEN "advance" ELSE "restart"
  /\ consumed' = 0
  /\ used' = Nothing
  /\ UNCHANGED <<lastcmd, lock, session, play_as_list, net, nvars, dvars, faultVars,
                 playing, calls, disturbed>>

\* The critical section of snd_next: what is queued before the next START is freed.
Skip ==
  /\ At("skip")
  /\ lock = "free"
  /\ LET kept == IF Starts = {} THEN Len(fifo) + 1 ELSE Min(Starts)
     IN  /\ fifo' = SubSeq(fifo, kept, Len(fifo))
         /\ totbytes' = totbytes - Bytes[kept - 1]
         /\ goal' = IF Starts = {} THEN goal ELSE fifo[kept].track
         /\ apc' = IF Starts = {} THEN "advance" ELSE "restart"
  /\ consumed' = 0
  /\ used' = Nothing
  /\ UNCHANGED <<lastcmd, lock, session, play_as_list, net, nvars, dvars, faultVars,
                 playing, calls, disturbed>>

\* There is one: the decoder is freed, to start over.
Restart ==
  /\ At("restart")
  /\ vf' = "null"
  /\ disturbed' = (disturbed \/ Decoding)
  /\ apc' = "out"
  /\ UNCHANGED <<fifoVars, lock, dlstate, dlabort, ready, track, offset, aes, play_as_list, net,
                 nvars, dvars, faultVars, playing, goal, calls, used>>

\* There is none: on to the track behind the one read here ...
ReadTrack ==
  /\ At("advance")
  /\ IF track = NoTrack THEN apc' = "dead" /\ UNCHANGED goal
                        ELSE apc' = "step" /\ goal' = track
  /\ UNCHANGED <<vars, playing, calls, used, disturbed>>

\* ... although N may have moved ds->track on meanwhile.
Advance ==
  /\ At("step")
  /\ track' = NextTrack(goal)
  /\ apc' = "look"
  /\ UNCHANGED <<fifoVars, lock, dlstate, dlabort, ready, offset, vf, aes, play_as_list, net, nvars,
                 dvars, faultVars, playing, goal, calls, used, disturbed>>

\* if (ds->track): ...  Behind the last track the queue is left as it is.
Look ==
  /\ At("look")
  /\ apc' = IF track = NoTrack THEN "out" ELSE "play"
  /\ disturbed' = (disturbed \/ (track = NoTrack /\ (fifo # <<>> \/ Decoding \/ Fetching)))
  /\ UNCHANGED <<vars, playing, goal, calls, used>>

\* ... despotify_play of ds->track.
PlayNext ==
  /\ At("play")
  /\ goal' = track
  /\ apc' = "abort"
  /\ UNCHANGED <<vars, playing, calls, used, disturbed>>

-----------------------------------------------------------------------------
(* What N and D do only with A at work. *)

\* A key, or the end of a track, without a track: t->key, ds->track->next.
NetworkDies ==
  /\ track = NoTrack
  /\ \/ Answering("key")
     \/ Answering("stream") /\ arrived = Amount(Head(pending)) /\ arrived < Substream
  /\ npc' = "dead"
  /\ UNCHANGED <<play_as_list, fifoVars, lock, session, net, buff, dvars, faultVars>>

\* snd_fill_fifo in an abort of A: sleep until no substream is being fetched.
FillWait ==
  /\ dpc = "fill wait"
  /\ dlstate # "BUSY"
  /\ dlstate' = "DRAINING"
  /\ dpc' = back
  /\ UNCHANGED <<play_as_list, fifoVars, lock, dlabort, ready, track, offset, vf, aes, net, nvars,
                 back, call, history, faultVars>>

-----------------------------------------------------------------------------

Stop == LookState \/ Abort \/ Await \/ Drain \/ Clear \/ Rewind

App == Stop \/ SetTrack \/ AskKey \/ Skip \/ Restart \/ ReadTrack \/ Advance \/ Look \/ PlayNext

\* A step of N or D, and what it has libvorbis take.
Other(A) ==
  /\ ~Dead /\ ~disturbed
  /\ A
  /\ used' = IF fifo # <<>> /\ Head(fifo).cmd = "DATA" /\ fifo' = Tail(fifo)
              THEN <<Head(fifo).track, Head(fifo).n>> ELSE used
  /\ UNCHANGED <<app, disturbed>>

PlayerNext ==
  \/ App \/ CallStop \/ CallPlay \/ CallNext
  \/ Other(Next) \/ Other(NetworkDies) \/ Other(FillWait)

PlayerSpec == PlayerInit /\ [][PlayerNext]_pvars

\* All three threads are scheduled, A in its calls, and the server answers.
PlayerFairSpec ==
  /\ PlayerSpec
  /\ WF_pvars(Other(Network \/ NetworkDies))
  /\ WF_pvars(Other(Decoder \/ FillWait))
  /\ WF_pvars(App)

-----------------------------------------------------------------------------
(* Properties. *)

\* Where A is, what it calls and what is taken.
AppTypes ==
  /\ apc \in {"out", "abort", "set", "await", "drain", "clear", "rewind", "token", "ask", "skip",
              "restart", "advance", "step", "look", "play", "dead"}
  /\ playing \in BOOLEAN /\ calls \in 0..MaxCalls /\ disturbed \in BOOLEAN
  /\ goal \in TrackNo \cup {NoTrack}
  /\ used \in {Nothing} \cup (TrackNo \X Nat)

\* Types of the variables.
PlayerTypeOK == TypeOK /\ AppTypes

\* b is the next data after what was taken.  A track goes missing after an early end: D's snd_stop
\* drops what N brings meanwhile, which may be all of the next track.
FollowsUsed(b) ==
  LET due == IF used = Nothing THEN goal ELSE used[1] + 1
  IN  \/ used # Nothing /\ b.track = used[1] /\ b.n = used[2] + 1
      \/ /\ used # Nothing => used[2] = Tracks[used[1]]
         /\ b.track = due \/ (early /\ b.track = due + 1)
         /\ b.n = 1

\* A call that finds the others at rest, or at play with nothing to take back, leaves nothing of the
\* former playback behind: what is queued and taken after despotify_play and despotify_next is
\* the track they were called for from its first packet, without a gap, and under its own key.
PlayIsClean ==
  apc = "out" /\ ~disturbed /\ lost = {} =>
    /\ QueueIsGapless
    /\ fifo # <<>> /\ Head(fifo).cmd = "DATA" => FollowsUsed(Head(fifo))
    /\ \A i \in DOMAIN fifo :
         fifo[i].cmd = "DATA" => fifo[i].key = fifo[i].track

\* Every call comes back, however D and A stop the queue at the same time, and so does D's own
\* snd_stop: neither waits for ever for a download that the other has aborted.
CallsReturn ==
  apc # "out" \/ dpc = "stop wait" ~>
    \/ apc = "out" /\ dpc # "stop wait"
    \/ <<"stream">> \in lost \/ disturbed \/ Dead

\* The open has taken all that was fetched, and nothing more is fetched while the queue is empty;
\* or the list is queued to its end.
Exhausted ==
  \/ fifo = <<>> /\ used # Nothing
  \/ fifo # <<>> /\ fifo[Len(fifo)] = EndOf(Len(Tracks))

\* Decoding begins with the track that was played, unless what is left is too little for it or D
\* stays in libvorbis, waiting for data that only D itself could ask for (snd_get_pcm,
\* snd_ov_read_callback, despotify_play).
PlayBegins ==
  apc = "ask" /\ calls = MaxCalls ~>
    \/ ready /\ used[1] = goal
    \/ disturbed \/ lost # {} \/ Dead
    \/ [](Starved /\ Exhausted) \/ []Parched
=============================================================================
