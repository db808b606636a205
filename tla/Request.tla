------------------------------ MODULE Request ------------------------------
(***************************************************************************)
(* The request/response calls of despotify.c and the login: a client       *)
(* thread A makes one call after the other; each registers a channel, sends *)
(* its request, waits on sync_cond and parses the buffer ds->response. The *)
(* network thread N runs the callback of the channel, which appends to     *)
(* whatever ds->response points to and signals at the end.                 *)
(*                                                                         *)
(* Each channel is an ordered pipe of its own (see ChannelPipes) and the   *)
(* mutex and condition variable are those of PosixCond, but that a         *)
(* deadline holds or not (pthread_cond_timedwait of libposix ignores it).  *)
(* The bytes of an answer are known by the call and their position in it.  *)
(***************************************************************************)
EXTENDS Integers, Sequences

CONSTANTS
  Kind,       \* the calls A makes, in order: "search", "browse", "list" or "plain"
  Header,     \* length of a gzip header (10 bytes in the code)
  Deadlines,  \* whether a timed wait may end: {TRUE} for POSIX, {FALSE} for Bada
  MaxPacket,  \* bound: length of a data packet
  MaxTotal    \* bound: length of an answer

ASSUME RequestAssumption ==
  /\ Kind \in Seq({"search", "browse", "list", "plain"})
  /\ Header \in Nat /\ MaxPacket \in Nat /\ MaxTotal \in Nat
  /\ Deadlines \subseteq BOOLEAN

Calls == 1..Len(Kind)

VARIABLES
  deadline,  \* the platform: a member of Deadlines
  call,      \* the call A is in or has made last; 0 is the login
  apc,       \* what A does next
  response,  \* ds->response: the call that allocated it
  content,   \* content[c] is what the buffer allocated by c holds
  freed,     \* the calls whose buffer is freed
  outcome,   \* outcome[c] is how c returned
  got,       \* got[c] is what c parsed
  chan,      \* chan[c] is c's channel
  total,     \* total[c] is its total_data_len
  conn,      \* the connection: "up", "lost" by the server or "closed" by A
  welcomed,  \* N has handled the WELCOME packet
  missed,    \* the signal A will wait for came before its wait
  dangling   \* N has written to a freed buffer

buffers == <<response, content, freed>>
results == <<outcome, got>>
channels == <<chan, total>>
flags == <<welcomed, missed, dangling>>
vars == <<deadline, call, apc, buffers, results, channels, conn, flags>>

Init ==
  /\ deadline \in Deadlines
  /\ call = 0
  /\ apc = "login"
  /\ response = 0
  /\ content = [c \in Calls |-> <<>>]
  /\ freed = {}
  /\ outcome = [c \in Calls |-> "none"]
  /\ got = [c \in Calls |-> <<>>]
  /\ chan = [c \in Calls |-> "none"]
  /\ total = [c \in Calls |-> 0]
  /\ conn = "up"
  /\ welcomed = FALSE /\ missed = FALSE /\ dangling = FALSE

-----------------------------------------------------------------------------
(* The calling thread. *)

\* The end of despotify_authenticate: the network thread is started.
StartNetwork ==
  /\ apc = "login"
  /\ apc' = "gap"
  /\ UNCHANGED <<deadline, call, buffers, results, channels, conn, flags>>

\* The next call: buf_new, and for a playlist the tag its XML needs, at position 0.
Call ==
  /\ apc = "idle"
  /\ call < Len(Kind)
  /\ call' = call + 1
  /\ response' = call + 1
  /\ content' = [content EXCEPT ![call + 1] = IF Kind[call + 1] = "list" THEN << <<call + 1, 0>> >> ELSE <<>>]
  /\ apc' = "send"
  /\ UNCHANGED <<deadline, freed, results, channels, conn, flags>>

\* cmd_*: the channel is registered and the request written.  A write to a connection
\* the server has dropped may still succeed.
Send ==
  /\ apc = "send"
  /\ conn # "closed"
  /\ chan' = [chan EXCEPT ![call] = "open"]
  /\ missed' = FALSE
  /\ apc' = "gap"
  /\ UNCHANGED <<deadline, call, buffers, results, total, conn, welcomed, dangling>>

\* The write fails.  The channel stays registered, the buffer allocated, and all but
\* the searches disconnect.
SendFails ==
  /\ apc = "send"
  /\ conn # "up"
  /\ chan' = [chan EXCEPT ![call] = "leaked"]
  /\ outcome' = [outcome EXCEPT ![call] = "failed"]
  /\ conn' = IF Kind[call] = "search" THEN conn ELSE "closed"
  /\ apc' = "idle"
  /\ UNCHANGED <<deadline, call, buffers, got, total, flags>>

\* Take the mutex and wait, whether or not the answer is already there.
Wait ==
  /\ apc = "gap"
  /\ apc' = "waiting"
  /\ UNCHANGED <<deadline, call, buffers, results, channels, conn, flags>>

\* The deadline of despotify_wait_timeout: the call returns, and leaves its channel and
\* its buffer as they are.  despotify_authenticate has none.
TimeOut ==
  /\ apc = "waiting"
  /\ deadline
  /\ call # 0
  /\ outcome' = [outcome EXCEPT ![call] = "timeout"]
  /\ apc' = "idle"
  /\ UNCHANGED <<deadline, call, buffers, got, channels, conn, flags>>

LoggedIn ==
  /\ apc = "woken"
  /\ call = 0
  /\ apc' = "idle"
  /\ UNCHANGED <<deadline, call, buffers, results, channels, conn, flags>>

\* Awake: parse the response and free it (or give it away, for an image).
Parse ==
  /\ apc = "woken"
  /\ call # 0
  /\ got' = [got EXCEPT ![call] = content[response]]
  /\ outcome' = [outcome EXCEPT ![call] = "answer"]
  /\ freed' = freed \cup {response}
  /\ apc' = "idle"
  /\ UNCHANGED <<deadline, call, response, content, channels, conn, flags>>

-----------------------------------------------------------------------------
(* The network thread. *)

Gzip(c) == Kind[c] \in {"search", "browse"}

\* pthread_cond_signal under the mutex: A wakes if it waits.
SignalA ==
  /\ apc' = IF apc = "waiting" THEN "woken" ELSE apc
  /\ missed' = (missed \/ apc = "gap")

\* handle_welcome: the login condition is another one.
Welcome ==
  /\ conn = "up"
  /\ apc # "login"
  /\ ~welcomed
  /\ welcomed' = TRUE
  /\ SignalA
  /\ UNCHANGED <<deadline, call, buffers, results, channels, conn, dangling>>

\* Slip: the length of this packet is counted before its callback runs.
SkipTooLate(c, n) ==
  IF Gzip(c) /\ total[c] + n < Header THEN n ELSE 0

\* What despotify_gzip_callback skips of a packet of length n.
Skip(c, n) ==
  IF ~Gzip(c) \/ total[c] >= Header THEN 0
  ELSE IF Header - total[c] < n THEN Header - total[c] ELSE n

\* And what it appends.
Appended(c, n) == [i \in 1..(n - Skip(c, n)) |-> <<c, total[c] + Skip(c, n) + i>>]

\* Slip: the first data wakes the caller.
DataWakes(c) ==
  /\ conn = "up"
  /\ chan[c] = "open"
  /\ \E n \in 1..MaxPacket :
       /\ total[c] + n <= MaxTotal
       /\ content' = [content EXCEPT ![response] = @ \o Appended(c, n)]
       /\ dangling' = (dangling \/ (Appended(c, n) # <<>> /\ response \in freed))
       /\ total' = [total EXCEPT ![c] = @ + n]
  /\ SignalA
  /\ UNCHANGED <<deadline, call, response, freed, results, chan, conn, welcomed>>

\* A data packet of c's channel: appended to the current response, whoever's it is.
Data(c) ==
  /\ conn = "up"
  /\ chan[c] = "open"
  /\ \E n \in 1..MaxPacket :
       /\ total[c] + n <= MaxTotal
       /\ content' = [content EXCEPT ![response] = @ \o Appended(c, n)]
       /\ dangling' = (dangling \/ (Appended(c, n) # <<>> /\ response \in freed))
       /\ total' = [total EXCEPT ![c] = @ + n]
  /\ UNCHANGED <<deadline, call, apc, response, freed, results, chan, conn, welcomed, missed>>

\* Slip: only an answer that ends is signalled.
DoneUnlessError(c) ==
  /\ conn = "up"
  /\ chan[c] = "open"
  /\ chan' = [chan EXCEPT ![c] = "closed"]
  /\ SignalA \/ UNCHANGED <<apc, missed>>
  /\ UNCHANGED <<deadline, call, buffers, results, total, conn, welcomed, dangling>>

\* The end of the answer, or an error in its place: A is told either way.
Done(c) ==
  /\ conn = "up"
  /\ chan[c] = "open"
  /\ chan' = [chan EXCEPT ![c] = "closed"]
  /\ SignalA
  /\ UNCHANGED <<deadline, call, buffers, results, total, conn, welcomed, dangling>>

\* The server or the network drops the connection: packet_read fails and N ends.
Lose ==
  /\ conn = "up"
  /\ conn' = "lost"
  /\ UNCHANGED <<deadline, call, apc, buffers, results, channels, flags>>

-----------------------------------------------------------------------------

Client == StartNetwork \/ Send \/ SendFails \/ Wait \/ LoggedIn \/ Parse

Answer == Welcome \/ \E c \in Calls : Done(c)

Next == Client \/ Call \/ TimeOut \/ Answer \/ Lose \/ \E c \in Calls : Data(c)

\* A is scheduled and timers expire; the server answers while the connection is up,
\* with no more data than MaxTotal.  It need not call again.
Fairness == WF_vars(Client) /\ WF_vars(TimeOut) /\ WF_vars(Answer)

Spec == Init /\ [][Next]_vars
FairSpec == Spec /\ Fairness

-----------------------------------------------------------------------------
(* Properties. *)

Bytes == Calls \X (0..MaxTotal)

\* Types of the variables; the bytes a callback takes are within the packet.
TypeOK ==
  /\ deadline \in BOOLEAN
  /\ call \in 0..Len(Kind)
  /\ apc \in {"login", "idle", "send", "gap", "waiting", "woken"}
  /\ response \in 0..call
  /\ content \in [Calls -> Seq(Bytes)]
  /\ freed \subseteq Calls
  /\ outcome \in [Calls -> {"none", "answer", "failed", "timeout"}]
  /\ got \in [Calls -> Seq(Bytes)]
  /\ chan \in [Calls -> {"none", "open", "closed", "leaked"}]
  /\ total \in [Calls -> 0..MaxTotal]
  /\ conn \in {"up", "lost", "closed"}
  /\ welcomed \in BOOLEAN /\ missed \in BOOLEAN /\ dangling \in BOOLEAN

\* The answer of c as its caller needs it: without a gzip header, behind the tag of a
\* playlist, and otherwise every byte once and in order.
First(c) == IF Kind[c] = "list" THEN 0 ELSE IF Gzip(c) THEN Header + 1 ELSE 1

OwnLength(c) == IF total[c] < First(c) THEN 0 ELSE total[c] - First(c) + 1

Own(c) == [i \in 1..OwnLength(c) |-> <<c, First(c) - 1 + i>>]

\* A call that returns an answer returns its own, from its first byte to its last:
\* one call's packets never reach another's buffer, however they are cut and delayed.
\* That is so until a call has timed out.
OwnAnswer ==
  (\A c \in Calls : outcome[c] # "timeout") =>
    \A c \in Calls : outcome[c] = "answer" => chan[c] = "closed" /\ got[c] = Own(c)

\* N writes to no buffer that its caller has freed, until a call has timed out.
ResponseAlive == dangling => \E c \in Calls : outcome[c] = "timeout"

\* A call comes back, at its deadline at the latest where the platform has one.  Where
\* not, and for the login, it does unless the answer came before the wait or the
\* connection was lost: nothing else makes N forget a caller.
CallReturns ==
  apc = "waiting" ~> \/ apc # "waiting"
                     \/ ~(deadline /\ call # 0) /\ (missed \/ conn # "up")
=============================================================================
