------------------------------ MODULE Session ------------------------------
(***************************************************************************)
(* The life of a despotify session in the application: the thread A logs   *)
(* in, asks for the playlist and starts to play it (Form1.cpp), the        *)
(* network thread N reads packets and answers some, the decoder thread D   *)
(* asks for audio, and the main thread M ends it all in OnAppTerminating   *)
(* (session.c, packet.c, despotify.c on libposix and bada_network.cpp).    *)
(*                                                                         *)
(* Nothing of the session is locked.  A packet is known by the cipher      *)
(* state it was encrypted with: the IV of the nonce and the writers that   *)
(* have used the state since.  A socket that is not there (ap_sock = -1)   *)
(* is looked up as a null pointer: the program has crashed.                *)
(***************************************************************************)
EXTENDS Integers, Sequences

CONSTANTS
  MaxCalls,    \* bound: the requests A makes for its playlist
  MaxReceived  \* bound: the packets of the server

ASSUME SessionAssumption == MaxCalls \in Nat \ {0} /\ MaxReceived \in Nat

Writers == {"A", "N", "D"}

VARIABLES
  apc,        \* where A is; in a call, the packet it writes
  dns,        \* where the DnsThread of A's look-up is
  host,       \* asyncDnsResult is an entry, not null
  missed,     \* the listener has notified before A waited
  npc,        \* where N is
  mpc,        \* where M is in despotify_exit
  dpc,        \* where A and M are in session_disconnect
  wpc,        \* where each thread is in packet_write
  ok,         \* what packet_write returned to A
  calls,
  conn,       \* the socket: "none", "open", "lost" by the server, "closed"
  ap_sock,    \* whether ap_sock is a socket
  send_IV, recv_IV,
  shn_send,   \* the cipher state: the IV of the nonce, then who used it
  packet,     \* the state each writer's packet was encrypted with
  sent,       \* the packets that the server got, while the socket is open
  hdr_IV,     \* the IV N decrypts the current packet with
  received,   \* the packets N has read
  thread,     \* ds->thread
  asked,      \* the key of the first track was asked for
  hungry,     \* D will ask for a substream
  freed,      \* free(ds)
  crashed,    \* a null pointer was used
  touched,    \* a thread used the session after it was freed
  inside,     \* A had not returned from the library when M began
  late,       \* A has connected after M began
  handling,   \* N was not waiting for a packet when the socket was closed
  overlapped, \* two threads were in packet_write at the same time
  garbled,    \* a packet came to the server that it cannot decrypt
  misread     \* N handled a packet it could not decrypt

client == <<apc, ok, calls>>
lookup == <<dns, host, missed>>
ivs == <<send_IV, recv_IV>>
writing == <<wpc, shn_send, packet, sent>>
reading == <<hdr_IV, received>>
playback == <<asked, hungry>>
history == <<touched, inside, late, handling, overlapped, garbled, misread>>
vars == <<client, lookup, npc, mpc, dpc, conn, ap_sock, ivs, writing, reading, thread, playback,
          freed, crashed, history>>

Init ==
  /\ apc = "connect" /\ npc = "none" /\ mpc = "run"
  /\ dpc = [t \in {"A", "M"} |-> "out"]
  /\ wpc = [w \in Writers |-> "out"] /\ ok = TRUE
  /\ calls = 0
  /\ dns = "none" /\ host = FALSE /\ missed = FALSE
  /\ conn = "none" /\ ap_sock = FALSE
  /\ send_IV = 0 /\ recv_IV = 0
  /\ shn_send = <<0>> /\ packet = [w \in Writers |-> <<0>>]
  /\ sent = 0 /\ hdr_IV = 0 /\ received = 0
  /\ thread = FALSE /\ asked = FALSE /\ hungry = FALSE
  /\ freed = FALSE /\ crashed = FALSE
  /\ touched = FALSE /\ inside = FALSE /\ late = FALSE /\ handling = FALSE
  /\ overlapped = FALSE /\ garbled = FALSE /\ misread = FALSE

\* The session can still be used.
Alive == ~freed /\ ~crashed

\* A null pointer is used, as in a socket call with ap_sock = -1.
Crash == crashed' = TRUE

-----------------------------------------------------------------------------
(* session_disconnect, on A when a request cannot be written and on M. *)

\* Slip: the IVs are reset before the socket is closed.
CheckResets(t) ==
  /\ Alive /\ dpc[t] = "check"
  /\ dpc' = [dpc EXCEPT ![t] = IF ap_sock THEN "close" ELSE "reset"]
  /\ send_IV' = 0 /\ recv_IV' = 0
  /\ UNCHANGED <<client, lookup, npc, mpc, conn, ap_sock, writing, reading, thread, playback, freed,
                 crashed, history>>

Check(t) ==
  /\ Alive /\ dpc[t] = "check"
  /\ dpc' = [dpc EXCEPT ![t] = IF ap_sock THEN "close" ELSE "reset"]
  /\ UNCHANGED <<client, lookup, npc, mpc, conn, ap_sock, ivs, writing, reading, thread, playback, freed,
                 crashed, history>>

\* sock_close; the other thread may have been here before.
Close(t) ==
  /\ Alive /\ dpc[t] = "close"
  /\ \/ ap_sock /\ conn' = "closed" /\ sent' = 0 /\ UNCHANGED crashed
     \/ ~ap_sock /\ Crash /\ UNCHANGED <<conn, sent>>
  /\ dpc' = [dpc EXCEPT ![t] = "unset"]
  /\ handling' = (handling \/ npc \notin {"none", "header", "body", "ended"})
  /\ UNCHANGED <<client, lookup, npc, mpc, ap_sock, ivs, wpc, shn_send, packet, reading, thread, playback,
                 freed,
                 touched, inside, late, overlapped, garbled, misread>>

Unset(t) ==
  /\ Alive /\ dpc[t] = "unset"
  /\ ap_sock' = FALSE
  /\ dpc' = [dpc EXCEPT ![t] = "reset"]
  /\ UNCHANGED <<client, lookup, npc, mpc, conn, ivs, writing, reading, thread, playback, freed, crashed,
                 history>>

Reset(t) ==
  /\ Alive /\ dpc[t] = "reset"
  /\ send_IV' = 0 /\ recv_IV' = 0
  /\ dpc' = [dpc EXCEPT ![t] = "out"]
  /\ UNCHANGED <<client, lookup, npc, mpc, conn, ap_sock, writing, reading, thread, playback, freed,
                 crashed, history>>

Disconnect(t) == Check(t) \/ Close(t) \/ Unset(t) \/ Reset(t)

-----------------------------------------------------------------------------
(* packet_write, on any thread.  What is encrypted after the first overlap is spoilt (see InSync), and
   not followed. *)

\* The thread w calls packet_write.
Enter(w) == wpc' = [wpc EXCEPT ![w] = "nonce"]

\* shn_nonce: a fresh state from the send IV.
Nonce(w) ==
  /\ Alive /\ wpc[w] = "nonce"
  /\ wpc' = [wpc EXCEPT ![w] = "encrypt"]
  /\ overlapped' = (overlapped \/ \E v \in Writers \ {w} : wpc[v] \notin {"out", "nonce"})
  /\ shn_send' = IF overlapped' THEN <<0>> ELSE <<send_IV>>
  /\ UNCHANGED <<client, lookup, npc, mpc, dpc, conn, ap_sock, ivs, packet, sent, reading, thread,
                 playback, freed, crashed,
                 touched, inside, late, handling, garbled, misread>>

\* shn_encrypt and shn_finish, which makes the MAC: a thread between the two would only
\* spoil what is spoilt already.
Encrypt(w) ==
  /\ Alive /\ wpc[w] = "encrypt"
  /\ wpc' = [wpc EXCEPT ![w] = "send"]
  /\ shn_send' = IF overlapped THEN shn_send ELSE Append(shn_send, w)
  /\ packet' = [packet EXCEPT ![w] = shn_send']
  /\ UNCHANGED <<client, lookup, npc, mpc, dpc, conn, ap_sock, ivs, sent, reading, thread, playback, freed,
                 crashed, history>>

\* block_write, and the packet is freed.  It fails once this side has closed the socket, and may fail when the
\* server has.
Write(w) ==
  /\ Alive /\ wpc[w] = "send"
  /\ \/ ~ap_sock /\ Crash /\ UNCHANGED <<ok, sent, garbled>>
     \/ /\ ap_sock /\ conn \in {"open", "lost"}
        /\ sent' = IF conn = "open" THEN sent + 1 ELSE sent
        /\ garbled' = (garbled \/ (conn = "open" /\ ~overlapped /\ packet[w] # <<sent, w>>))
        /\ ok' = IF w = "A" THEN TRUE ELSE ok
        /\ UNCHANGED crashed
     \/ /\ ap_sock /\ conn \in {"lost", "closed"}
        /\ ok' = IF w = "A" THEN FALSE ELSE ok
        /\ UNCHANGED <<crashed, sent, garbled>>
  /\ asked' = (asked \/ (w = "A" /\ apc = "key" /\ sent' > sent))
  /\ packet' = [packet EXCEPT ![w] = <<0>>]
  /\ wpc' = [wpc EXCEPT ![w] = "count"]
  /\ UNCHANGED <<apc, calls, lookup, npc, mpc, dpc, conn, ap_sock, ivs, shn_send, reading, thread, hungry,
                 freed, touched, inside, late, handling, overlapped, misread>>

\* key_send_IV++, written or not, and back to the caller.
Count(w) ==
  /\ Alive /\ wpc[w] = "count"
  /\ send_IV' = IF overlapped THEN 0 ELSE send_IV + 1
  /\ wpc' = [wpc EXCEPT ![w] = "out"]
  /\ UNCHANGED <<client, lookup, npc, mpc, dpc, conn, ap_sock, recv_IV, shn_send, packet, sent, reading,
                 thread, playback,
                 freed, crashed, history>>

Writing(w) == Nonce(w) \/ Encrypt(w) \/ Write(w) \/ Count(w)

-----------------------------------------------------------------------------
(* A: AuthenticationThread::Run. *)

\* session_connect: the one host of the list is a name, and gethostbyname starts a
\* DnsThread to look it up.
LookUp ==
  /\ ~crashed /\ apc = "connect"
  /\ apc' = "wait"
  /\ dns' = "asked"
  /\ UNCHANGED <<ok, calls, host, missed, npc, mpc, dpc, conn, ap_sock, ivs, writing, reading, thread, playback,
                 freed, crashed, history>>

\* The monitor is entered, by nobody else, and waited on without a look at the result.
Wait ==
  /\ ~crashed /\ apc = "wait"
  /\ apc' = "asleep"
  /\ UNCHANGED <<ok, calls, lookup, npc, mpc, dpc, conn, ap_sock, ivs, writing, reading, thread, playback,
                 freed, crashed, history>>

\* The result is taken, the thread deleted, and the result's addresses are asked for: a
\* look-up that failed has none, and no result either.
TakeResult ==
  /\ ~crashed /\ apc = "address"
  /\ IF host THEN apc' = "socket" /\ UNCHANGED crashed
             ELSE apc' = "null" /\ Crash
  /\ dns' = "none" /\ host' = FALSE
  /\ UNCHANGED <<ok, calls, missed, npc, mpc, dpc, conn, ap_sock, ivs, writing, reading, thread, playback,
                 freed, history>>

\* The listener is given the result, or null.
Resolved ==
  /\ ~crashed /\ dns = "asked"
  /\ dns' = "notify"
  /\ host' \in BOOLEAN
  /\ UNCHANGED <<client, missed, npc, mpc, dpc, conn, ap_sock, ivs, writing, reading, thread, playback,
                 freed, crashed, history>>

\* Slip: a look-up that failed is not told.
NotifyFound ==
  /\ ~crashed /\ dns = "notify"
  /\ dns' = "told"
  /\ apc' = IF apc = "asleep" /\ host THEN "address" ELSE apc
  /\ missed' = (apc # "asleep")
  /\ UNCHANGED <<ok, calls, host, npc, mpc, dpc, conn, ap_sock, ivs, writing, reading, thread, playback,
                 freed, crashed, history>>

\* It notifies a monitor it has not entered: nobody hears it when A does not wait yet.
Notify ==
  /\ ~crashed /\ dns = "notify"
  /\ dns' = "told"
  /\ apc' = IF apc = "asleep" THEN "address" ELSE apc
  /\ missed' = (apc # "asleep")
  /\ UNCHANGED <<ok, calls, host, npc, mpc, dpc, conn, ap_sock, ivs, writing, reading, thread, playback,
                 freed, crashed, history>>

\* network_connect: the host takes the connection or does not.
Connect ==
  /\ Alive /\ apc = "socket"
  /\ \/ apc' = "exchange" /\ conn' = "open" /\ ap_sock' = TRUE
     \/ apc' = "done" /\ UNCHANGED <<conn, ap_sock>>
  /\ late' = (late \/ (ap_sock' /\ mpc # "run"))
  /\ UNCHANGED <<ok, calls, lookup, npc, mpc, dpc, ivs, writing, reading, thread, playback, freed, crashed,
                 touched, inside, handling, overlapped, garbled, misread>>

\* A send and a block_read of the login, with ap_sock looked up for each: the server
\* agrees, refuses, or cannot be reached.
Talk(here, there) ==
  /\ Alive /\ apc = here
  /\ \/ conn = "open" /\ ap_sock /\ apc' = there /\ UNCHANGED crashed
     \/ apc' = "done" /\ UNCHANGED crashed
     \/ ~ap_sock /\ Crash /\ UNCHANGED apc
  /\ UNCHANGED <<ok, calls, lookup, npc, mpc, dpc, conn, ap_sock, ivs, writing, reading, thread, playback,
                 freed, history>>

Exchange == Talk("exchange", "keys")

\* key_init: shn_key, and the IVs are reset.
KeyInit ==
  /\ Alive /\ apc = "keys"
  /\ send_IV' = 0 /\ recv_IV' = 0
  /\ apc' = "auth"
  /\ UNCHANGED <<ok, calls, lookup, npc, mpc, dpc, conn, ap_sock, writing, reading, thread, playback,
                 freed, crashed, history>>

Auth == Talk("auth", "create")

\* pthread_create: the Thread is assigned, and then started.
Create ==
  /\ Alive /\ apc = "create"
  /\ thread' = TRUE
  /\ apc' = "start"
  /\ UNCHANGED <<ok, calls, lookup, npc, mpc, dpc, conn, ap_sock, ivs, writing, reading, playback, freed,
                 crashed, history>>

\* Then A waits for WELCOME.
Start ==
  /\ ~crashed /\ apc = "start"
  /\ npc' = "loop"
  /\ apc' = "login"
  /\ UNCHANGED <<ok, calls, lookup, mpc, dpc, conn, ap_sock, ivs, writing, reading, thread, playback,
                 freed, crashed, history>>

\* The playlist is requested, past the cache, and then its tracks, batch by batch;
\* despotify_play writes a token and asks for the key of the first track.
Request ==
  /\ Alive
  /\ \/ apc = "in" /\ calls < MaxCalls /\ apc' = "request" /\ calls' = calls + 1
     \/ apc = "in" /\ calls > 0 /\ apc' = "token" /\ UNCHANGED calls
     \/ apc = "token" /\ wpc["A"] = "out" /\ ok /\ apc' = "key" /\ UNCHANGED calls
  /\ Enter("A")
  /\ UNCHANGED <<ok, lookup, npc, mpc, dpc, conn, ap_sock, ivs, shn_send, packet, sent, reading, thread,
                 playback,
                 freed, crashed, history>>

\* A request that was written is waited for; a call that could not write it
\* disconnects, despotify_play just returns.  What packet_write returned has been used.
Requested ==
  /\ Alive /\ wpc["A"] = "out"
  /\ \/ apc = "request" /\ ok /\ apc' = "waiting" /\ UNCHANGED dpc
     \/ apc = "request" /\ ~ok /\ apc' = "failed" /\ dpc' = [dpc EXCEPT !["A"] = "check"]
     \/ apc = "token" /\ ~ok /\ apc' = "done" /\ UNCHANGED dpc
     \/ apc = "key" /\ apc' = "done" /\ UNCHANGED dpc
  /\ ok' = TRUE
  /\ UNCHANGED <<calls, lookup, npc, mpc, conn, ap_sock, ivs, writing, reading, thread, playback, freed,
                 crashed, history>>

\* No playlist is returned, and Run takes the tracks of it all the same.
GiveUp ==
  /\ Alive /\ apc = "failed" /\ dpc["A"] = "out"
  /\ apc' = "null"
  /\ Crash
  /\ UNCHANGED <<ok, calls, lookup, npc, mpc, dpc, conn, ap_sock, ivs, writing, reading, thread, playback,
                 freed, history>>

\* D, until OnAppTerminating has joined it: despotify_snd_read_stream, one substream at
\* a time.
Stream ==
  /\ Alive /\ mpc = "run" /\ hungry /\ wpc["D"] = "out"
  /\ hungry' = FALSE
  /\ Enter("D")
  /\ UNCHANGED <<client, lookup, npc, mpc, dpc, conn, ap_sock, ivs, shn_send, packet, sent, reading,
                 thread, asked,
                 freed, crashed, history>>

-----------------------------------------------------------------------------
(* N: despotify_thread. *)

Loop ==
  /\ Alive /\ npc = "loop"
  /\ npc' = IF thread THEN "read" ELSE "ended"
  /\ UNCHANGED <<client, lookup, mpc, dpc, conn, ap_sock, ivs, writing, reading, thread, playback, freed,
                 crashed, history>>

\* packet_read hands ap_sock to block_read, for the header and again for the payload.
Receive ==
  /\ Alive /\ npc \in {"read", "payload"}
  /\ IF ap_sock THEN npc' = (IF npc = "read" THEN "header" ELSE "body") /\ UNCHANGED crashed
                ELSE Crash /\ UNCHANGED npc
  /\ UNCHANGED <<client, lookup, mpc, dpc, conn, ap_sock, ivs, writing, reading, thread, playback, freed,
                 history>>

\* The header has come.
Header ==
  /\ Alive /\ npc = "header" /\ conn = "open" /\ received < MaxReceived
  /\ npc' = "decrypt"
  /\ UNCHANGED <<client, lookup, mpc, dpc, conn, ap_sock, ivs, writing, reading, thread, playback, freed,
                 crashed, history>>

\* shn_nonce and shn_decrypt, which also gives the length of the payload.
Decrypt ==
  /\ Alive /\ npc = "decrypt"
  /\ hdr_IV' = recv_IV
  /\ npc' = "payload"
  /\ UNCHANGED <<client, lookup, mpc, dpc, conn, ap_sock, ivs, writing, received, thread, playback, freed,
                 crashed, history>>

\* The payload has come and is decrypted: key_recv_IV++, and handle_packet.
Body ==
  /\ Alive /\ npc = "body" /\ conn = "open"
  /\ recv_IV' = recv_IV + 1
  /\ received' = received + 1
  /\ misread' = (misread \/ hdr_IV # received)
  /\ hdr_IV' = 0
  /\ npc' = "handle"
  /\ UNCHANGED <<client, lookup, mpc, dpc, conn, ap_sock, send_IV, writing, thread, playback, freed, crashed,
                 touched, inside, late, handling, overlapped, garbled>>

\* The connection is gone: packet_read returns -1 and the thread ends.
ReadFails ==
  /\ ~crashed /\ npc \in {"header", "body"} /\ conn # "open"
  /\ npc' = "ended"
  /\ UNCHANGED <<client, lookup, mpc, dpc, conn, ap_sock, ivs, writing, reading, thread, playback, freed,
                 crashed, history>>

\* WELCOME, or the end of an answer: A is told if it waits.
HandleSignal ==
  /\ Alive /\ npc = "handle"
  /\ \E awaited \in {"login", "waiting"} : apc' = IF apc = awaited THEN "in" ELSE apc
  /\ npc' = "loop"
  /\ UNCHANGED <<ok, calls, lookup, mpc, dpc, conn, ap_sock, ivs, writing, reading, thread, playback,
                 freed, crashed, history>>

\* The secret block and a ping are replied to, and a track that ends asks for the next key.
HandleReply ==
  /\ Alive /\ npc = "handle"
  /\ Enter("N")
  /\ npc' = "reply"
  /\ UNCHANGED <<client, lookup, mpc, dpc, conn, ap_sock, ivs, shn_send, packet, sent, reading, thread,
                 playback, freed, crashed, history>>

\* Whether the reply could be written is ignored.
Replied ==
  /\ Alive /\ npc = "reply" /\ wpc["N"] = "out"
  /\ npc' = "loop"
  /\ UNCHANGED <<client, lookup, mpc, dpc, conn, ap_sock, ivs, writing, reading, thread, playback, freed,
                 crashed, history>>

\* The key of the first track, or the end of a substream: D may ask for the next, if it
\* is still there.
HandleAudio ==
  /\ Alive /\ npc = "handle" /\ asked
  /\ hungry' = (mpc = "run")
  /\ npc' = "loop"
  /\ UNCHANGED <<client, lookup, mpc, dpc, conn, ap_sock, ivs, writing, reading, thread, asked, freed,
                 crashed, history>>

\* The server or the network drops the connection.
Lose ==
  /\ conn = "open" /\ ~crashed
  /\ conn' = "lost" /\ sent' = 0
  /\ UNCHANGED <<client, lookup, npc, mpc, dpc, ap_sock, ivs, wpc, shn_send, packet, reading, thread,
                 playback, freed, crashed, history>>

-----------------------------------------------------------------------------
(* M: OnAppTerminating from the end of D on: despotify_exit. *)

Terminate ==
  /\ Alive /\ mpc = "run" /\ wpc["D"] = "out"
  /\ mpc' = "disconnect"
  /\ hungry' = FALSE
  /\ dpc' = [dpc EXCEPT !["M"] = "check"]
  /\ inside' = (apc # "done")
  /\ UNCHANGED <<client, lookup, npc, conn, ap_sock, ivs, writing, reading, thread, asked, freed, crashed,
                 touched, late, handling, overlapped, garbled, misread>>

\* ds->thread is cleared.  pthread_cancel is Thread::Exit, which is not about N.
Cancel ==
  /\ Alive /\ mpc = "disconnect" /\ dpc["M"] = "out"
  /\ thread' = FALSE
  /\ mpc' = IF thread THEN "join" ELSE "destroy"
  /\ UNCHANGED <<client, lookup, npc, dpc, conn, ap_sock, ivs, writing, reading, playback, freed, crashed,
                 history>>

\* Slip: a thread that has not been started is waited for.
JoinStarted ==
  /\ Alive /\ mpc = "join" /\ npc = "ended"
  /\ mpc' = "destroy"
  /\ UNCHANGED <<client, lookup, npc, dpc, conn, ap_sock, ivs, writing, reading, thread, playback, freed,
                 crashed, history>>

\* Slip: pthread_join is not called.
JoinNothing ==
  /\ Alive /\ mpc = "join"
  /\ mpc' = "destroy"
  /\ UNCHANGED <<client, lookup, npc, dpc, conn, ap_sock, ivs, writing, reading, thread, playback, freed,
                 crashed, history>>

\* pthread_join; a thread that has not been started is not waited for.
Join ==
  /\ Alive /\ mpc = "join" /\ npc \in {"none", "ended"}
  /\ mpc' = "destroy"
  /\ UNCHANGED <<client, lookup, npc, dpc, conn, ap_sock, ivs, writing, reading, thread, playback, freed,
                 crashed, history>>

\* snd_destroy, and session_free, which disconnects again.
Destroy ==
  /\ Alive /\ mpc = "destroy"
  /\ mpc' = "free"
  /\ dpc' = [dpc EXCEPT !["M"] = "check"]
  /\ UNCHANGED <<client, lookup, npc, conn, ap_sock, ivs, writing, reading, thread, playback, freed,
                 crashed, history>>

Free ==
  /\ Alive /\ mpc = "free" /\ dpc["M"] = "out"
  /\ freed' = TRUE
  /\ mpc' = "done"
  /\ UNCHANGED <<client, lookup, npc, dpc, conn, ap_sock, ivs, writing, reading, thread, playback, crashed,
                 history>>

\* The next step of a thread that was left behind uses what was freed.
Touch(t) ==
  /\ freed /\ ~crashed /\ ~touched
  /\ \/ t = "A" /\ apc \notin {"connect", "wait", "asleep", "address", "login", "waiting", "null", "done"}
     \/ t = "N" /\ npc \notin {"none", "header", "body", "ended"}
     \/ t = "D" /\ wpc["D"] # "out"
  /\ touched' = TRUE
  /\ UNCHANGED <<client, lookup, npc, mpc, dpc, conn, ap_sock, ivs, writing, reading, thread, playback,
                 freed, crashed,
                 inside, late, handling, overlapped, garbled, misread>>

-----------------------------------------------------------------------------

LookupStep == LookUp \/ Wait \/ TakeResult

DnsThread == Resolved \/ Notify

ClientStep ==
  \/ LookupStep \/ Connect \/ Exchange \/ KeyInit \/ Auth \/ Create \/ Start \/ Request \/ Requested \/ GiveUp
  \/ Writing("A") \/ Disconnect("A")

NetworkStep ==
  \/ Loop \/ Receive \/ Header \/ Decrypt \/ Body \/ ReadFails
  \/ HandleSignal \/ HandleReply \/ Replied \/ HandleAudio \/ Writing("N")

ExitStep == Cancel \/ Join \/ Destroy \/ Free \/ Disconnect("M")

Next ==
  \/ ClientStep \/ DnsThread \/ NetworkStep \/ ExitStep
  \/ Stream \/ Writing("D") \/ Terminate \/ Lose
  \/ \E t \in Writers : Touch(t)

Spec == Init /\ [][Next]_vars

\* The threads are scheduled, A as far as its look-up goes; that a blocked Receive fails
\* when its Socket is closed is ReadFails, and that a look-up is answered or fails is Resolved.
FairSpec ==
  /\ Spec
  /\ WF_vars(NetworkStep) /\ WF_vars(ExitStep)
  /\ WF_vars(LookupStep \/ DnsThread)

-----------------------------------------------------------------------------
(* Properties. *)

\* A cipher state: a nonce and who has used it, once at most until two threads overlap.
IsState(s) == Len(s) \in 1..2 /\ s[1] \in Nat /\ (Len(s) = 2 => s[2] \in Writers)

FlagTypes ==
  /\ host \in BOOLEAN /\ missed \in BOOLEAN /\ ok \in BOOLEAN /\ ap_sock \in BOOLEAN
  /\ thread \in BOOLEAN /\ asked \in BOOLEAN /\ hungry \in BOOLEAN

HistoryTypes ==
  /\ freed \in BOOLEAN /\ crashed \in BOOLEAN /\ touched \in BOOLEAN
  /\ inside \in BOOLEAN /\ late \in BOOLEAN /\ handling \in BOOLEAN
  /\ overlapped \in BOOLEAN /\ garbled \in BOOLEAN /\ misread \in BOOLEAN

PlaceTypes ==
  /\ dns \in {"none", "asked", "notify", "told"}
  /\ apc \in {"connect", "wait", "asleep", "address", "socket", "exchange", "keys", "auth", "create",
              "start", "login", "in", "request", "waiting", "failed", "null", "token", "key", "done"}
  /\ npc \in {"none", "loop", "read", "header", "decrypt", "payload", "body", "handle", "reply", "ended"}
  /\ mpc \in {"run", "disconnect", "join", "destroy", "free", "done"}
  /\ dpc \in [{"A", "M"} -> {"out", "check", "close", "unset", "reset"}]
  /\ wpc \in [Writers -> {"out", "nonce", "encrypt", "send", "count"}]
  /\ conn \in {"none", "open", "lost", "closed"}

CountTypes ==
  /\ calls \in 0..MaxCalls /\ received \in 0..MaxReceived
  /\ send_IV \in Nat /\ recv_IV \in Nat /\ hdr_IV \in Nat /\ sent \in Nat

CipherTypes ==
  /\ IsState(shn_send)
  /\ DOMAIN packet = Writers /\ \A w \in Writers : IsState(packet[w])

\* Types of the variables.
TypeOK == FlagTypes /\ HistoryTypes /\ PlaceTypes /\ CountTypes /\ CipherTypes

\* The two ends stay in step, although M resets the IVs while N may be between header
\* and payload and others may be writing: N never handles a packet it has not decrypted
\* with its own IV, and the server gets none it cannot decrypt.  Two things break it:
\* two threads in packet_write at the same time, whose nonces and counts nothing
\* protects, and a connection that A makes while M tears the session down.
InSync ==
  /\ misread => late
  /\ garbled => overlapped \/ late

\* When A has returned from the library, nobody uses the session once it is freed; and
\* when also N was waiting for a packet as the socket was closed, nobody uses the
\* socket that is not there any more (despotify_free, session_disconnect): the only other
\* crashes are those of A without a playlist and without an address.
SafeTeardown ==
  /\ touched => inside
  /\ crashed => inside \/ handling \/ apc = "null"

\* "Networking thread may block here on socket": despotify_exit comes back all the same,
\* as the socket is closed first, unless A connects behind its back.
ExitReturns == mpc = "disconnect" ~> mpc = "done" \/ crashed \/ late

\* The look-up comes back, answered or failed and whatever M does meanwhile, unless the
\* listener notifies before A waits (gethostbyname, OnDnsResolutionCompletedN).
LookupReturns == dns = "asked" ~> apc \notin {"wait", "asleep"} \/ missed \/ crashed
=============================================================================
