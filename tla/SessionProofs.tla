--------------------------- MODULE SessionProofs ---------------------------
(***************************************************************************)
(* Proofs about Session, for any number of requests and of packets: the    *)
(* two ends stay in step, and the teardown touches nothing that is freed,  *)
(* but for the overlaps that the properties name.                          *)
(***************************************************************************)
EXTENDS Session, SequenceTheorems, TLAPS

\* Where A is before it has started N.
Before == {"connect", "wait", "asleep", "address", "socket", "exchange", "keys", "auth", "create", "start"}

\* N is started by the last step of the login, and nothing is read, written or asked for before.
Started ==
  /\ apc \in Before => npc = "none"
  /\ apc \in {"login", "in", "request", "waiting", "failed", "token", "key"} => npc # "none"
  /\ npc = "none" => /\ \A w \in Writers : wpc[w] = "out"
                     /\ sent = 0 /\ send_IV = 0 /\ recv_IV = 0 /\ received = 0
                     /\ ~asked /\ ~hungry

\* Who can be in packet_write and in session_disconnect.
Callers ==
  /\ wpc["A"] # "out" => apc \in {"request", "token", "key"}
  /\ wpc["N"] # "out" => npc = "reply"
  /\ wpc["D"] # "out" \/ hungry => mpc = "run" /\ asked
  /\ asked => apc \in {"key", "done"}
  /\ dpc["A"] # "out" => apc = "failed"
  /\ dpc["M"] # "out" => mpc \in {"disconnect", "free"}

\* What M has come to says whether the session is freed, and whether A can still be inside it.
Ending ==
  /\ freed => mpc = "done"
  /\ touched => freed
  /\ inside \/ late => mpc # "run"
  /\ late => inside
  /\ mpc # "run" /\ ~inside => apc = "done"

\* The socket is gone, or about to be.
Off == ~ap_sock \/ conn = "closed"

\* The socket, from the connection to the call that closes it.
Socket ==
  /\ conn = "none" => /\ npc = "none" /\ ~ap_sock
                      /\ apc \in {"connect", "wait", "asleep", "address", "socket", "null", "done"}
  /\ conn = "open" => ap_sock \/ late
  /\ mpc = "run" /\ conn # "none" /\ apc \notin {"failed", "null"} => ap_sock /\ conn # "closed"
  /\ \A t \in {"A", "M"} : /\ dpc[t] = "close" => ap_sock \/ inside
                           /\ dpc[t] \in {"unset", "reset"} => Off \/ late

\* N has ended or will, as its read fails, once the socket is closed while it waits for a packet.
Quiet == Off => npc \in {"none", "header", "body", "ended"} \/ inside \/ handling

\* N has ended before the session is freed.
Joined ==
  /\ mpc \in {"run", "disconnect"} /\ (npc # "none" \/ apc = "start") => thread
  /\ mpc \in {"destroy", "free", "done"} => npc \in {"none", "ended"} \/ inside

\* The packet N is reading is one of those that come.
Coming == npc \in {"decrypt", "payload", "body"} => received < MaxReceived

\* A thread that has given a nonce and not yet counted its packet.
InWrite(w) == wpc[w] \in {"encrypt", "send", "count"}

\* Until two overlap, the cipher state is that of the one thread in packet_write.
OneWriter ==
  /\ ~overlapped => \A v, w \in Writers : InWrite(v) /\ InWrite(w) => v = w
  /\ ~overlapped => \A w \in Writers : wpc[w] = "encrypt" => shn_send = <<shn_send[1]>>

\* While the connection is open both ends count the same packets.
Reads ==
  conn = "open" /\ ~late => /\ recv_IV = received
                            /\ npc \in {"payload", "body"} => hdr_IV = received
Writes ==
  conn = "open" /\ ~late /\ ~overlapped =>
    /\ \A w \in Writers : /\ wpc[w] = "encrypt" => shn_send = <<send_IV>>
                          /\ wpc[w] = "send" => packet[w] = <<send_IV, w>>
                          /\ wpc[w] = "count" => sent = send_IV + 1
    /\ (\A w \in Writers : wpc[w] # "count") => sent = send_IV

IInv ==
  /\ TypeOK /\ Started /\ Callers /\ Ending /\ Socket /\ Quiet /\ Joined
  /\ Coming /\ OneWriter /\ Reads /\ Writes /\ InSync /\ SafeTeardown

-----------------------------------------------------------------------------
(* The steps, one by one. *)

\* What A does of its own.
Client == \/ LookUp \/ Wait \/ TakeResult \/ Connect \/ Exchange \/ KeyInit \/ Auth \/ Create
          \/ Start \/ Request \/ Requested \/ GiveUp

\* What N does of its own.
Reader == \/ Loop \/ Receive \/ Header \/ Decrypt \/ Body \/ ReadFails
          \/ HandleSignal \/ HandleReply \/ Replied \/ HandleAudio

\* What is left for the others.
Others == \/ Resolved \/ Notify \/ Cancel \/ Join \/ Destroy \/ Free \/ Stream \/ Terminate \/ Lose
          \/ \E t \in Writers : Touch(t)

LEMMA Steps ==
  ASSUME [Next]_vars
  PROVE  \/ Client \/ Reader \/ Others
         \/ \E w \in Writers : Nonce(w) \/ Encrypt(w) \/ Write(w) \/ Count(w)
         \/ \E t \in {"A", "M"} : Check(t) \/ Close(t) \/ Unset(t) \/ Reset(t)
         \/ UNCHANGED vars
<1>1. "A" \in Writers /\ "N" \in Writers /\ "D" \in Writers /\ "A" \in {"A", "M"} /\ "M" \in {"A", "M"}
  BY DEF Writers
<1>2. CASE ClientStep
  BY <1>1, <1>2, Zenon DEF ClientStep, LookupStep, Client, Writing, Disconnect
<1>3. CASE NetworkStep
  BY <1>1, <1>3, Zenon DEF NetworkStep, Reader, Writing
<1>4. CASE DnsThread \/ Terminate \/ Stream \/ Lose \/ \E t \in Writers : Touch(t)
  BY <1>4, Zenon DEF DnsThread, Others
<1>5. CASE ExitStep
  BY <1>1, <1>5, Zenon DEF ExitStep, Disconnect, Others
<1>6. CASE Writing("D")
  BY <1>1, <1>6, Zenon DEF Writing
<1> QED
  BY <1>2, <1>3, <1>4, <1>5, <1>6, Zenon DEF Next

-----------------------------------------------------------------------------
(* Types. *)

\* The flags stay Boolean.
LEMMA FlagsKept == FlagTypes /\ [Next]_vars => FlagTypes'
<1> SUFFICES ASSUME FlagTypes, [Next]_vars PROVE FlagTypes'
  OBVIOUS
<1> USE DEF FlagTypes, client, lookup, playback
<1>1. CASE LookUp \/ Wait \/ TakeResult
  BY <1>1, Zenon DEF LookUp, Wait, TakeResult
<1>2. CASE Connect \/ KeyInit
  BY <1>2, Zenon DEF Connect, KeyInit
<1>3. CASE Exchange \/ Auth
  BY <1>3, Zenon DEF Exchange, Auth, Talk
<1>4. CASE Create \/ Start
  BY <1>4, Zenon DEF Create, Start
<1>5. CASE Request
  BY <1>5, Zenon DEF Request
<1>6. CASE Requested \/ GiveUp
  BY <1>6, Zenon DEF Requested, GiveUp
<1>7. CASE Loop \/ Receive \/ Header
  BY <1>7, Zenon DEF Loop, Receive, Header
<1>8. CASE Decrypt \/ Body \/ ReadFails
  BY <1>8, Zenon DEF Decrypt, Body, ReadFails
<1>9. CASE HandleSignal \/ HandleReply \/ Replied \/ HandleAudio
  BY <1>9, Zenon DEF HandleSignal, HandleReply, Replied, HandleAudio
<1>10. CASE Resolved \/ Notify
  BY <1>10, Zenon DEF Resolved, Notify
<1>11. CASE Cancel \/ Join \/ Destroy \/ Free
  BY <1>11, Zenon DEF Cancel, Join, Destroy, Free
<1>12. CASE Stream \/ Terminate \/ Lose
  BY <1>12, Zenon DEF Stream, Terminate, Lose
<1>13. ASSUME NEW t \in Writers, Touch(t) PROVE FlagTypes'
  BY <1>13, Zenon DEF Touch
<1>14. ASSUME NEW w \in Writers, Nonce(w) \/ Encrypt(w) \/ Count(w) PROVE FlagTypes'
  BY <1>14, Zenon DEF Nonce, Encrypt, Count
<1>15. ASSUME NEW w \in Writers, Write(w) PROVE FlagTypes'
  BY <1>15, Zenon DEF Write
<1>16. ASSUME NEW t \in {"A", "M"}, Check(t) \/ Close(t) \/ Unset(t) \/ Reset(t) PROVE FlagTypes'
  BY <1>16, Zenon DEF Check, Close, Unset, Reset
<1>17. CASE UNCHANGED vars
  BY <1>17, Zenon DEF vars
<1> QED
  BY <1>1, <1>2, <1>3, <1>4, <1>5, <1>6, <1>7, <1>8, <1>9, <1>10, <1>11, <1>12, <1>13, <1>14, <1>15, <1>16, <1>17,
     Steps, Zenon DEF Client, Reader, Others

\* So does what is recorded.
LEMMA HistoryKept == HistoryTypes /\ [Next]_vars => HistoryTypes'
<1> SUFFICES ASSUME HistoryTypes, [Next]_vars PROVE HistoryTypes'
  OBVIOUS
<1> USE DEF HistoryTypes, history, Crash
<1>1. CASE LookUp \/ Wait \/ TakeResult
  BY <1>1, Zenon DEF LookUp, Wait, TakeResult
<1>2. CASE Connect \/ KeyInit
  BY <1>2, Zenon DEF Connect, KeyInit
<1>3. CASE Exchange \/ Auth
  BY <1>3, Zenon DEF Exchange, Auth, Talk
<1>4. CASE Create \/ Start
  BY <1>4, Zenon DEF Create, Start
<1>5. CASE Request
  BY <1>5, Zenon DEF Request
<1>6. CASE Requested \/ GiveUp
  BY <1>6, Zenon DEF Requested, GiveUp
<1>7. CASE Loop \/ Receive \/ Header
  BY <1>7, Zenon DEF Loop, Receive, Header
<1>8. CASE Decrypt \/ Body \/ ReadFails
  BY <1>8, Zenon DEF Decrypt, Body, ReadFails
<1>9. CASE HandleSignal \/ HandleReply \/ Replied \/ HandleAudio
  BY <1>9, Zenon DEF HandleSignal, HandleReply, Replied, HandleAudio
<1>10. CASE Resolved \/ Notify
  BY <1>10, Zenon DEF Resolved, Notify
<1>11. CASE Cancel \/ Join \/ Destroy \/ Free
  BY <1>11, Zenon DEF Cancel, Join, Destroy, Free
<1>12. CASE Stream \/ Terminate \/ Lose
  BY <1>12, Zenon DEF Stream, Terminate, Lose
<1>13. ASSUME NEW t \in Writers, Touch(t) PROVE HistoryTypes'
  BY <1>13, Zenon DEF Touch
<1>14. ASSUME NEW w \in Writers, Nonce(w) \/ Encrypt(w) \/ Count(w) PROVE HistoryTypes'
  BY <1>14, Zenon DEF Nonce, Encrypt, Count
<1>15. ASSUME NEW w \in Writers, Write(w) PROVE HistoryTypes'
  BY <1>15, Zenon DEF Write
<1>16. ASSUME NEW t \in {"A", "M"}, Check(t) \/ Close(t) \/ Unset(t) \/ Reset(t) PROVE HistoryTypes'
  BY <1>16, Zenon DEF Check, Close, Unset, Reset
<1>17. CASE UNCHANGED vars
  BY <1>17, Zenon DEF vars
<1> QED
  BY <1>1, <1>2, <1>3, <1>4, <1>5, <1>6, <1>7, <1>8, <1>9, <1>10, <1>11, <1>12, <1>13, <1>14, <1>15, <1>16, <1>17,
     Steps, Zenon DEF Client, Reader, Others

\* Every step leads to a place of the program.
LEMMA PlacesKept == PlaceTypes /\ [Next]_vars => PlaceTypes'
<1> SUFFICES ASSUME PlaceTypes, [Next]_vars PROVE PlaceTypes'
  OBVIOUS
<1> USE DEF PlaceTypes, client, lookup, writing, Crash, Enter
<1>1. CASE LookUp \/ Wait \/ TakeResult \/ Connect
  BY <1>1 DEF LookUp, Wait, TakeResult, Connect
<1>2. CASE Exchange \/ KeyInit \/ Auth \/ Create \/ Start
  BY <1>2 DEF Exchange, Talk, KeyInit, Auth, Create, Start
<1>3. CASE Request \/ Requested \/ GiveUp
  BY <1>3 DEF Request, Requested, GiveUp
<1>4. CASE Reader
  BY <1>4 DEF Reader, Loop, Receive, Header, Decrypt, Body, ReadFails, HandleSignal, HandleReply,
              Replied, HandleAudio
<1>5. CASE Others
  BY <1>5 DEF Others, Resolved, Notify, Cancel, Join, Destroy, Free, Stream, Terminate, Lose, Touch
<1>6. ASSUME NEW w \in Writers, Nonce(w) \/ Encrypt(w) \/ Write(w) \/ Count(w) PROVE PlaceTypes'
  BY <1>6 DEF Nonce, Encrypt, Write, Count
<1>7. ASSUME NEW t \in {"A", "M"}, Check(t) \/ Close(t) \/ Unset(t) \/ Reset(t) PROVE PlaceTypes'
  BY <1>7 DEF Check, Close, Unset, Reset
<1>8. CASE UNCHANGED vars
  BY <1>8 DEF vars
<1> QED
  BY <1>1, <1>2, <1>3, <1>4, <1>5, <1>6, <1>7, <1>8, Steps, Zenon DEF Client

\* The counters count.
LEMMA CountsKept == CountTypes /\ Coming /\ [Next]_vars => CountTypes' /\ Coming'
<1> SUFFICES ASSUME CountTypes, Coming, [Next]_vars PROVE CountTypes' /\ Coming'
  OBVIOUS
<1> USE SessionAssumption DEF CountTypes, Coming, client, ivs, writing, reading
<1>1. CASE LookUp \/ Wait \/ TakeResult \/ Connect \/ Exchange \/ KeyInit \/ Auth \/ Create \/ Start
  BY <1>1 DEF LookUp, Wait, TakeResult, Connect, Exchange, Talk, KeyInit, Auth, Create, Start
<1>2. CASE Request
  BY <1>2 DEF Request
<1>3. CASE Requested \/ GiveUp
  BY <1>3 DEF Requested, GiveUp
<1>4. CASE Body
  BY <1>4 DEF Body
<1>5. CASE Reader /\ ~Body
  BY <1>5 DEF Reader, Loop, Receive, Header, Decrypt, ReadFails, HandleSignal, HandleReply, Replied,
              HandleAudio
<1>6. CASE Others
  BY <1>6 DEF Others, Resolved, Notify, Cancel, Join, Destroy, Free, Stream, Terminate, Lose, Touch
<1>7. ASSUME NEW w \in Writers, Nonce(w) \/ Encrypt(w) \/ Count(w) PROVE CountTypes' /\ Coming'
  BY <1>7 DEF Nonce, Encrypt, Count
<1>8. ASSUME NEW w \in Writers, Write(w) PROVE CountTypes' /\ Coming'
  <2>1. sent' = sent \/ sent' = sent + 1
    BY <1>8, Zenon DEF Write
  <2>2. UNCHANGED <<calls, received, send_IV, recv_IV, hdr_IV, npc>>
    BY <1>8, Zenon DEF Write
  <2> QED
    BY <2>1, <2>2
<1>9. ASSUME NEW t \in {"A", "M"}, Check(t) \/ Close(t) \/ Unset(t) \/ Reset(t)
      PROVE  CountTypes' /\ Coming'
  BY <1>9 DEF Check, Close, Unset, Reset
<1>10. CASE UNCHANGED vars
  BY <1>10 DEF vars
<1> QED
  BY <1>1, <1>2, <1>3, <1>4, <1>5, <1>6, <1>7, <1>8, <1>9, <1>10, Steps, Zenon DEF Client

\* Who is in packet_write changes only by the steps of packet_write, but for those who enter it.
LEMMA OnlyWriters ==
  ASSUME PlaceTypes, OneWriter,
         \/ Client \/ Reader \/ Others
         \/ \E t \in {"A", "M"} : Check(t) \/ Close(t) \/ Unset(t) \/ Reset(t)
         \/ UNCHANGED vars
  PROVE  /\ shn_send' = shn_send /\ packet' = packet /\ overlapped' = overlapped
         /\ \/ wpc' = wpc
            \/ Request /\ wpc' = [wpc EXCEPT !["A"] = "nonce"]
            \/ HandleReply /\ wpc' = [wpc EXCEPT !["N"] = "nonce"]
            \/ Stream /\ wpc' = [wpc EXCEPT !["D"] = "nonce"]
<1> USE DEF writing, history, Enter
<1>1. CASE LookUp \/ Wait \/ TakeResult \/ Connect \/ Exchange \/ KeyInit
  BY <1>1, Zenon DEF LookUp, Wait, TakeResult, Connect, Exchange, KeyInit, Talk
<1>2. CASE Auth \/ Create \/ Start \/ Request \/ Requested \/ GiveUp
  BY <1>2, Zenon DEF Auth, Talk, Create, Start, Request, Requested, GiveUp
<1>3. CASE Loop \/ Receive \/ Header \/ Decrypt \/ Body \/ ReadFails
  BY <1>3, Zenon DEF Loop, Receive, Header, Decrypt, Body, ReadFails
<1>4. CASE HandleSignal \/ HandleReply \/ Replied \/ HandleAudio
  BY <1>4, Zenon DEF HandleSignal, HandleReply, Replied, HandleAudio
<1>5. CASE Resolved \/ Notify \/ Cancel \/ Join \/ Destroy \/ Free
  BY <1>5, Zenon DEF Resolved, Notify, Cancel, Join, Destroy, Free
<1>6. CASE Stream \/ Terminate \/ Lose
  BY <1>6, Zenon DEF Stream, Terminate, Lose
<1>7. ASSUME NEW t \in Writers, Touch(t) PROVE UNCHANGED <<writing, overlapped>>
  BY <1>7, Zenon DEF Touch
<1>8. ASSUME NEW t \in {"A", "M"}, Check(t) \/ Close(t) \/ Unset(t) \/ Reset(t)
      PROVE  wpc' = wpc /\ shn_send' = shn_send /\ packet' = packet /\ overlapped' = overlapped
  BY <1>8, Zenon DEF Check, Close, Unset, Reset
<1>9. CASE UNCHANGED vars
  BY <1>9, Zenon DEF vars
<1> QED
  BY <1>1, <1>2, <1>3, <1>4, <1>5, <1>6, <1>7, <1>8, <1>9, Zenon DEF Client, Reader, Others

\* Two threads between a nonce and its count overlap.
LEMMA OneWriterKept ==
  ASSUME PlaceTypes, CountTypes, OneWriter, [Next]_vars
  PROVE  OneWriter'
<1> USE DEF OneWriter, InWrite, PlaceTypes
<1>1. ASSUME shn_send' = shn_send, overlapped' = overlapped,
             \/ wpc' = wpc
             \/ \E u \in Writers : wpc' = [wpc EXCEPT ![u] = "nonce"]
      PROVE  OneWriter'
  BY <1>1
<1>2. ASSUME NEW w \in Writers, Nonce(w) PROVE OneWriter'
  <2>1. /\ wpc' = [wpc EXCEPT ![w] = "encrypt"]
        /\ overlapped' = (overlapped \/ \E v \in Writers \ {w} : wpc[v] \notin {"out", "nonce"})
        /\ shn_send' = IF overlapped' THEN <<0>> ELSE <<send_IV>>
    BY <1>2, Zenon DEF Nonce
  <2>2. shn_send' = <<shn_send[1]>>'
    BY <2>1
  <2> QED
    BY <2>1, <2>2
<1>3. ASSUME NEW w \in Writers, Encrypt(w) PROVE OneWriter'
  <2>1. wpc[w] = "encrypt" /\ wpc' = [wpc EXCEPT ![w] = "send"] /\ overlapped' = overlapped
    BY <1>3, Zenon DEF Encrypt, history
  <2>2. ~overlapped => \A v \in Writers : wpc'[v] # "encrypt"
    BY <2>1
  <2> QED
    BY <2>1, <2>2
<1>4. ASSUME NEW w \in Writers, Write(w) \/ Count(w) PROVE OneWriter'
  <2>1. /\ InWrite(w) /\ wpc' \in {[wpc EXCEPT ![w] = "count"], [wpc EXCEPT ![w] = "out"]}
        /\ shn_send' = shn_send /\ overlapped' = overlapped
    BY <1>4, Zenon DEF Write, Count, history
  <2> QED
    BY <2>1
<1>5. "A" \in Writers /\ "N" \in Writers /\ "D" \in Writers
  BY DEF Writers
<1> QED
  BY <1>1, <1>2, <1>3, <1>4, <1>5, Steps, OnlyWriters, Zenon

\* A thread uses a fresh cipher state.
LEMMA Used ==
  ASSUME NEW n \in Nat, NEW w \in Writers
  PROVE  Append(<<n>>, w) = <<n, w>>
<1> DEFINE T == Nat \cup Writers
           s == Append(<<n>>, w)
           t == <<n, w>>
<1>1. <<n>> \in Seq(T) /\ Len(<<n>>) = 1 /\ <<n>>[1] = n /\ w \in T
  OBVIOUS
<1>2. s \in Seq(T) /\ Len(s) = 2 /\ s[1] = n /\ s[2] = w
  <2> HIDE DEF T
  <2> QED
    BY <1>1, AppendProperties
<1>3. t \in Seq(T) /\ Len(t) = 2 /\ t[1] = n /\ t[2] = w
  OBVIOUS
<1> HIDE DEF s, t, T
<1>4. s = t
  BY <1>2, <1>3, SeqEqual
<1> QED
  BY <1>4 DEF s, t

\* Every packet carries a cipher state that one thread has used, or two that overlapped.
LEMMA CipherKept ==
  ASSUME PlaceTypes, CountTypes, CipherTypes, OneWriter, [Next]_vars
  PROVE  CipherTypes'
<1> USE DEF CipherTypes, IsState
<1>0. IsState(<<0>>)
  OBVIOUS
<1>1. ASSUME shn_send' = shn_send, packet' = packet PROVE CipherTypes'
  BY <1>1
<1>2. ASSUME NEW w \in Writers, Nonce(w) PROVE CipherTypes'
  <2>1. packet' = packet /\ (shn_send' = <<0>> \/ shn_send' = <<send_IV>>)
    BY <1>2, Zenon DEF Nonce
  <2>2. IsState(<<send_IV>>)
    BY DEF CountTypes
  <2> QED
    BY <1>0, <2>1, <2>2
<1>3. ASSUME NEW w \in Writers, Encrypt(w) PROVE CipherTypes'
  <2>1. /\ wpc[w] = "encrypt" /\ packet' = [packet EXCEPT ![w] = shn_send']
        /\ shn_send' = IF overlapped THEN shn_send ELSE Append(shn_send, w)
    BY <1>3, Zenon DEF Encrypt
  <2>2. CASE overlapped
    BY <2>1, <2>2
  <2>3. CASE ~overlapped
    <3>1. shn_send = <<shn_send[1]>> /\ shn_send[1] \in Nat
      BY <2>1, <2>3 DEF OneWriter
    <3> DEFINE iv == shn_send[1]
    <3>2. Append(<<iv>>, w) = <<iv, w>>
      BY <3>1, Used
    <3>4. shn_send' = <<iv, w>>
      BY <2>1, <2>3, <3>1, <3>2, Zenon
    <3>3. IsState(<<shn_send[1], w>>)
      BY <3>1
    <3> QED
      BY <1>3, <2>1, <3>4, <3>3
  <2> QED
    BY <2>2, <2>3
<1>4. ASSUME NEW w \in Writers, Write(w) PROVE CipherTypes'
  <2>1. shn_send' = shn_send /\ packet' = [packet EXCEPT ![w] = <<0>>]
    BY <1>4, Zenon DEF Write
  <2> QED
    BY <1>0, <2>1
<1>5. ASSUME NEW w \in Writers, Count(w) PROVE shn_send' = shn_send /\ packet' = packet
  BY <1>5, Zenon DEF Count
<1> QED
  BY <1>1, <1>2, <1>3, <1>4, <1>5, Steps, OnlyWriters, Zenon

-----------------------------------------------------------------------------
(* Who is where. *)

\* N starts when the login is over.
LEMMA StartedKept ==
  ASSUME PlaceTypes, Started, Callers, [Next]_vars
  PROVE  Started'
<1> USE DEF PlaceTypes, Started, Callers, Before, Writers, client, lookup, ivs, writing, reading, playback, history, Crash, Enter
<1>1. CASE LookUp \/ Wait \/ TakeResult \/ Connect
  BY <1>1 DEF LookUp, Wait, TakeResult, Connect
<1>2. CASE Exchange \/ KeyInit \/ Auth \/ Create \/ Start
  BY <1>2 DEF Exchange, Talk, KeyInit, Auth, Create, Start
<1>3. CASE Request \/ Requested \/ GiveUp
  BY <1>3 DEF Request, Requested, GiveUp
<1>4. CASE Reader
  BY <1>4 DEF Reader, Loop, Receive, Header, Decrypt, Body, ReadFails, HandleSignal, HandleReply,
              Replied, HandleAudio
<1>5. CASE Others
  BY <1>5 DEF Others, Resolved, Notify, Cancel, Join, Destroy, Free, Stream, Terminate, Lose, Touch
<1>6. ASSUME NEW w \in Writers, Nonce(w) \/ Encrypt(w) \/ Write(w) \/ Count(w) PROVE Started'
  BY <1>6 DEF Nonce, Encrypt, Write, Count
<1>7. ASSUME NEW t \in {"A", "M"}, Check(t) \/ Close(t) \/ Unset(t) \/ Reset(t) PROVE Started'
  BY <1>7 DEF Check, Close, Unset, Reset
<1>8. CASE UNCHANGED vars
  BY <1>8 DEF vars
<1> QED
  BY <1>1, <1>2, <1>3, <1>4, <1>5, <1>6, <1>7, <1>8, Steps, Zenon DEF Client

\* A thread writes, or disconnects, only where it calls for it.
LEMMA CallersKept ==
  ASSUME PlaceTypes, Started, Callers, [Next]_vars
  PROVE  Callers'
<1> USE DEF PlaceTypes, Started, Callers, Writers, client, lookup, ivs, writing, reading, playback, history, Crash, Enter
<1>1. CASE LookUp \/ Wait \/ TakeResult \/ Connect
  BY <1>1 DEF LookUp, Wait, TakeResult, Connect
<1>2. CASE Exchange \/ KeyInit \/ Auth \/ Create \/ Start
  <2>1. /\ apc \in Before /\ apc' \in Before \cup {"login", "done"}
        /\ npc' = npc \/ wpc["N"] = "out"
    BY <1>2 DEF Exchange, Talk, KeyInit, Auth, Create, Start, Before
  <2>2. UNCHANGED <<mpc, dpc, wpc, asked, hungry>>
    BY <1>2, Zenon DEF Exchange, Talk, KeyInit, Auth, Create, Start
  <2> QED
    BY <2>1, <2>2 DEF Before
<1>3. CASE Request \/ Requested \/ GiveUp
  BY <1>3 DEF Request, Requested, GiveUp
<1>4. CASE Reader
  <2>1. CASE HandleSignal
    BY <2>1 DEF HandleSignal
  <2>2. CASE HandleReply
    BY <2>2 DEF HandleReply
  <2>3. CASE HandleAudio
    BY <2>3 DEF HandleAudio
  <2>4. CASE Replied
    BY <2>4 DEF Replied
  <2>5. CASE Loop \/ Receive \/ Header \/ Decrypt \/ Body \/ ReadFails
    <3>1. UNCHANGED <<apc, mpc, dpc, wpc, asked, hungry>>
      BY <2>5, Zenon DEF Loop, Receive, Header, Decrypt, Body, ReadFails
    <3>2. npc # "reply"
      BY <2>5 DEF Loop, Receive, Header, Decrypt, Body, ReadFails
    <3> QED
      BY <3>1, <3>2
  <2> QED
    BY <1>4, <2>1, <2>2, <2>3, <2>4, <2>5, Zenon DEF Reader
<1>5. CASE Others
  BY <1>5 DEF Others, Resolved, Notify, Cancel, Join, Destroy, Free, Stream, Terminate, Lose, Touch
<1>6. ASSUME NEW w \in Writers, Nonce(w) \/ Encrypt(w) \/ Write(w) \/ Count(w) PROVE Callers'
  <2>1. /\ wpc[w] # "out" /\ \E there \in {"encrypt", "send", "count", "out"} : wpc' = [wpc EXCEPT ![w] = there]
        /\ UNCHANGED <<apc, npc, mpc, dpc, hungry>>
    BY <1>6 DEF Nonce, Encrypt, Write, Count
  <2>2. asked' => asked \/ apc = "key"
    BY <1>6, Zenon DEF Nonce, Encrypt, Write, Count
  <2>3. asked => asked'
    BY <1>6, Zenon DEF Nonce, Encrypt, Write, Count
  <2> QED
    BY <2>1, <2>2, <2>3
<1>7. ASSUME NEW t \in {"A", "M"}, Check(t) \/ Close(t) \/ Unset(t) \/ Reset(t) PROVE Callers'
  BY <1>7 DEF Check, Close, Unset, Reset
<1>8. CASE UNCHANGED vars
  BY <1>8 DEF vars
<1> QED
  BY <1>1, <1>2, <1>3, <1>4, <1>5, <1>6, <1>7, <1>8, Steps, Zenon DEF Client

\* A thread that A has left the library to cannot come back.
LEMMA EndingKept ==
  ASSUME PlaceTypes, Callers, Ending, [Next]_vars
  PROVE  Ending'
<1> USE DEF PlaceTypes, Callers, Ending, Writers, client, lookup, ivs, writing, reading, playback, history, Crash, Enter
<1>1. CASE LookUp \/ Wait \/ TakeResult \/ Connect
  <2>1. UNCHANGED <<mpc, freed, touched, inside>>
    BY <1>1, Zenon DEF LookUp, Wait, TakeResult, Connect
  <2>3. late' => late \/ mpc # "run"
    BY <1>1 DEF LookUp, Wait, TakeResult, Connect
  <2>2. apc # "done"
    BY <1>1 DEF LookUp, Wait, TakeResult, Connect
  <2> QED
    BY <2>1, <2>2, <2>3
<1>2. CASE Exchange \/ KeyInit \/ Auth \/ Create \/ Start
  BY <1>2 DEF Exchange, Talk, KeyInit, Auth, Create, Start
<1>3. CASE Request \/ Requested \/ GiveUp
  BY <1>3 DEF Request, Requested, GiveUp
<1>4. CASE Reader
  BY <1>4 DEF Reader, Loop, Receive, Header, Decrypt, Body, ReadFails, HandleSignal, HandleReply,
              Replied, HandleAudio
<1>5. CASE Others
  <2>1. CASE Terminate
    BY <2>1 DEF Terminate
  <2>2. CASE Resolved \/ Notify
    BY <2>2 DEF Resolved, Notify
  <2>3. CASE Cancel \/ Join \/ Destroy
    BY <2>3 DEF Cancel, Join, Destroy
  <2>4. CASE Free
    BY <2>4 DEF Free
  <2>5. CASE Stream \/ Lose
    BY <2>5 DEF Stream, Lose
  <2>6. ASSUME NEW t \in Writers, Touch(t) PROVE Ending'
    BY <2>6 DEF Touch
  <2> QED
    BY <1>5, <2>1, <2>2, <2>3, <2>4, <2>5, <2>6, Zenon DEF Others
<1>6. ASSUME NEW w \in Writers, Nonce(w) \/ Encrypt(w) \/ Write(w) \/ Count(w) PROVE Ending'
  <2>1. UNCHANGED <<apc, mpc, freed, touched, inside, late>>
    BY <1>6, Zenon DEF Nonce, Encrypt, Write, Count
  <2> QED
    BY <2>1
<1>7. ASSUME NEW t \in {"A", "M"}, Check(t) \/ Close(t) \/ Unset(t) \/ Reset(t) PROVE Ending'
  BY <1>7 DEF Check, Close, Unset, Reset
<1>8. CASE UNCHANGED vars
  BY <1>8 DEF vars
<1> QED
  BY <1>1, <1>2, <1>3, <1>4, <1>5, <1>6, <1>7, <1>8, Steps, Zenon DEF Client

\* The socket is there from the connection to the call that closes it.
LEMMA SocketKept ==
  ASSUME PlaceTypes, Started, Callers, Ending, Socket, [Next]_vars
  PROVE  Socket'
<1> USE DEF PlaceTypes, Socket, Off, client, lookup, ivs, writing, reading, playback, history, Crash, Enter
<1>1. CASE LookUp \/ Wait \/ TakeResult \/ Connect
  <2>1. CASE Connect
    <3>1. apc = "socket" /\ UNCHANGED <<npc, mpc, dpc, inside>>
      BY <2>1 DEF Connect
    <3>2. CASE apc' = "exchange" /\ conn' = "open" /\ ap_sock' = TRUE
      <4>1. late' <=> late \/ mpc # "run"
        BY <2>1, <3>2, Zenon DEF Connect
      <4>2. \A t \in {"A", "M"} : dpc[t] = "out" \/ mpc # "run"
        BY <3>1 DEF Callers
      <4> QED
        BY <3>1, <3>2, <4>1, <4>2
    <3>3. CASE apc' = "done" /\ UNCHANGED <<conn, ap_sock>>
      <4>1. late => late'
        BY <2>1, Zenon DEF Connect
      <4> QED
        BY <3>1, <3>3, <4>1
    <3> QED
      BY <2>1, <3>2, <3>3, Zenon DEF Connect
  <2>2. CASE LookUp \/ Wait \/ TakeResult
    BY <2>2 DEF LookUp, Wait, TakeResult
  <2> QED
    BY <1>1, <2>1, <2>2, Zenon
<1>2. CASE Exchange \/ KeyInit \/ Auth \/ Create \/ Start
  BY <1>2 DEF Exchange, Talk, KeyInit, Auth, Create, Start
<1>3. CASE Request \/ Requested \/ GiveUp
  BY <1>3 DEF Request, Requested, GiveUp
<1>4. CASE Reader
  BY <1>4 DEF Reader, Loop, Receive, Header, Decrypt, Body, ReadFails, HandleSignal, HandleReply,
              Replied, HandleAudio
<1>5. CASE Others
  <2>1. CASE Terminate
    BY <2>1 DEF Terminate, Callers
  <2>2. CASE Lose
    BY <2>2 DEF Lose
  <2>3. CASE Destroy
    BY <2>3 DEF Destroy
  <2>4. CASE Resolved \/ Notify \/ Cancel \/ Join \/ Free \/ Stream \/ \E t \in Writers : Touch(t)
    <3>1. UNCHANGED <<conn, ap_sock, npc, dpc, late, inside>>
      BY <2>4, Zenon DEF Resolved, Notify, Cancel, Join, Free, Stream, Touch
    <3>2. /\ apc' = apc \/ (apc = "asleep" /\ apc' = "address")
          /\ mpc' = "run" => mpc = "run"
      BY <2>4 DEF Resolved, Notify, Cancel, Join, Free, Stream, Touch
    <3> QED
      BY <3>1, <3>2
  <2> QED
    BY <1>5, <2>1, <2>2, <2>3, <2>4, Zenon DEF Others
<1>6. ASSUME NEW w \in Writers, Nonce(w) \/ Encrypt(w) \/ Write(w) \/ Count(w) PROVE Socket'
  <2>1. UNCHANGED <<conn, ap_sock, apc, npc, mpc, dpc, late, inside>>
    BY <1>6, Zenon DEF Nonce, Encrypt, Write, Count
  <2> QED
    BY <2>1
<1>7. ASSUME NEW t \in {"A", "M"}, Check(t) \/ Close(t) \/ Unset(t) \/ Reset(t) PROVE Socket'
  <2>1. CASE Check(t)
    BY <2>1 DEF Check
  <2>2. CASE Close(t)
    BY <2>2 DEF Close, Callers
  <2>3. CASE Unset(t)
    <3>1. mpc # "run" => inside \/ apc # "failed"
      BY DEF Ending
    <3>2. dpc[t] = "unset" /\ dpc' = [dpc EXCEPT ![t] = "reset"] /\ ~ap_sock'
      BY <2>3 DEF Unset
    <3>3. UNCHANGED <<conn, apc, npc, mpc, late, inside>>
      BY <2>3, Zenon DEF Unset
    <3> QED
      BY <3>1, <3>2, <3>3 DEF Callers
  <2>4. CASE Reset(t)
    BY <2>4 DEF Reset
  <2> QED
    BY <1>7, <2>1, <2>2, <2>3, <2>4, Zenon
<1>8. CASE UNCHANGED vars
  BY <1>8 DEF vars
<1> QED
  BY <1>1, <1>2, <1>3, <1>4, <1>5, <1>6, <1>7, <1>8, Steps, Zenon DEF Client

\* N does not get past a read without the socket.
LEMMA QuietKept ==
  ASSUME PlaceTypes, Started, Callers, Ending, Socket, Quiet, [Next]_vars
  PROVE  Quiet'
<1> USE DEF PlaceTypes, Quiet, Off, client, lookup, ivs, writing, reading, playback, history, Crash, Enter
<1>1. CASE LookUp \/ Wait \/ TakeResult \/ Connect
  BY <1>1 DEF LookUp, Wait, TakeResult, Connect
<1>2. CASE Exchange \/ KeyInit \/ Auth \/ Create \/ Start
  <2>1. CASE Start
    BY <2>1 DEF Start, Socket, Ending
  <2>2. CASE Exchange \/ KeyInit \/ Auth \/ Create
    <3>1. UNCHANGED <<conn, ap_sock, npc, inside, handling>>
      BY <2>2, Zenon DEF Exchange, Talk, KeyInit, Auth, Create
    <3> QED
      BY <3>1
  <2> QED
    BY <1>2, <2>1, <2>2, Zenon
<1>3. CASE Request \/ Requested \/ GiveUp
  BY <1>3 DEF Request, Requested, GiveUp
<1>4. CASE Reader
  <2>1. CASE Header \/ Body
    <3>1. conn = "open" /\ UNCHANGED <<conn, ap_sock, inside>>
      BY <2>1 DEF Header, Body
    <3> QED
      BY <3>1 DEF Socket, Ending
  <2>2. CASE Loop \/ Receive \/ Decrypt \/ ReadFails
    BY <2>2 DEF Loop, Receive, Decrypt, ReadFails
  <2>3. CASE HandleSignal \/ HandleReply \/ Replied \/ HandleAudio
    BY <2>3 DEF HandleSignal, HandleReply, Replied, HandleAudio
  <2> QED
    BY <1>4, <2>1, <2>2, <2>3, Zenon DEF Reader
<1>5. CASE Others
  <2>1. CASE Terminate
    BY <2>1 DEF Terminate, Ending
  <2>2. CASE Lose
    BY <2>2 DEF Lose
  <2>3. CASE Resolved \/ Notify \/ Cancel \/ Join \/ Destroy \/ Free \/ Stream \/ \E t \in Writers : Touch(t)
    <3>1. UNCHANGED <<conn, ap_sock, npc, inside, handling>>
      BY <2>3, Zenon DEF Resolved, Notify, Cancel, Join, Destroy, Free, Stream, Touch
    <3> QED
      BY <3>1
  <2> QED
    BY <1>5, <2>1, <2>2, <2>3, Zenon DEF Others
<1>6. ASSUME NEW w \in Writers, Nonce(w) \/ Encrypt(w) \/ Write(w) \/ Count(w) PROVE Quiet'
  BY <1>6 DEF Nonce, Encrypt, Write, Count
<1>7. ASSUME NEW t \in {"A", "M"}, Check(t) \/ Close(t) \/ Unset(t) \/ Reset(t) PROVE Quiet'
  <2>1. CASE Close(t)
    BY <2>1 DEF Close
  <2>2. CASE Unset(t)
    BY <2>2 DEF Unset, Socket, Ending
  <2>3. CASE Check(t) \/ Reset(t)
    BY <2>3 DEF Check, Reset
  <2> QED
    BY <1>7, <2>1, <2>2, <2>3, Zenon
<1>8. CASE UNCHANGED vars
  BY <1>8 DEF vars
<1> QED
  BY <1>1, <1>2, <1>3, <1>4, <1>5, <1>6, <1>7, <1>8, Steps, Zenon DEF Client

\* N is joined when it was created.
LEMMA JoinedKept ==
  ASSUME PlaceTypes, Started, Ending, Joined, [Next]_vars
  PROVE  Joined'
<1> USE DEF PlaceTypes, Joined, client, lookup, ivs, writing, reading, playback, history, Crash, Enter
<1>1. CASE LookUp \/ Wait \/ TakeResult \/ Connect
  BY <1>1 DEF LookUp, Wait, TakeResult, Connect
<1>2. CASE Exchange \/ KeyInit \/ Auth \/ Create \/ Start
  <2>1. CASE Start
    BY <2>1 DEF Start, Ending
  <2>2. CASE Create
    BY <2>2 DEF Create
  <2>3. CASE Exchange \/ KeyInit \/ Auth
    <3>1. UNCHANGED <<npc, mpc, thread, inside>>
      BY <2>3, Zenon DEF Exchange, Talk, KeyInit, Auth
    <3>2. apc' # "start"
      BY <2>3 DEF Exchange, Talk, KeyInit, Auth
    <3> QED
      BY <3>1, <3>2
  <2> QED
    BY <1>2, <2>1, <2>2, <2>3, Zenon
<1>3. CASE Request \/ Requested \/ GiveUp
  BY <1>3 DEF Request, Requested, GiveUp
<1>4. CASE Reader
  BY <1>4 DEF Reader, Loop, Receive, Header, Decrypt, Body, ReadFails, HandleSignal, HandleReply,
              Replied, HandleAudio
<1>5. CASE Others
  BY <1>5 DEF Others, Resolved, Notify, Cancel, Join, Destroy, Free, Stream, Terminate, Lose, Touch
<1>6. ASSUME NEW w \in Writers, Nonce(w) \/ Encrypt(w) \/ Write(w) \/ Count(w) PROVE Joined'
  BY <1>6 DEF Nonce, Encrypt, Write, Count
<1>7. ASSUME NEW t \in {"A", "M"}, Check(t) \/ Close(t) \/ Unset(t) \/ Reset(t) PROVE Joined'
  BY <1>7 DEF Check, Close, Unset, Reset
<1>8. CASE UNCHANGED vars
  BY <1>8 DEF vars
<1> QED
  BY <1>1, <1>2, <1>3, <1>4, <1>5, <1>6, <1>7, <1>8, Steps, Zenon DEF Client

-----------------------------------------------------------------------------
(* The two ends. *)

\* While the connection is open, and A has not connected too late, nobody is past the close of the socket.
LEMMA Connected ==
  ASSUME Socket, conn = "open", ~late
  PROVE  ap_sock /\ \A t \in {"A", "M"} : dpc[t] \notin {"unset", "reset"}
BY DEF Socket, Off

\* N decrypts with the IV of the packet that comes.
LEMMA ReadsKept ==
  ASSUME PlaceTypes, CountTypes, Started, Ending, Socket, Reads, [Next]_vars
  PROVE  Reads'
<1> USE DEF Reads, client, lookup, ivs, writing, reading, playback, history
<1>1. ASSUME UNCHANGED <<conn, recv_IV, received, hdr_IV, npc, late>> PROVE Reads'
  BY <1>1
<1>2. CASE LookUp \/ Wait \/ TakeResult \/ Exchange \/ Auth \/ Create
  BY <1>1, <1>2, Zenon DEF LookUp, Wait, TakeResult, Exchange, Auth, Talk, Create
<1>3. CASE Connect
  <2>1. npc = "none" /\ UNCHANGED <<npc, recv_IV, received>>
    BY <1>3 DEF Connect, Started, Before
  <2> QED
    BY <2>1 DEF Started
<1>4. CASE KeyInit
  <2>1. npc = "none" /\ recv_IV' = 0 /\ UNCHANGED <<npc, received>>
    BY <1>4 DEF KeyInit, Started, Before
  <2> QED
    BY <2>1 DEF Started
<1>5. CASE Start
  <2>1. npc' = "loop" /\ UNCHANGED <<conn, recv_IV, received, late>>
    BY <1>5, Zenon DEF Start
  <2> QED
    BY <2>1
<1>6. CASE Request \/ Requested \/ GiveUp
  BY <1>1, <1>6, Zenon DEF Request, Requested, GiveUp
<1>7. CASE Decrypt \/ Body
  BY <1>7 DEF Decrypt, Body, CountTypes
<1>8. CASE Receive
  BY <1>8 DEF Receive
<1>9. CASE Loop \/ Header \/ ReadFails \/ HandleSignal \/ HandleReply \/ Replied \/ HandleAudio
  <2>1. UNCHANGED <<conn, recv_IV, received, late>>
    BY <1>9, Zenon DEF Loop, Header, ReadFails, HandleSignal, HandleReply, Replied, HandleAudio
  <2>2. npc' \notin {"payload", "body"}
    BY <1>9 DEF Loop, Header, ReadFails, HandleSignal, HandleReply, Replied, HandleAudio
  <2> QED
    BY <2>1, <2>2
<1>10. CASE Resolved \/ Notify \/ Cancel \/ Join \/ Destroy \/ Free
  BY <1>1, <1>10, Zenon DEF Resolved, Notify, Cancel, Join, Destroy, Free
<1>11. CASE Stream \/ Terminate \/ \E t \in Writers : Touch(t)
  BY <1>1, <1>11, Zenon DEF Stream, Terminate, Touch
<1>12. CASE Lose
  BY <1>12 DEF Lose
<1>13. ASSUME NEW w \in Writers, Nonce(w) \/ Encrypt(w) \/ Write(w) \/ Count(w) PROVE Reads'
  BY <1>1, <1>13, Zenon DEF Nonce, Encrypt, Write, Count
<1>14. ASSUME NEW t \in {"A", "M"}, Check(t) \/ Unset(t) PROVE Reads'
  BY <1>1, <1>14, Zenon DEF Check, Unset
<1>15. ASSUME NEW t \in {"A", "M"}, Close(t) PROVE Reads'
  BY <1>15, Connected DEF Close
<1>16. ASSUME NEW t \in {"A", "M"}, Reset(t) PROVE Reads'
  BY <1>16, Connected DEF Reset
<1>17. CASE UNCHANGED vars
  BY <1>1, <1>17, Zenon DEF vars
<1> QED
  BY <1>2, <1>3, <1>4, <1>5, <1>6, <1>7, <1>8, <1>9, <1>10, <1>11, <1>12, <1>13, <1>14, <1>15, <1>16, <1>17,
     Steps, Zenon DEF Client, Reader, Others

\* The thread in packet_write uses the state of the next nonce, and no packet is missing at the server.
LEMMA WritesKept ==
  ASSUME PlaceTypes, CountTypes, CipherTypes, Started, Callers, Ending, Socket, OneWriter, Writes, [Next]_vars
  PROVE  Writes'
<1> USE DEF Writes, client, lookup, ivs, writing, reading, playback, history
<1>1. ASSUME UNCHANGED <<conn, late, overlapped, wpc, shn_send, packet, send_IV, sent>> PROVE Writes'
  BY <1>1
<1>2. CASE LookUp \/ Wait \/ TakeResult \/ Exchange \/ Auth \/ Create
  BY <1>1, <1>2, Zenon DEF LookUp, Wait, TakeResult, Exchange, Auth, Talk, Create
<1>3. CASE Connect \/ KeyInit
  <2>1. npc = "none"
    BY <1>3 DEF Connect, KeyInit, Started, Before
  <2>2. send_IV' = 0 /\ sent' = 0 /\ \A w \in Writers : wpc'[w] = "out"
    BY <1>3, <2>1 DEF Connect, KeyInit, Started
  <2> QED
    BY <2>2
<1>4. CASE Start \/ Requested \/ GiveUp
  BY <1>1, <1>4, Zenon DEF Start, Requested, GiveUp
<1>5. CASE Loop \/ Receive \/ Header \/ Decrypt \/ Body \/ ReadFails
  BY <1>1, <1>5, Zenon DEF Loop, Receive, Header, Decrypt, Body, ReadFails
<1>6. CASE HandleSignal \/ Replied \/ HandleAudio
  BY <1>1, <1>6, Zenon DEF HandleSignal, Replied, HandleAudio
<1>7. ASSUME NEW u \in Writers, wpc[u] = "out", wpc' = [wpc EXCEPT ![u] = "nonce"],
             UNCHANGED <<conn, late, overlapped, shn_send, packet, send_IV, sent>>
      PROVE  Writes'
  <2>1. \A w \in Writers : w # u => wpc'[w] = wpc[w]
    BY <1>7 DEF PlaceTypes
  <2>2. wpc'[u] = "nonce"
    BY <1>7 DEF PlaceTypes
  <2> QED
    BY <1>7, <2>1, <2>2
<1>8. CASE Request
  <2>1. wpc["A"] = "out" /\ wpc' = [wpc EXCEPT !["A"] = "nonce"]
    BY <1>8 DEF Request, Enter, Callers
  <2> QED
    BY <1>7, <1>8, <2>1, Zenon DEF Request, Writers
<1>9. CASE HandleReply
  <2>1. wpc["N"] = "out" /\ wpc' = [wpc EXCEPT !["N"] = "nonce"]
    BY <1>9 DEF HandleReply, Enter, Callers
  <2> QED
    BY <1>7, <1>9, <2>1, Zenon DEF HandleReply, Writers
<1>10. CASE Stream
  BY <1>7, <1>10, Zenon DEF Stream, Enter, Writers
<1>11. CASE Resolved \/ Notify \/ Cancel \/ Join \/ Destroy \/ Free
  BY <1>1, <1>11, Zenon DEF Resolved, Notify, Cancel, Join, Destroy, Free
<1>12. CASE Terminate \/ \E t \in Writers : Touch(t)
  BY <1>1, <1>12, Zenon DEF Terminate, Touch
<1>13. CASE Lose
  BY <1>13 DEF Lose
<1>14. ASSUME NEW w \in Writers, Nonce(w) PROVE Writes'
  <2>1. /\ wpc[w] = "nonce" /\ wpc' = [wpc EXCEPT ![w] = "encrypt"]
        /\ UNCHANGED <<conn, late, send_IV, sent>>
    BY <1>14 DEF Nonce
  <2>2. ~overlapped' => /\ ~overlapped /\ shn_send' = <<send_IV>>
                        /\ \A v \in Writers \ {w} : wpc[v] \in {"out", "nonce"}
    BY <1>14, Zenon DEF Nonce
  <2>3. wpc'[w] = "encrypt" /\ \A v \in Writers \ {w} : wpc'[v] = wpc[v]
    BY <2>1 DEF PlaceTypes
  <2> QED
    BY <2>1, <2>2, <2>3
<1>15. ASSUME NEW w \in Writers, Encrypt(w) PROVE Writes'
  <2>1. /\ wpc[w] = "encrypt" /\ wpc' = [wpc EXCEPT ![w] = "send"]
        /\ UNCHANGED <<conn, late, send_IV, sent, overlapped>>
    BY <1>15 DEF Encrypt
  <2>2. wpc'[w] = "send" /\ \A v \in Writers \ {w} : wpc'[v] = wpc[v]
    BY <2>1 DEF PlaceTypes
  <2>3. ASSUME conn = "open", ~late, ~overlapped
        PROVE  packet'[w] = <<send_IV, w>>
    <3>1. shn_send = <<send_IV>> /\ send_IV \in Nat
      BY <2>1, <2>3 DEF CountTypes
    <3>2. packet' = [packet EXCEPT ![w] = Append(shn_send, w)]
      BY <1>15, <2>3, Zenon DEF Encrypt
    <3>3. packet'[w] = Append(shn_send, w)
      BY <3>2, Zenon DEF CipherTypes
    <3> QED
      BY <3>1, <3>3, Used
  <2>4. ~overlapped => \A v \in Writers \ {w} : ~InWrite(v)
    BY <2>1 DEF OneWriter, InWrite
  <2>5. ~overlapped => \A v \in Writers : wpc'[v] \in {"out", "nonce"} \/ v = w
    BY <2>2, <2>4 DEF InWrite, PlaceTypes
  <2> QED
    BY <2>1, <2>2, <2>3, <2>5
<1>16. ASSUME NEW w \in Writers, Write(w) PROVE Writes'
  <2>1. wpc[w] = "send" /\ wpc' = [wpc EXCEPT ![w] = "count"] /\ UNCHANGED <<conn, late, send_IV, overlapped>>
    BY <1>16, Zenon DEF Write
  <2>2. ~overlapped => \A v \in Writers \ {w} : ~InWrite(v)
    BY <2>1 DEF OneWriter, InWrite
  <2>3. wpc'[w] = "count" /\ \A v \in Writers \ {w} : wpc'[v] = wpc[v]
    BY <2>1 DEF PlaceTypes
  <2>4. ~overlapped => \A v \in Writers : wpc'[v] \in {"out", "nonce"} \/ v = w
    BY <2>2, <2>3 DEF InWrite, PlaceTypes
  <2>5. conn = "open" /\ ~late /\ ~overlapped => sent = send_IV
    BY <2>1, <2>2 DEF InWrite
  <2>6. conn = "open" /\ ~late => sent' = sent + 1
    BY <1>16, Connected DEF Write
  <2> QED
    BY <2>1, <2>3, <2>4, <2>5, <2>6
<1>17. ASSUME NEW w \in Writers, Count(w) PROVE Writes'
  <2>1. wpc[w] = "count" /\ wpc' = [wpc EXCEPT ![w] = "out"] /\ UNCHANGED <<conn, late, sent, overlapped>>
    BY <1>17, Zenon DEF Count
  <2>2. ~overlapped => \A v \in Writers \ {w} : ~InWrite(v)
    BY <2>1 DEF OneWriter, InWrite
  <2>3. wpc'[w] = "out" /\ \A v \in Writers \ {w} : wpc'[v] = wpc[v]
    BY <2>1 DEF PlaceTypes
  <2>4. ~overlapped => \A v \in Writers : wpc'[v] \in {"out", "nonce"}
    BY <2>2, <2>3 DEF InWrite, PlaceTypes
  <2>5. ~overlapped => send_IV' = send_IV + 1
    BY <1>17, Zenon DEF Count
  <2> QED
    BY <2>1, <2>4, <2>5
<1>18. ASSUME NEW t \in {"A", "M"}, Check(t) \/ Unset(t) PROVE Writes'
  BY <1>1, <1>18, Zenon DEF Check, Unset
<1>19. ASSUME NEW t \in {"A", "M"}, Close(t) PROVE Writes'
  BY <1>19, Connected DEF Close
<1>20. ASSUME NEW t \in {"A", "M"}, Reset(t) PROVE Writes'
  BY <1>20, Connected DEF Reset
<1>21. CASE UNCHANGED vars
  BY <1>1, <1>21, Zenon DEF vars
<1> QED
  BY <1>2, <1>3, <1>4, <1>5, <1>6, <1>8, <1>9, <1>10, <1>11, <1>12, <1>13, <1>14, <1>15, <1>16, <1>17, <1>18,
     <1>19, <1>20, <1>21, Steps, Zenon DEF Client, Reader, Others

\* Two ends that count the same are in step.
LEMMA InSyncKept ==
  ASSUME PlaceTypes, CountTypes, Started, Callers, Ending, Socket, OneWriter, Reads, Writes, InSync, [Next]_vars
  PROVE  InSync'
<1> USE DEF InSync, client, lookup, ivs, writing, reading, playback, history
<1>1. ASSUME misread' => misread, garbled' => garbled, late => late', overlapped => overlapped' PROVE InSync'
  BY <1>1
<1>2. CASE LookUp \/ Wait \/ TakeResult \/ Exchange \/ Auth \/ Create \/ Connect \/ KeyInit
  BY <1>1, <1>2, Zenon DEF LookUp, Wait, TakeResult, Exchange, Auth, Talk, Create, Connect, KeyInit
<1>3. CASE Start \/ Request \/ Requested \/ GiveUp
  BY <1>1, <1>3, Zenon DEF Start, Request, Requested, GiveUp
<1>4. CASE Loop \/ Receive \/ Header \/ Decrypt \/ ReadFails
  BY <1>1, <1>4, Zenon DEF Loop, Receive, Header, Decrypt, ReadFails
<1>5. CASE Body
  <2>1. ~late => hdr_IV = received
    BY <1>5 DEF Body, Reads
  <2>2. misread' => misread \/ hdr_IV # received
    BY <1>5, Zenon DEF Body
  <2>3. UNCHANGED <<late, garbled, overlapped>>
    BY <1>5, Zenon DEF Body
  <2> QED
    BY <2>1, <2>2, <2>3
<1>6. CASE HandleSignal \/ HandleReply \/ Replied \/ HandleAudio
  BY <1>1, <1>6, Zenon DEF HandleSignal, HandleReply, Replied, HandleAudio
<1>7. CASE Resolved \/ Notify \/ Cancel \/ Join \/ Destroy \/ Free
  BY <1>1, <1>7, Zenon DEF Resolved, Notify, Cancel, Join, Destroy, Free
<1>8. CASE Stream \/ Terminate \/ Lose \/ \E t \in Writers : Touch(t)
  BY <1>1, <1>8, Zenon DEF Stream, Terminate, Lose, Touch
<1>9. ASSUME NEW w \in Writers, Nonce(w) \/ Encrypt(w) \/ Count(w) PROVE InSync'
  BY <1>1, <1>9, Zenon DEF Nonce, Encrypt, Count
<1>10. ASSUME NEW w \in Writers, Write(w) PROVE InSync'
  <2>1. wpc[w] = "send" /\ UNCHANGED <<late, misread, overlapped>>
    BY <1>10, Zenon DEF Write
  <2>2. ~overlapped => \A v \in Writers \ {w} : ~InWrite(v)
    BY <2>1 DEF OneWriter, InWrite
  <2>3. conn = "open" /\ ~late /\ ~overlapped => sent = send_IV /\ packet[w] = <<send_IV, w>>
    BY <2>1, <2>2 DEF Writes, InWrite
  <2>4. garbled' => garbled \/ (conn = "open" /\ ~overlapped /\ packet[w] # <<sent, w>>)
    BY <1>10, Zenon DEF Write
  <2> QED
    BY <2>1, <2>3, <2>4
<1>11. ASSUME NEW t \in {"A", "M"}, Check(t) \/ Close(t) \/ Unset(t) \/ Reset(t) PROVE InSync'
  BY <1>1, <1>11, Zenon DEF Check, Close, Unset, Reset
<1>12. CASE UNCHANGED vars
  BY <1>1, <1>12, Zenon DEF vars
<1> QED
  BY <1>2, <1>3, <1>4, <1>5, <1>6, <1>7, <1>8, <1>9, <1>10, <1>11, <1>12, Steps, Zenon DEF Client, Reader, Others

-----------------------------------------------------------------------------
(* The teardown. *)

\* While the session runs, who writes has a socket; while it is torn down, A is outside.
LEMMA NobodyTouches ==
  ASSUME PlaceTypes, Callers, Ending, Joined, NEW t \in Writers, Touch(t)
  PROVE  inside
<1>1. mpc = "done"
  BY DEF Touch, Ending
<1>2. CASE t = "A"
  BY <1>1, <1>2 DEF Touch, Ending
<1>3. CASE t = "N"
  BY <1>1, <1>3 DEF Touch, Joined
<1>4. CASE t = "D"
  BY <1>1, <1>4 DEF Touch, Callers
<1> QED
  BY <1>2, <1>3, <1>4 DEF Writers

\* Who writes without a socket is A inside the library, or N that was not waiting.
LEMMA NobodyWrites ==
  ASSUME PlaceTypes, Started, Callers, Ending, Socket, Quiet, NEW w \in Writers, wpc[w] = "send", ~ap_sock
  PROVE  inside \/ handling
<1>1. CASE w = "A"
  BY <1>1 DEF Started, Callers, Ending, Socket
<1>2. CASE w = "N"
  BY <1>2 DEF Callers, Quiet, Off
<1>3. CASE w = "D"
  BY <1>3 DEF Started, Callers, Socket
<1> QED
  BY <1>1, <1>2, <1>3 DEF Writers

\* No step uses what was freed, or a socket that is not there, but in the overlaps SafeTeardown names.
LEMMA SafeTeardownKept ==
  ASSUME PlaceTypes, Started, Callers, Ending, Socket, Quiet, Joined, SafeTeardown, [Next]_vars
  PROVE  SafeTeardown'
<1> USE DEF SafeTeardown, client, lookup, ivs, writing, reading, playback, history, Alive, Crash
<1>1. ASSUME touched' => touched, crashed' => crashed, inside => inside', handling => handling',
             crashed => apc' = apc
      PROVE  SafeTeardown'
  BY <1>1
<1>2. CASE LookUp \/ Wait \/ Connect \/ KeyInit \/ Create \/ Start
  BY <1>1, <1>2, Zenon DEF LookUp, Wait, Connect, KeyInit, Create, Start
<1>3. CASE TakeResult
  BY <1>3 DEF TakeResult
<1>4. CASE Exchange \/ Auth
  <2>1. ~ap_sock => inside
    BY <1>4 DEF Exchange, Auth, Talk, Socket, Ending
  <2>2. UNCHANGED <<touched, inside, handling>> /\ ~crashed
    BY <1>4, Zenon DEF Exchange, Auth, Talk
  <2>3. crashed' => crashed \/ ~ap_sock
    BY <1>4, Zenon DEF Exchange, Auth, Talk
  <2> QED
    BY <2>1, <2>2, <2>3
<1>5. CASE Request \/ Requested
  BY <1>1, <1>5, Zenon DEF Request, Requested
<1>6. CASE GiveUp
  BY <1>6 DEF GiveUp
<1>7. CASE Receive
  <2>1. ~ap_sock => inside \/ handling
    BY <1>7 DEF Receive, Quiet, Off
  <2>2. /\ UNCHANGED <<touched, inside, handling>> /\ ~crashed
        /\ crashed' => ~ap_sock
    BY <1>7, Zenon DEF Receive
  <2> QED
    BY <2>1, <2>2
<1>8. CASE Loop \/ Header \/ Decrypt \/ Body \/ ReadFails
  BY <1>1, <1>8, Zenon DEF Loop, Header, Decrypt, Body, ReadFails
<1>9. CASE HandleSignal \/ HandleReply \/ Replied \/ HandleAudio
  BY <1>1, <1>9, Zenon DEF HandleSignal, HandleReply, Replied, HandleAudio
<1>10. CASE Resolved \/ Notify \/ Cancel \/ Join \/ Destroy \/ Free
  BY <1>1, <1>10, Zenon DEF Resolved, Notify, Cancel, Join, Destroy, Free
<1>11. CASE Stream \/ Lose
  BY <1>1, <1>11, Zenon DEF Stream, Lose
<1>12. CASE Terminate
  <2>1. ~touched
    BY <1>12 DEF Terminate, Ending
  <2>2. UNCHANGED <<touched, crashed>> /\ ~crashed
    BY <1>12, Zenon DEF Terminate
  <2> QED
    BY <2>1, <2>2
<1>13. ASSUME NEW t \in Writers, Touch(t) PROVE SafeTeardown'
  <2>1. inside /\ inside' = inside /\ crashed' = crashed /\ ~crashed
    BY <1>13, NobodyTouches, Zenon DEF Touch
  <2> QED
    BY <2>1
<1>14. ASSUME NEW w \in Writers, Nonce(w) \/ Encrypt(w) \/ Count(w) PROVE SafeTeardown'
  BY <1>1, <1>14, Zenon DEF Nonce, Encrypt, Count
<1>15. ASSUME NEW w \in Writers, Write(w) PROVE SafeTeardown'
  <2>1. UNCHANGED <<touched, inside, handling>> /\ ~crashed /\ wpc[w] = "send"
    BY <1>15, Zenon DEF Write
  <2>2. crashed' => crashed \/ ~ap_sock
    BY <1>15, Zenon DEF Write
  <2> QED
    BY <2>1, <2>2, NobodyWrites
<1>16. ASSUME NEW t \in {"A", "M"}, Check(t) \/ Unset(t) \/ Reset(t) PROVE SafeTeardown'
  BY <1>1, <1>16, Zenon DEF Check, Unset, Reset
<1>17. ASSUME NEW t \in {"A", "M"}, Close(t) PROVE SafeTeardown'
  <2>1. ~ap_sock => inside
    BY <1>17 DEF Close, Socket
  <2>2. UNCHANGED <<touched, inside>> /\ ~crashed /\ (handling => handling')
    BY <1>17, Zenon DEF Close
  <2>3. crashed' => crashed \/ ~ap_sock
    BY <1>17, Zenon DEF Close
  <2> QED
    BY <2>1, <2>2, <2>3
<1>18. CASE UNCHANGED vars
  BY <1>1, <1>18, Zenon DEF vars
<1> QED
  BY <1>2, <1>3, <1>4, <1>5, <1>6, <1>7, <1>8, <1>9, <1>10, <1>11, <1>12, <1>13, <1>14, <1>15, <1>16, <1>17,
     <1>18, Steps, Zenon DEF Client, Reader, Others

-----------------------------------------------------------------------------
(* The invariant. *)

\* Before anything happens, nobody is anywhere.
LEMMA InitIInv == Init => IInv
<1> SUFFICES ASSUME Init PROVE IInv
  OBVIOUS
<1> USE DEF Init
<1>1. FlagTypes /\ HistoryTypes
  BY Zenon DEF FlagTypes, HistoryTypes
<1>2. PlaceTypes
  BY DEF PlaceTypes
<1>3. CountTypes /\ CipherTypes
  BY SessionAssumption DEF CountTypes, CipherTypes, IsState
<1>4. Started /\ Callers /\ Ending
  BY DEF Started, Callers, Ending, Before, Writers
<1>5. Socket /\ Quiet /\ Joined /\ Coming
  BY DEF Socket, Quiet, Joined, Coming, Off
<1>6. OneWriter /\ Reads /\ Writes
  BY DEF OneWriter, InWrite, Reads, Writes
<1>7. InSync /\ SafeTeardown
  BY DEF InSync, SafeTeardown
<1> QED
  BY <1>1, <1>2, <1>3, <1>4, <1>5, <1>6, <1>7, Zenon DEF IInv, TypeOK

\* IInv is inductive.
LEMMA IInvKept == IInv /\ [Next]_vars => IInv'
BY FlagsKept, HistoryKept, PlacesKept, CountsKept, CipherKept, StartedKept, CallersKept, EndingKept, SocketKept,
   QuietKept, JoinedKept, OneWriterKept, ReadsKept, WritesKept, InSyncKept, SafeTeardownKept, Zenon
   DEF IInv, TypeOK

\* IInv holds.
LEMMA SpecIInv == Spec => []IInv
BY InitIInv, IInvKept, PTL DEF Spec

\* Every variable of a session keeps its type: the cipher state is used by one thread at most before the next
\* nonce, and no packet is read that did not come (packet.c).
THEOREM SessionTypeCorrect == Spec => []TypeOK
<1>1. IInv => TypeOK
  BY Zenon DEF IInv
<1> QED
  BY <1>1, SpecIInv, PTL

\* The two ends of the connection stay in step, unless two threads are in packet_write at once or A connects
\* behind the back of session_disconnect.
THEOREM SessionInSync == Spec => []InSync
<1>1. IInv => InSync
  BY Zenon DEF IInv
<1> QED
  BY <1>1, SpecIInv, PTL

\* despotify_exit frees nothing that a thread still uses, once A has returned from the library, and closes no
\* socket under a thread but N when it was not waiting for a packet.
THEOREM SessionSafeTeardown == Spec => []SafeTeardown
<1>1. IInv => SafeTeardown
  BY Zenon DEF IInv
<1> QED
  BY <1>1, SpecIInv, PTL

=============================================================================
