--------------------------- MODULE RequestProofs ---------------------------
(***************************************************************************)
(* For every sequence of calls and every way their answers are cut: until  *)
(* a call has timed out, a call that returns an answer returns its own, the *)
(* whole of it, and no callback writes to a buffer that was freed.         *)
(***************************************************************************)
EXTENDS Request, SequenceTheorems, TLAPS

\* A is inside a call.
InCall == call # 0 /\ apc \in {"send", "gap", "waiting", "woken"}

\* Calls are made in order, after the login, and each has its buffer.
InOrder ==
  /\ response = call
  /\ apc = "login" => call = 0
  /\ apc = "send" => call # 0 /\ chan[call] = "none" /\ total[call] = 0
  /\ call # 0 \/ apc \in {"idle", "woken"} => welcomed
  /\ \A c \in Calls : c > call => outcome[c] = "none" /\ chan[c] = "none" /\ total[c] = 0

Undecided == InCall => outcome[call] = "none"

NoTimeOut == \A c \in Calls : outcome[c] # "timeout"

\* The only channel that may be answered is that of the call A is waiting in.
OneAtATime ==
  /\ \A c \in Calls : chan[c] = "open" => c = call /\ apc \in {"gap", "waiting"}
  /\ apc = "woken" /\ call # 0 => chan[call] = "closed"
  /\ \A c \in freed : outcome[c] = "answer"
  /\ ~dangling

\* And its buffer holds what has come for it.
Filled == InCall => content[call] = Own(call)

Answered == \A c \in Calls : outcome[c] = "answer" => chan[c] = "closed" /\ got[c] = Own(c)

\* The types, numbers and Booleans apart.
FlagTypes == deadline \in BOOLEAN /\ welcomed \in BOOLEAN /\ missed \in BOOLEAN /\ dangling \in BOOLEAN

DataTypes ==
  /\ content \in [Calls -> Seq(Bytes)]
  /\ got \in [Calls -> Seq(Bytes)]
  /\ total \in [Calls -> 0..MaxTotal]

PlaceTypes ==
  /\ call \in 0..Len(Kind)
  /\ apc \in {"login", "idle", "send", "gap", "waiting", "woken"}
  /\ freed \subseteq Calls
  /\ outcome \in [Calls -> {"none", "answer", "failed", "timeout"}]
  /\ chan \in [Calls -> {"none", "open", "closed", "leaked"}]
  /\ conn \in {"up", "lost", "closed"}

IInv ==
  /\ FlagTypes /\ DataTypes /\ PlaceTypes
  /\ InOrder /\ Undecided
  /\ NoTimeOut => OneAtATime /\ Filled /\ Answered

-----------------------------------------------------------------------------
(* Facts about the constants and about what a callback appends. *)

\* There are finitely many calls, and each has a kind.
LEMMA KindFacts ==
  /\ Len(Kind) \in Nat
  /\ Header \in Nat /\ MaxPacket \in Nat /\ MaxTotal \in Nat
  /\ \A c \in Calls : c \in Nat /\ c # 0 /\ c <= Len(Kind) /\ Kind[c] \in {"search", "browse", "list", "plain"}
BY RequestAssumption DEF Calls

\* Two runs of consecutive bytes make one.
LEMMA ConcatRuns ==
  ASSUME NEW c, NEW f \in Int, NEW m \in Nat, NEW k \in Nat
  PROVE  [i \in 1..m |-> <<c, f + i>>] \o [i \in 1..k |-> <<c, f + m + i>>]
           = [i \in 1..(m + k) |-> <<c, f + i>>]
<1> DEFINE s == [i \in 1..m |-> <<c, f + i>>]
           t == [i \in 1..k |-> <<c, f + m + i>>]
           u == [i \in 1..(m + k) |-> <<c, f + i>>]
<1>1. s \in Seq({c} \X Int) /\ t \in Seq({c} \X Int) /\ u \in Seq({c} \X Int)
  OBVIOUS
<1>2. Len(s) = m /\ Len(t) = k /\ Len(u) = m + k
  OBVIOUS
<1>3. \A i \in 1..(m + k) : (s \o t)[i] = u[i]
  BY <1>1, <1>2
<1>4. s \o t \in Seq({c} \X Int) /\ Len(s \o t) = m + k
  BY <1>1, <1>2
<1> QED
  BY <1>1, <1>2, <1>3, <1>4, SeqEqual

\* The gzip callback skips no more than the packet and no more than the header lacks.
LEMMA SkipBounds ==
  ASSUME DataTypes, NEW c \in Calls, NEW n \in 1..MaxPacket
  PROVE  /\ Skip(c, n) \in 0..n
         /\ Gzip(c) /\ total[c] < Header => Skip(c, n) = Header - total[c] \/ (Skip(c, n) = n /\ total[c] + n <= Header)
         /\ ~Gzip(c) \/ total[c] >= Header => Skip(c, n) = 0
<1>1. total[c] \in Nat /\ Header \in Nat /\ n \in Nat
  BY KindFacts DEF DataTypes
<1> QED
  BY <1>1 DEF Skip

\* What it appends lies in the packet.
LEMMA AppendedInPacket ==
  ASSUME DataTypes, NEW c \in Calls, NEW n \in 1..MaxPacket, total[c] + n <= MaxTotal
  PROVE  Appended(c, n) \in Seq(Bytes)
<1> DEFINE k == Skip(c, n)
<1>1. total[c] \in Nat /\ k \in 0..n /\ n \in Nat /\ MaxTotal \in Nat
  BY SkipBounds, KindFacts DEF DataTypes
<1> HIDE DEF k
<1>2. \A i \in 1..(n - k) : <<c, total[c] + k + i>> \in Bytes
  BY <1>1 DEF Bytes
<1>3. n - k \in Nat
  BY <1>1
<1>4. [i \in 1..(n - k) |-> <<c, total[c] + k + i>>] \in Seq(Bytes)
  BY <1>2, <1>3
<1> QED
  BY <1>4 DEF Appended, k

\* A data packet extends what the caller has of its answer by exactly what is next in it.
LEMMA OwnGrows ==
  ASSUME DataTypes, NEW c \in Calls, NEW n \in 1..MaxPacket,
         total' = [total EXCEPT ![c] = @ + n]
  PROVE  Own(c)' = Own(c) \o Appended(c, n)
<1> DEFINE k == Skip(c, n)
           f == First(c) - 1
           m == OwnLength(c)
<1>1. total[c] \in Nat /\ n \in Nat /\ Header \in Nat /\ total'[c] = total[c] + n
  BY KindFacts DEF DataTypes
<1>2. First(c) \in Nat /\ m \in Nat /\ k \in 0..n
  BY <1>1, SkipBounds DEF First, OwnLength
<1>3. Own(c)' = [i \in 1..(m + (n - k)) |-> <<c, f + i>>]
  <2>1. OwnLength(c)' = m + (n - k)
    <3>1. CASE Gzip(c) /\ total[c] < Header
      <4>1. First(c) = Header + 1
        BY <3>1 DEF First, Gzip
      <4>2. m = 0
        BY <1>1, <3>1, <4>1 DEF OwnLength
      <4>3. k = Header - total[c] \/ (k = n /\ total[c] + n <= Header)
        BY <3>1, SkipBounds
      <4>4. OwnLength(c)' = IF total'[c] < First(c) THEN 0 ELSE total'[c] - First(c) + 1
        BY DEF OwnLength, First, Gzip
      <4> HIDE DEF m, k
      <4> QED
        BY <1>1, <1>2, <3>1, <4>1, <4>2, <4>3, <4>4
    <3>2. CASE ~(Gzip(c) /\ total[c] < Header)
      <4>1. k = 0
        BY <1>1, <3>2, SkipBounds
      <4>2. total[c] >= First(c) - 1
        BY <1>1, <3>2 DEF First, Gzip
      <4>3. m = total[c] - First(c) + 1
        BY <1>1, <1>2, <4>2 DEF OwnLength
      <4>4. OwnLength(c)' = IF total'[c] < First(c) THEN 0 ELSE total'[c] - First(c) + 1
        BY DEF OwnLength, First, Gzip
      <4> HIDE DEF m, k
      <4> QED
        BY <1>1, <1>2, <4>1, <4>2, <4>3, <4>4
    <3> QED
      BY <3>1, <3>2
  <2> QED
    BY <2>1 DEF Own, First, Gzip
<1>4. n - k \in Nat /\ f \in Int
  BY <1>1, <1>2
<1>5. Appended(c, n) = [i \in 1..(n - k) |-> <<c, f + m + i>>]
  <2>1. CASE n = k
    <3>1. 1..(n - k) = {}
      BY <1>1, <2>1
    <3> QED
      BY <3>1 DEF Appended
  <2>2. CASE n # k
    <3>1. f + m = total[c] + k
      <4>1. CASE Gzip(c) /\ total[c] < Header
        <5>1. First(c) = Header + 1
          BY <4>1 DEF First, Gzip
        <5>2. m = 0 /\ k = Header - total[c]
          BY <1>1, <2>2, <4>1, <5>1, SkipBounds DEF OwnLength
        <5> HIDE DEF m, k
        <5> QED
          BY <1>1, <5>1, <5>2
      <4>2. CASE ~(Gzip(c) /\ total[c] < Header)
        <5>1. k = 0
          BY <1>1, <4>2, SkipBounds
        <5>2. total[c] >= First(c) - 1
          BY <1>1, <4>2 DEF First, Gzip
        <5>3. m = total[c] - First(c) + 1
          BY <1>1, <1>2, <5>2 DEF OwnLength
        <5> HIDE DEF m, k
        <5> QED
          BY <1>1, <1>2, <5>1, <5>3
      <4> QED
        BY <4>1, <4>2
    <3> QED
      BY <3>1 DEF Appended
  <2> QED
    BY <2>1, <2>2
<1>6. Own(c) = [i \in 1..m |-> <<c, f + i>>]
  BY DEF Own
<1> HIDE DEF k, f, m
<1>7. [i \in 1..m |-> <<c, f + i>>] \o [i \in 1..(n - k) |-> <<c, f + m + i>>]
        = [i \in 1..(m + (n - k)) |-> <<c, f + i>>]
  <2>1. \A x \in Int, y, z \in Nat :
          [i \in 1..y |-> <<c, x + i>>] \o [i \in 1..z |-> <<c, x + y + i>>] = [i \in 1..(y + z) |-> <<c, x + i>>]
    BY ConcatRuns
  <2> QED
    BY <1>2, <1>4, <2>1
<1> QED
  BY <1>3, <1>5, <1>6, <1>7

-----------------------------------------------------------------------------
(* Every step keeps the types. *)

\* The Booleans stay Boolean.
LEMMA FlagTypesKept == FlagTypes /\ [Next]_vars => FlagTypes'
<1> SUFFICES ASSUME FlagTypes, [Next]_vars PROVE FlagTypes'
  OBVIOUS
<1> USE DEF FlagTypes, flags
<1>1. CASE StartNetwork \/ Call \/ SendFails \/ Wait \/ TimeOut \/ LoggedIn \/ Parse \/ Lose
  BY <1>1, Zenon DEF StartNetwork, Call, SendFails, Wait, TimeOut, LoggedIn, Parse, Lose
<1>2. CASE Send
  BY <1>2, Zenon DEF Send
<1>3. CASE Welcome
  BY <1>3, Zenon DEF Welcome, SignalA
<1>4. ASSUME NEW c \in Calls, Data(c) PROVE FlagTypes'
  BY <1>4, Zenon DEF Data
<1>5. ASSUME NEW c \in Calls, Done(c) PROVE FlagTypes'
  BY <1>5, Zenon DEF Done, SignalA
<1>6. CASE UNCHANGED vars
  BY <1>6, Zenon DEF vars
<1> QED
  BY <1>1, <1>2, <1>3, <1>4, <1>5, <1>6, Zenon DEF Next, Client, Answer

\* A and the channels stay where the program can be.
LEMMA PlaceTypesKept == PlaceTypes /\ InOrder /\ [Next]_vars => PlaceTypes'
<1> SUFFICES ASSUME PlaceTypes, InOrder, [Next]_vars PROVE PlaceTypes'
  OBVIOUS
<1>0. Len(Kind) \in Nat
  BY KindFacts
<1> USE DEF PlaceTypes, buffers, results, channels, flags
<1>1. CASE StartNetwork \/ Wait \/ LoggedIn
  BY <1>1 DEF StartNetwork, Wait, LoggedIn
<1>2. CASE Call
  BY <1>0, <1>2 DEF Call
<1>3. CASE Send
  BY <1>3 DEF Send
<1>4. CASE SendFails
  BY <1>4 DEF SendFails
<1>5. CASE TimeOut
  BY <1>5 DEF TimeOut
<1>6. CASE Parse
  <2>1. response \in Calls
    BY <1>0, <1>6 DEF Parse, InOrder, Calls
  <2> QED
    BY <1>6, <2>1 DEF Parse
<1>7. CASE Welcome
  BY <1>7 DEF Welcome, SignalA
<1>8. ASSUME NEW c \in Calls, Data(c) PROVE PlaceTypes'
  BY <1>8 DEF Data
<1>9. ASSUME NEW c \in Calls, Done(c) PROVE PlaceTypes'
  BY <1>9 DEF Done, SignalA
<1>10. CASE Lose
  BY <1>10 DEF Lose
<1>11. CASE UNCHANGED vars
  BY <1>11 DEF vars
<1> QED
  BY <1>1, <1>2, <1>3, <1>4, <1>5, <1>6, <1>7, <1>8, <1>9, <1>10, <1>11 DEF Next, Client, Answer

\* What is appended and parsed are bytes of answers, within their bounds.
LEMMA DataTypesKept == DataTypes /\ PlaceTypes /\ InOrder /\ [Next]_vars => DataTypes'
<1> SUFFICES ASSUME DataTypes, PlaceTypes, InOrder, [Next]_vars PROVE DataTypes'
  OBVIOUS
<1> USE DEF DataTypes, buffers, results, channels
<1>1. CASE UNCHANGED <<content, got, total>>
  BY <1>1
<1>2. CASE Call
  <2>1. call + 1 \in Calls
    BY <1>2, KindFacts DEF Call, PlaceTypes, Calls
  <2>2. << <<call + 1, 0>> >> \in Seq(Bytes) /\ <<>> \in Seq(Bytes)
    <3>1. <<call + 1, 0>> \in Bytes
      BY <2>1, KindFacts DEF Bytes
    <3> QED
      BY <3>1
  <2> QED
    BY <1>2, <2>1, <2>2 DEF Call
<1>3. CASE Parse
  <2>1. response \in Calls /\ call \in Calls
    BY <1>3, KindFacts DEF Parse, InOrder, PlaceTypes, Calls
  <2> QED
    BY <1>3, <2>1 DEF Parse
<1>4. ASSUME NEW c \in Calls, Data(c) PROVE DataTypes'
  <2>1. PICK n \in 1..MaxPacket : /\ total[c] + n <= MaxTotal
                                 /\ content' = [content EXCEPT ![response] = @ \o Appended(c, n)]
                                 /\ total' = [total EXCEPT ![c] = @ + n]
    BY <1>4 DEF Data
  <2>2. Appended(c, n) \in Seq(Bytes)
    BY <2>1, AppendedInPacket
  <2>3. content' \in [Calls -> Seq(Bytes)]
    <3>1. response \in Calls
      BY <1>4, KindFacts DEF Data, InOrder, PlaceTypes, Calls
    <3>2. content[response] \o Appended(c, n) \in Seq(Bytes)
      BY <2>2, <3>1
    <3> QED
      BY <2>1, <3>2
  <2>4. total[c] + n \in 0..MaxTotal
    BY <2>1, KindFacts
  <2>5. total' \in [Calls -> 0..MaxTotal]
    BY <2>1, <2>4
  <2> QED
    BY <1>4, <2>3, <2>5 DEF Data
<1>5. CASE StartNetwork \/ Send \/ SendFails \/ Wait \/ TimeOut \/ LoggedIn
  BY <1>1, <1>5 DEF StartNetwork, Send, SendFails, Wait, TimeOut, LoggedIn
<1>6. CASE Welcome \/ Lose \/ UNCHANGED vars
  BY <1>1, <1>6 DEF Welcome, Lose, vars
<1>7. ASSUME NEW c \in Calls, Done(c) PROVE DataTypes'
  BY <1>1, <1>7 DEF Done
<1> QED
  BY <1>2, <1>3, <1>4, <1>5, <1>6, <1>7 DEF Next, Client, Answer

-----------------------------------------------------------------------------
(* Every step keeps the rest of the invariant. *)

\* A channel that may be answered is that of a call already made.
LEMMA OpenWasCalled ==
  ASSUME PlaceTypes, InOrder, NEW c \in Calls, chan[c] = "open"
  PROVE  c <= call /\ call \in Calls /\ call # 0 /\ response = call /\ welcomed
<1>1. c \in Nat /\ c # 0 /\ Len(Kind) \in Nat /\ call \in 0..Len(Kind)
  BY KindFacts DEF PlaceTypes
<1>2. ~(c > call)
  BY DEF InOrder
<1>3. c <= call /\ call # 0
  BY <1>1, <1>2
<1> QED
  BY <1>1, <1>3 DEF InOrder, Calls

\* The channels of calls to come are untouched: only the current call's is opened.
LEMMA InOrderKept == PlaceTypes /\ DataTypes /\ InOrder /\ [Next]_vars => InOrder'
<1> SUFFICES ASSUME PlaceTypes, DataTypes, InOrder, [Next]_vars PROVE InOrder'
  OBVIOUS
<1> USE KindFacts DEF PlaceTypes, DataTypes, InOrder, buffers, results, channels, flags
<1>1. CASE StartNetwork
  BY <1>1 DEF StartNetwork
<1>2. CASE Call
  BY <1>2 DEF Call, Calls
<1>3. CASE Send
  BY <1>3 DEF Send
<1>4. CASE SendFails
  BY <1>4 DEF SendFails
<1>5. CASE Wait \/ LoggedIn
  BY <1>5 DEF Wait, LoggedIn
<1>6. CASE TimeOut
  BY <1>6 DEF TimeOut
<1>7. CASE Parse
  BY <1>7 DEF Parse
<1>8. CASE Welcome
  BY <1>8 DEF Welcome, SignalA
<1>9. ASSUME NEW c \in Calls, Data(c) PROVE InOrder'
  <2>1. c <= call /\ chan[c] = "open"
    BY <1>9, OpenWasCalled DEF Data
  <2>2. \A d \in Calls \ {c} : total'[d] = total[d]
    BY <1>9 DEF Data
  <2>3. UNCHANGED <<call, apc, response, outcome, chan, welcomed>>
    BY <1>9 DEF Data
  <2>4. \A d \in Calls : d > call => d # c
    BY <2>1
  <2>5. apc = "send" => call \in Calls /\ call # c
    BY <2>1 DEF Calls
  <2> QED
    BY <2>2, <2>3, <2>4, <2>5
<1>10. ASSUME NEW c \in Calls, Done(c) PROVE InOrder'
  <2>1. c <= call /\ call # 0 /\ welcomed /\ chan[c] = "open"
    BY <1>10, OpenWasCalled DEF Done
  <2>2. apc' = "send" => apc = "send" /\ call # c
    BY <1>10, <2>1 DEF Done, SignalA
  <2>3. \A d \in Calls : d # c => chan'[d] = chan[d]
    BY <1>10 DEF Done
  <2>4. UNCHANGED <<call, response, outcome, total, welcomed>>
    BY <1>10 DEF Done
  <2>5. \A d \in Calls : d > call => d # c
    BY <2>1
  <2>6. apc = "send" => call \in Calls
    BY DEF Calls
  <2>7. apc' = "login" => apc = "login"
    BY <1>10 DEF Done, SignalA
  <2> QED
    BY <2>1, <2>2, <2>3, <2>4, <2>5, <2>6, <2>7
<1>11. CASE Lose \/ UNCHANGED vars
  BY <1>11 DEF Lose, vars
<1> QED
  BY <1>1, <1>2, <1>3, <1>4, <1>5, <1>6, <1>7, <1>8, <1>9, <1>10, <1>11 DEF Next, Client, Answer

\* A call has no outcome before it returns.
LEMMA UndecidedKept == PlaceTypes /\ InOrder /\ Undecided /\ [Next]_vars => Undecided'
<1> SUFFICES ASSUME PlaceTypes, InOrder, Undecided, [Next]_vars PROVE Undecided'
  OBVIOUS
<1> USE DEF PlaceTypes, InOrder, Undecided, InCall, buffers, results, channels, flags
<1>1. CASE Call
  BY <1>1, KindFacts DEF Call, Calls
<1>2. CASE StartNetwork \/ Send \/ Wait
  BY <1>2 DEF StartNetwork, Send, Wait
<1>3. CASE SendFails \/ TimeOut \/ LoggedIn \/ Parse
  BY <1>3 DEF SendFails, TimeOut, LoggedIn, Parse
<1>4. CASE Welcome
  BY <1>4 DEF Welcome, SignalA
<1>5. ASSUME NEW c \in Calls, Data(c) PROVE Undecided'
  BY <1>5 DEF Data
<1>6. ASSUME NEW c \in Calls, Done(c) PROVE Undecided'
  BY <1>6 DEF Done, SignalA
<1>7. CASE Lose \/ UNCHANGED vars
  BY <1>7 DEF Lose, vars
<1> QED
  BY <1>1, <1>2, <1>3, <1>4, <1>5, <1>6, <1>7 DEF Next, Client, Answer

\* An outcome is given once, so a timeout is never forgotten.
LEMMA TimeOutStays == PlaceTypes /\ Undecided /\ [Next]_vars /\ NoTimeOut' => NoTimeOut
<1> SUFFICES ASSUME PlaceTypes, Undecided, [Next]_vars, NEW c \in Calls, outcome[c] = "timeout"
             PROVE  outcome'[c] = "timeout"
  BY DEF NoTimeOut
<1> USE DEF PlaceTypes, Undecided, InCall, results
<1>1. CASE SendFails \/ TimeOut \/ Parse
  BY <1>1 DEF SendFails, TimeOut, Parse, Calls
<1>2. CASE StartNetwork \/ Call \/ Send \/ Wait \/ LoggedIn
  BY <1>2 DEF StartNetwork, Call, Send, Wait, LoggedIn
<1>3. CASE Welcome \/ Lose \/ UNCHANGED vars
  BY <1>3 DEF Welcome, Lose, vars
<1>4. ASSUME NEW d \in Calls, Data(d) \/ Done(d) PROVE outcome'[c] = "timeout"
  BY <1>4 DEF Data, Done
<1> QED
  BY <1>1, <1>2, <1>3, <1>4 DEF Next, Client, Answer

\* Until a timeout, only the call A is waiting in can be answered.
LEMMA OneAtATimeKept ==
  ASSUME PlaceTypes, InOrder, Undecided, NoTimeOut', OneAtATime, [Next]_vars
  PROVE  OneAtATime'
<1> USE DEF PlaceTypes, OneAtATime, buffers, results, channels, flags
<1>1. CASE Call
  BY <1>1, KindFacts DEF Call, InOrder, Calls
<1>2. CASE Send
  BY <1>2 DEF Send, InOrder
<1>3. CASE SendFails
  BY <1>3 DEF SendFails, InOrder, Undecided, InCall
<1>4. CASE TimeOut
  BY <1>4, KindFacts DEF TimeOut, NoTimeOut, Calls
<1>5. CASE StartNetwork \/ Wait \/ LoggedIn
  BY <1>5 DEF StartNetwork, Wait, LoggedIn
<1>6. CASE Parse
  BY <1>6, KindFacts DEF Parse, InOrder, Undecided, InCall, Calls
<1>7. CASE Welcome
  <2>1. call = 0 /\ \A c \in Calls : chan[c] # "open"
    BY <1>7, OpenWasCalled DEF Welcome, InOrder
  <2>2. UNCHANGED <<call, chan, freed, outcome, dangling>>
    BY <1>7 DEF Welcome
  <2> QED
    BY <2>1, <2>2
<1>8. ASSUME NEW c \in Calls, Data(c) PROVE OneAtATime'
  <2>1. c = call /\ apc \in {"gap", "waiting"} /\ response = call /\ call # 0
    BY <1>8, OpenWasCalled DEF Data
  <2>2. response \notin freed
    BY <2>1 DEF Undecided, InCall
  <2>3. ~dangling'
    BY <1>8, <2>2 DEF Data
  <2>4. UNCHANGED <<call, apc, chan, freed, outcome>>
    BY <1>8 DEF Data
  <2> QED
    BY <2>3, <2>4
<1>9. ASSUME NEW c \in Calls, Done(c) PROVE OneAtATime'
  <2>1. c = call /\ call # 0 /\ apc \in {"gap", "waiting"}
    BY <1>9, OpenWasCalled DEF Done
  <2>2. chan' = [chan EXCEPT ![c] = "closed"] /\ UNCHANGED <<call, freed, outcome, dangling>>
    BY <1>9 DEF Done
  <2> QED
    BY <2>1, <2>2
<1>10. CASE Lose \/ UNCHANGED vars
  BY <1>10 DEF Lose, vars
<1> QED
  BY <1>1, <1>2, <1>3, <1>4, <1>5, <1>6, <1>7, <1>8, <1>9, <1>10 DEF Next, Client, Answer

\* What is due of an answer changes with its length only.
LEMMA OwnFrame == ASSUME NEW c, total'[c] = total[c] PROVE Own(c)' = Own(c)
BY DEF Own, OwnLength, First, Gzip

\* Before any data that is the tag of a playlist, or nothing.
LEMMA OwnOfNothing ==
  ASSUME NEW c \in Calls, total[c] = 0
  PROVE  Own(c) = IF Kind[c] = "list" THEN << <<c, 0>> >> ELSE <<>>
<1>1. CASE Kind[c] = "list"
  <2>1. First(c) = 0 /\ OwnLength(c) = 1
    BY <1>1 DEF First, OwnLength
  <2>2. Own(c) = [i \in 1..1 |-> <<c, i - 1>>]
    BY <2>1 DEF Own
  <2> QED
    BY <1>1, <2>2
<1>2. CASE Kind[c] # "list"
  <2>1. First(c) \in Nat /\ First(c) > 0
    BY <1>2, KindFacts DEF First
  <2>2. OwnLength(c) = 0
    BY <2>1 DEF OwnLength
  <2>3. Own(c) = [i \in 1..0 |-> <<c, First(c) - 1 + i>>]
    BY <2>2 DEF Own
  <2>4. [i \in 1..0 |-> <<c, First(c) - 1 + i>>] = <<>>
    OBVIOUS
  <2> QED
    BY <1>2, <2>3, <2>4
<1> QED
  BY <1>1, <1>2

\* Until a timeout, the buffer of the current call holds all of its answer that has come.
LEMMA FilledKept ==
  ASSUME PlaceTypes, DataTypes, InOrder, NoTimeOut', OneAtATime, Filled, [Next]_vars
  PROVE  Filled'
<1> USE DEF buffers, results, channels, flags
<1>1. ASSUME UNCHANGED <<call, content, total>>, InCall' => InCall
      PROVE  Filled'
  <2> SUFFICES ASSUME InCall' PROVE (content[call] = Own(call))'
    BY DEF Filled
  <2>1. content[call] = Own(call)
    BY <1>1 DEF Filled
  <2>2. (Own(call))' = Own(call)
    BY <1>1 DEF Own, OwnLength, First, Gzip
  <2> QED
    BY <1>1, <2>1, <2>2
<1>2. CASE Call
  <2> DEFINE d == call + 1
  <2>1. d \in Calls /\ total[d] = 0 /\ total' = total /\ call' = d
    BY <1>2, KindFacts DEF Call, PlaceTypes, InOrder, Calls
  <2>2. content'[d] = Own(d)
    BY <1>2, <2>1, OwnOfNothing DEF Call, DataTypes
  <2>3. (Own(call))' = Own(d)
    BY <2>1 DEF Own, OwnLength, First, Gzip
  <2> QED
    BY <2>1, <2>2, <2>3 DEF Filled
<1>3. CASE StartNetwork \/ Send \/ Wait
  BY <1>1, <1>3 DEF StartNetwork, Send, Wait, InCall, InOrder
<1>4. CASE SendFails \/ TimeOut \/ LoggedIn \/ Parse
  BY <1>4 DEF SendFails, TimeOut, LoggedIn, Parse, Filled, InCall
<1>5. CASE Welcome
  BY <1>1, <1>5 DEF Welcome, SignalA, InCall
<1>6. ASSUME NEW c \in Calls, Data(c) PROVE Filled'
  <2>1. c = call /\ response = call /\ call # 0 /\ apc \in {"gap", "waiting"}
    BY <1>6, OpenWasCalled DEF Data, OneAtATime
  <2>2. PICK n \in 1..MaxPacket : /\ content' = [content EXCEPT ![response] = @ \o Appended(c, n)]
                                 /\ total' = [total EXCEPT ![c] = @ + n]
    BY <1>6 DEF Data
  <2>3. Own(c)' = Own(c) \o Appended(c, n)
    BY <2>2, OwnGrows
  <2>4. content[c] = Own(c)
    BY <2>1 DEF Filled, InCall
  <2>5. content'[c] = Own(c) \o Appended(c, n)
    BY <2>1, <2>2, <2>4 DEF DataTypes
  <2>6. call' = c
    BY <1>6, <2>1 DEF Data
  <2>7. (Own(call))' = Own(c)'
    BY <2>6 DEF Own, OwnLength, First, Gzip
  <2> QED
    BY <2>3, <2>5, <2>6, <2>7 DEF Filled
<1>7. ASSUME NEW c \in Calls, Done(c) PROVE Filled'
  BY <1>1, <1>7 DEF Done, SignalA, InCall
<1>8. CASE Lose \/ UNCHANGED vars
  BY <1>1, <1>8 DEF Lose, vars, InCall
<1> QED
  BY <1>2, <1>3, <1>4, <1>5, <1>6, <1>7, <1>8 DEF Next, Client, Answer

\* Until a timeout, what was returned is the whole answer, and remains it.
LEMMA AnsweredKept ==
  ASSUME PlaceTypes, DataTypes, InOrder, Undecided, NoTimeOut', OneAtATime, Filled, Answered, [Next]_vars
  PROVE  Answered'
<1> SUFFICES ASSUME NEW c \in Calls, outcome'[c] = "answer"
             PROVE  chan'[c] = "closed" /\ got'[c] = Own(c)'
  BY DEF Answered
<1> USE DEF buffers, results, channels, flags
<1>1. ASSUME outcome[c] = "answer", chan'[c] = chan[c], got'[c] = got[c], total'[c] = total[c]
      PROVE  chan'[c] = "closed" /\ got'[c] = Own(c)'
  BY <1>1, OwnFrame DEF Answered
<1>2. CASE Parse
  <2>1. CASE c = call
    <3>1. chan[call] = "closed" /\ content[call] = Own(call) /\ response = call
      BY <1>2 DEF Parse, OneAtATime, Filled, InCall, InOrder
    <3>2. Own(c)' = Own(c)
      BY <1>2, OwnFrame DEF Parse
    <3> QED
      BY <1>2, <2>1, <3>1, <3>2 DEF Parse, DataTypes
  <2>2. CASE c # call
    BY <1>1, <1>2, <2>2 DEF Parse, PlaceTypes, DataTypes
  <2> QED
    BY <2>1, <2>2
<1>3. CASE SendFails
  <2>1. c # call
    BY <1>3 DEF SendFails, PlaceTypes
  <2> QED
    BY <1>1, <1>3, <2>1 DEF SendFails, PlaceTypes
<1>4. CASE Send
  <2>1. c # call
    BY <1>4 DEF Send, Undecided, InCall, InOrder
  <2> QED
    BY <1>1, <1>4, <2>1 DEF Send, PlaceTypes
<1>5. CASE TimeOut
  BY <1>1, <1>5 DEF TimeOut, PlaceTypes
<1>6. CASE StartNetwork \/ Call \/ Wait \/ LoggedIn
  BY <1>1, <1>6 DEF StartNetwork, Call, Wait, LoggedIn
<1>7. CASE Welcome \/ Lose \/ UNCHANGED vars
  BY <1>1, <1>7 DEF Welcome, Lose, vars
<1>8. ASSUME NEW d \in Calls, Data(d) PROVE chan'[c] = "closed" /\ got'[c] = Own(c)'
  <2>1. outcome[c] = "answer" /\ c # d
    BY <1>8 DEF Data, Answered
  <2>2. total'[c] = total[c]
    BY <1>8, <2>1 DEF Data, DataTypes
  <2> QED
    BY <1>1, <1>8, <2>1, <2>2 DEF Data
<1>9. ASSUME NEW d \in Calls, Done(d) PROVE chan'[c] = "closed" /\ got'[c] = Own(c)'
  <2>1. outcome[c] = "answer" /\ c # d
    BY <1>9 DEF Done, Answered
  <2>2. chan'[c] = chan[c]
    BY <1>9, <2>1 DEF Done, PlaceTypes
  <2> QED
    BY <1>1, <1>9, <2>1, <2>2 DEF Done
<1> QED
  BY <1>2, <1>3, <1>4, <1>5, <1>6, <1>7, <1>8, <1>9 DEF Next, Client, Answer

\* The invariant holds when the network thread has not been started yet.
LEMMA InitIInv == Init => IInv
<1> SUFFICES ASSUME Init PROVE IInv
  OBVIOUS
<1>1. FlagTypes
  BY RequestAssumption, Zenon DEF Init, FlagTypes
<1>2. DataTypes
  <2>1. <<>> \in Seq(Bytes) /\ 0 \in 0..MaxTotal
    BY KindFacts
  <2> QED
    BY <2>1 DEF Init, DataTypes
<1>3. PlaceTypes
  BY KindFacts DEF Init, PlaceTypes
<1>4. InOrder /\ Undecided
  BY DEF Init, InOrder, Undecided, InCall
<1>5. OneAtATime /\ Filled /\ Answered
  BY DEF Init, OneAtATime, Filled, InCall, Answered
<1> QED
  BY <1>1, <1>2, <1>3, <1>4, <1>5 DEF IInv

\* And every step keeps it.
LEMMA StepIInv == IInv /\ [Next]_vars => IInv'
<1> SUFFICES ASSUME IInv, [Next]_vars PROVE IInv'
  OBVIOUS
<1>1. FlagTypes /\ DataTypes /\ PlaceTypes /\ InOrder /\ Undecided
  BY DEF IInv
<1>2. FlagTypes' /\ DataTypes' /\ PlaceTypes' /\ InOrder' /\ Undecided'
  BY <1>1, FlagTypesKept, DataTypesKept, PlaceTypesKept, InOrderKept, UndecidedKept
<1>3. ASSUME NoTimeOut' PROVE OneAtATime' /\ Filled' /\ Answered'
  <2>1. OneAtATime /\ Filled /\ Answered
    BY <1>1, <1>3, TimeOutStays DEF IInv
  <2> QED
    BY <1>1, <1>3, <2>1, OneAtATimeKept, FilledKept, AnsweredKept
<1> QED
  BY <1>2, <1>3 DEF IInv

\* The invariant holds throughout.
LEMMA Invariant == Spec => []IInv
BY InitIInv, StepIInv, PTL DEF Spec

-----------------------------------------------------------------------------

\* In every reachable state the variables have their types: in particular no callback
\* takes a byte from behind its packet.
THEOREM RequestTypeCorrect == Spec => []TypeOK
<1>1. IInv => TypeOK
  <2> SUFFICES ASSUME IInv PROVE TypeOK
    OBVIOUS
  <2>1. response \in 0..call
    BY KindFacts DEF IInv, PlaceTypes, InOrder
  <2> QED
    BY <2>1, Zenon DEF IInv, FlagTypes, DataTypes, PlaceTypes, TypeOK
<1> QED
  BY <1>1, Invariant, PTL

\* Until a call has timed out, a call that returns an answer returns its own answer,
\* complete and in order, however its packets are cut and whatever was called before.
THEOREM RequestOwnAnswer == Spec => []OwnAnswer
<1>1. IInv => OwnAnswer
  BY DEF IInv, OwnAnswer, NoTimeOut, Answered
<1> QED
  BY <1>1, Invariant, PTL

\* Until a call has timed out, the network thread writes to no freed buffer.
THEOREM RequestResponseAlive == Spec => []ResponseAlive
<1>1. IInv => ResponseAlive
  BY DEF IInv, ResponseAlive, NoTimeOut, OneAtATime
<1> QED
  BY <1>1, Invariant, PTL
=============================================================================
