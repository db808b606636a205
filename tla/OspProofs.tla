------------------------------ MODULE OspProofs ------------------------------
(***************************************************************************)
(* Proofs about the two users of the Osp mutex and monitor.                *)
(*                                                                         *)
(* BadaCond, for any set of threads: its invariants, and that the calls of *)
(* libposix implement PosixCond.                                           *)
(*                                                                         *)
(* AudioOut, for every Capacity and any number of failed writes: the flags *)
(* of the application count the buffers of the device, and an underrun is  *)
(* handled when the device is empty and never before.                      *)
(***************************************************************************)
EXTENDS BadaCond, AudioOut, TLAPS

-----------------------------------------------------------------------------
(* BadaCond. *)

\* The labels at which a thread is inside the Osp Monitor.
InMonitor == {"wait release", "wait wait", "wait exit", "notify", "exit"}

MonitorMatches == \A t \in Thread : monitor = t <=> pc[t] \in InMonitor
WaitersBlocked == \A t \in waitset : pc[t] = "blocked"

\* MutexMatchesCaller alone is not inductive: who may release, notify or enter
\* depends on who is inside the monitor and on what the waiters are doing.
IInv == TypeOK /\ MutexMatchesCaller /\ MonitorMatches /\ WaitersBlocked

\* The invariant holds while nobody has called anything.
LEMMA InitIInv == Init => IInv
BY NoThreadAssumption
DEF Init, IInv, TypeOK, MutexMatchesCaller, MonitorMatches, WaitersBlocked,
    InMonitor, PC, Idle

\* Every call keeps the invariant.
LEMMA NextIInv == IInv /\ [Next]_vars => IInv'
<1> SUFFICES ASSUME IInv, [Next]_vars PROVE IInv'
  OBVIOUS
<1> USE NoThreadAssumption
     DEF IInv, TypeOK, MutexMatchesCaller, MonitorMatches, WaitersBlocked, InMonitor, PC, Idle
<1>1. ASSUME NEW t \in Thread, CallLock(t) \/ CallTryLock(t)
     PROVE  IInv'
  BY <1>1 DEF CallLock, CallTryLock, Goto
<1>2. ASSUME NEW t \in Thread, CallWait(t)
     PROVE  IInv'
  BY <1>2 DEF CallWait, Goto
<1>3. ASSUME NEW t \in Thread, CallSignal(t)
     PROVE  IInv'
  BY <1>3 DEF CallSignal, Goto
<1>4. ASSUME NEW t \in Thread, Acquire(t)
     PROVE  IInv'
  BY <1>4 DEF Acquire, Goto
<1>5. ASSUME NEW t \in Thread, WaitAcquire(t)
     PROVE  IInv'
  BY <1>5 DEF WaitAcquire, Goto
<1>6. ASSUME NEW t \in Thread, SetAcquired(t)
     PROVE  IInv'
  BY <1>6 DEF SetAcquired, Goto
<1>7. ASSUME NEW t \in Thread, ClearAcquired(t)
     PROVE  IInv'
  BY <1>7 DEF ClearAcquired, Goto
<1>8. ASSUME NEW t \in Thread, Unlock(t)
     PROVE  IInv'
  BY <1>8 DEF Unlock, Goto
<1>9. ASSUME NEW t \in Thread, WaitRelease(t)
     PROVE  IInv'
  BY <1>9 DEF WaitRelease, Goto
<1>10. ASSUME NEW t \in Thread, WaitEnter(t)
      PROVE  IInv'
  BY <1>10 DEF WaitEnter, Goto
<1>11. ASSUME NEW t \in Thread, WaitReturn(t)
      PROVE  IInv'
  BY <1>11 DEF WaitReturn, Goto
<1>12. ASSUME NEW t \in Thread, Enter(t)
      PROVE  IInv'
  BY <1>12 DEF Enter, Goto
<1>13. ASSUME NEW t \in Thread, WaitWait(t)
      PROVE  IInv'
  BY <1>13 DEF WaitWait, Goto
<1>14. ASSUME NEW t \in Thread, WaitExit(t)
      PROVE  IInv'
  BY <1>14 DEF WaitExit, Goto
<1>15. ASSUME NEW t \in Thread, Notify(t) \/ NotifyAll(t)
      PROVE  IInv'
  <2>1. /\ pc[t] = "notify"
        /\ pc' = [pc EXCEPT ![t] = "exit"]
        /\ waitset' \subseteq waitset
        /\ UNCHANGED <<holder, acquired, monitor>>
    BY <1>15 DEF Notify, NotifyAll, Goto
  <2> QED
    BY <2>1
<1>16. ASSUME NEW t \in Thread, Exit(t)
      PROVE  IInv'
  BY <1>16 DEF Exit, Goto
<1>17. CASE UNCHANGED vars
  BY <1>17 DEF vars
<1> QED
  BY <1>1, <1>2, <1>3, <1>4, <1>5, <1>6, <1>7, <1>8, <1>9,
     <1>10, <1>11, <1>12, <1>13, <1>14, <1>15, <1>16, <1>17 DEF Next, Step

\* The inductive invariant holds in every reachable state.
THEOREM Invariance == Spec => []IInv
BY InitIInv, NextIInv, PTL DEF Spec

\* Every variable keeps its type: a thread is at one of the labels, and each Osp
\* object has at most one thread inside (pthread.cpp).
THEOREM TypeCorrect == Spec => []TypeOK
<1>1. IInv => TypeOK
  BY DEF IInv
<1> QED
  BY Invariance, <1>1, PTL

\* Between pthread_mutex_lock and pthread_mutex_unlock, and up to the release
\* inside pthread_cond_wait, the caller really holds the mutex.
THEOREM CallerHoldsMutex == Spec => []MutexMatchesCaller
<1>1. IInv => MutexMatchesCaller
  BY DEF IInv
<1> QED
  BY Invariance, <1>1, PTL

\* No thread signals between a waiter's release of the mutex and its Wait.
THEOREM GapIsClosed == Spec => []NoSignalInTheGap
<1>1. IInv => NoSignalInTheGap
  BY NoThreadAssumption DEF IInv, TypeOK, MonitorMatches, InMonitor, NoSignalInTheGap
<1> QED
  BY Invariance, <1>1, PTL

-----------------------------------------------------------------------------
(* The refinement. *)

ModeBar == [t \in Thread |-> Mode(t)]

\* The initial state is one of the POSIX primitives.
LEMMA InitMaps == Init => Posix!Init
BY DEF Init, Posix!Init, Mode

\* Calls that move neither the mutex nor a waiter are stuttering steps of PosixCond.
LEMMA SameModeStutters ==
  ASSUME holder' = holder, \A w \in Thread : Mode(w)' = Mode(w)
  PROVE  UNCHANGED <<holder, ModeBar>>
BY DEF ModeBar

\* A signal that wakes a waiter changes the mode function at two points.
LEMMA TwoModesChange ==
  ASSUME NEW t \in Thread, NEW w \in Thread, w # t,
         Mode(w) = "waiting", Mode(w)' = "woken", Mode(t)' = "running",
         \A v \in Thread \ {t, w} : Mode(v)' = Mode(v)
  PROVE  /\ ModeBar[w] = "waiting"
         /\ ModeBar' = [ModeBar EXCEPT ![t] = "running", ![w] = "woken"]
BY DEF ModeBar

\* A thread that begins or ends a signal changes it at one.
LEMMA OneModeChanges ==
  ASSUME NEW t \in Thread, NEW m, Mode(t)' = m, \A v \in Thread \ {t} : Mode(v)' = Mode(v)
  PROVE  ModeBar' = [ModeBar EXCEPT ![t] = m]
BY DEF ModeBar

\* Every call is a step of PosixCond or a stuttering step.
LEMMA StepMaps == IInv /\ [Next]_vars => [Posix!Next]_<<holder, ModeBar>>
<1> SUFFICES ASSUME IInv, [Next]_vars PROVE [Posix!Next]_<<holder, ModeBar>>
  OBVIOUS
<1> USE NoThreadAssumption DEF IInv, TypeOK, PC, Idle, Mode
<1>1. ASSUME NEW t \in Thread, CallLock(t) \/ CallTryLock(t) \/ CallWait(t)
      PROVE  UNCHANGED <<holder, ModeBar>>
  BY <1>1, SameModeStutters DEF CallLock, CallTryLock, CallWait, Goto, WaitersBlocked
<1>2. ASSUME NEW t \in Thread, SetAcquired(t) \/ ClearAcquired(t)
      PROVE  UNCHANGED <<holder, ModeBar>>
  BY <1>2, SameModeStutters DEF SetAcquired, ClearAcquired, Goto, WaitersBlocked
<1>3. ASSUME NEW t \in Thread, WaitEnter(t) \/ WaitWait(t) \/ WaitReturn(t) \/ WaitExit(t)
      PROVE  UNCHANGED <<holder, ModeBar>>
  BY <1>3, SameModeStutters DEF WaitEnter, WaitWait, WaitReturn, WaitExit, Goto, WaitersBlocked
<1>4. ASSUME NEW t \in Thread, Enter(t) \/ Exit(t)
      PROVE  UNCHANGED <<holder, ModeBar>>
  BY <1>4, SameModeStutters DEF Enter, Exit, Goto, WaitersBlocked
<1>5. ASSUME NEW t \in Thread, Acquire(t)
      PROVE  Posix!Lock(t)
  BY <1>5 DEF Acquire, Goto, Posix!Lock, WaitersBlocked
<1>6. ASSUME NEW t \in Thread, Unlock(t)
      PROVE  Posix!Unlock(t)
  BY <1>6 DEF Unlock, Goto, Posix!Unlock, WaitersBlocked, MutexMatchesCaller
<1>7. ASSUME NEW t \in Thread, WaitRelease(t)
      PROVE  Posix!Wait(t)
  BY <1>7 DEF WaitRelease, Goto, Posix!Wait, WaitersBlocked, MutexMatchesCaller
<1>8. ASSUME NEW t \in Thread, WaitAcquire(t)
      PROVE  Posix!Return(t)
  BY <1>8 DEF WaitAcquire, Goto, Posix!Return, WaitersBlocked
<1>9. ASSUME NEW t \in Thread, Notify(t)
      PROVE  Posix!Signal(t)
  <2>1. Mode(t) = "signalling" /\ ModeBar[t] = "signalling" /\ UNCHANGED holder
    BY <1>9 DEF Notify, WaitersBlocked, ModeBar
  <2>2. CASE waitset = {} /\ UNCHANGED waitset
    <3>1. \A w \in Thread : pc[w] # "wait wait"
      BY <1>9 DEF Notify, MonitorMatches, InMonitor
    <3>2. \A w \in Thread : ModeBar[w] # "waiting"
      BY <2>2, <3>1 DEF ModeBar
    <3>3. Mode(t)' = "running" /\ \A v \in Thread \ {t} : Mode(v)' = Mode(v)
      BY <1>9, <2>2 DEF Notify, Goto, WaitersBlocked
    <3> HIDE DEF Mode
    <3>4. ModeBar' = [ModeBar EXCEPT ![t] = "running"]
      BY <3>3, OneModeChanges
    <3> QED
      BY <2>1, <3>2, <3>4 DEF Posix!Signal, ModeBar
  <2>3. ASSUME NEW w \in waitset, waitset' = waitset \ {w}
        PROVE  Posix!Signal(t)
    <3>1. w \in Thread /\ w # t
      BY <1>9 DEF Notify, WaitersBlocked
    <3>2. Mode(w) = "waiting" /\ Mode(w)' = "woken" /\ Mode(t)' = "running"
      BY <1>9, <2>3, <3>1 DEF Notify, Goto, WaitersBlocked
    <3>3. \A v \in Thread \ {t, w} : Mode(v)' = Mode(v)
      BY <1>9, <2>3 DEF Notify, Goto, WaitersBlocked
    <3> HIDE DEF Mode
    <3>4. /\ ModeBar[w] = "waiting"
          /\ ModeBar' = [ModeBar EXCEPT ![t] = "running", ![w] = "woken"]
      BY <3>1, <3>2, <3>3, TwoModesChange
    <3> QED
      BY <2>1, <3>1, <3>4 DEF Posix!Signal, ModeBar
  <2> QED
    BY <1>9, <2>2, <2>3 DEF Notify
<1>10. ASSUME NEW t \in Thread, NotifyAll(t)
       PROVE  Posix!Broadcast(t)
  <2>1. \A w \in Thread : pc[w] # "wait wait"
    BY <1>10 DEF NotifyAll, MonitorMatches, InMonitor
  <2>2. \A w \in Thread :
          Mode(w)' = IF w = t THEN "running" ELSE IF Mode(w) = "waiting" THEN "woken" ELSE Mode(w)
    BY <1>10, <2>1 DEF NotifyAll, Goto, WaitersBlocked
  <2>3. Mode(t) = "signalling"
    BY <1>10 DEF NotifyAll, WaitersBlocked
  <2> QED
    BY <1>10, <2>2, <2>3 DEF NotifyAll, Posix!Broadcast
<1>11. ASSUME NEW t \in Thread, CallSignal(t)
       PROVE  Posix!CallSignal(t)
  <2>1. Mode(t) = "running" /\ Mode(t)' = "signalling"
    BY <1>11 DEF CallSignal, Goto, WaitersBlocked
  <2>2. \A v \in Thread \ {t} : Mode(v)' = Mode(v)
    BY <1>11 DEF CallSignal, Goto
  <2>3. UNCHANGED holder
    BY <1>11 DEF CallSignal
  <2> HIDE DEF Mode
  <2>4. ModeBar[t] = "running" /\ ModeBar' = [ModeBar EXCEPT ![t] = "signalling"]
    BY <2>1, <2>2, OneModeChanges DEF ModeBar
  <2> QED
    BY <2>3, <2>4 DEF Posix!CallSignal, ModeBar
<1>12. CASE UNCHANGED vars
  BY <1>12, SameModeStutters DEF vars
<1> QED
  BY <1>1, <1>2, <1>3, <1>4, <1>5, <1>6, <1>7, <1>8, <1>9, <1>10, <1>12, <1>11
     DEF Next, Step, Posix!Next

\* libposix's mutex and condition variable are a POSIX mutex and condition variable
\* for the callers in libdespotify: no signal sent after a waiter has released the
\* mutex is lost, for any number of threads.
THEOREM Refinement == Spec => ImplementsPosix
<1>1. IInv /\ [Next]_vars => [Posix!Next]_<<holder, [t \in Thread |-> Mode(t)]>>
  BY StepMaps DEF ModeBar
<1> QED
  BY InitMaps, <1>1, Invariance, PTL DEF Spec, ImplementsPosix, Posix!Spec

-----------------------------------------------------------------------------
(* AudioOut. *)

\* D holds the mutex from the moment it finds something to do until the end of tick,
\* and finds it only while it need not wait.
MutexHeld ==
  /\ mutex = "D" <=> dpc \in {"fill", "mark", "release", "asserted"}
  /\ dpc \in {"fill", "mark"} => ~buffered

\* The handler runs for a report, and the second buffer is never there without the first.
Reported == mpc = "acquire" => reports > 0

FirstBeforeSecond == buffered => prefilled

\* The rest of AudioTypeOK: the counters, and where everything is.  Numbers, strings and
\* Booleans are kept apart because each kind is proved by different means.
CountTypes ==
  /\ fill \in 0..Capacity
  /\ queued \in Nat /\ reports \in Nat
  /\ faults \in 0..MaxFaults

PlaceTypes ==
  /\ mutex \in {"free", "D"}
  /\ device \in {"stopped", "playing"}
  /\ dpc \in {"idle", "acquire", "enter", "waiting", "woken", "fill", "mark", "release", "stopped",
              "asserted"}
  /\ mpc \in {"idle", "acquire", "notify", "term notify", "join", "gone"}

Control == MutexHeld /\ Reported /\ FirstBeforeSecond

AudioInv == CountTypes /\ PlaceTypes /\ Control /\ BuffersAccounted

-----------------------------------------------------------------------------

\* The five flags stay Boolean, in every step.
LEMMA FlagsStayBoolean == FlagTypes /\ [AudioNext]_audioVars => FlagTypes'
<1> SUFFICES ASSUME FlagTypes, [AudioNext]_audioVars PROVE FlagTypes'
  OBVIOUS
<1> USE DEF FlagTypes, flags, env
<1>1. CASE Tick \/ Look \/ Wait \/ Woken \/ Fill \/ FillAsserts \/ Flush \/ Release
  BY <1>1, Zenon DEF Tick, Look, Wait, Woken, Fill, FillAsserts, Flush, Release
<1>2. CASE Mark
  BY <1>2, Zenon DEF Mark
<1>3. CASE HandleEnd
  BY <1>3, Zenon DEF HandleEnd
<1>4. CASE EndReached \/ Join \/ Timer \/ Play
  BY <1>4, Zenon DEF EndReached, Join, Timer, Play
<1>5. CASE NotifyDecoder \/ TerminateNotify
  <2>1. missed' \in BOOLEAN
    BY <1>5, Zenon DEF NotifyDecoder, TerminateNotify, NotifyD
  <2> QED
    BY <1>5, <2>1, Zenon DEF NotifyDecoder, TerminateNotify
<1>6. CASE Terminate \/ RunDry
  BY <1>6, Zenon DEF Terminate, RunDry
<1>7. CASE UNCHANGED audioVars
  BY <1>7, Zenon DEF audioVars
<1> QED
  BY <1>1, <1>2, <1>3, <1>4, <1>5, <1>6, <1>7, Zenon DEF AudioNext, Decoder, Handler

\* A flag counts for a natural number of buffers.
LEMMA OneIsNat == \A b : One(b) \in Nat
BY DEF One

\* The handler finds an empty device when it finds nothing buffered: it has a report,
\* and D, which does not hold the mutex, has marked what it wrote.
LEMMA UnderrunIsEmpty ==
  ASSUME AudioInv, mpc = "acquire", mutex = "free", ~buffered, faults = 0
  PROVE  queued = 0 /\ reports = 1
BY DEF AudioInv, Control, CountTypes, MutexHeld, Reported, BuffersAccounted, One

\* The invariant holds in the state the constructors leave.
LEMMA AudioInitInv == AudioInit => FlagTypes /\ AudioInv
<1> SUFFICES ASSUME AudioInit PROVE FlagTypes /\ AudioInv
  OBVIOUS
<1>1. FlagTypes
  BY Zenon DEF AudioInit, FlagTypes
<1>2. AudioInv
  BY AudioAssumption DEF AudioInit, AudioInv, CountTypes, PlaceTypes, Control, MutexHeld, Reported,
                         FirstBeforeSecond, BuffersAccounted, One
<1> QED
  BY <1>1, <1>2

\* Every step keeps the counters in range: Fill stops at the capacity, and a report is
\* taken only where there is one.
LEMMA CountsKept == CountTypes /\ Reported /\ [AudioNext]_audioVars => CountTypes'
<1> SUFFICES ASSUME CountTypes, Reported, [AudioNext]_audioVars PROVE CountTypes'
  OBVIOUS
<1> USE DEF CountTypes, flags, dev, env
<1>1. CASE Fill \/ FillAsserts
  BY <1>1, AudioAssumption DEF Fill, FillAsserts
<1>2. CASE Flush
  <2>1. fill' \in 0..Capacity
    BY <1>2, AudioAssumption DEF Flush
  <2>2. faults' \in 0..MaxFaults
    BY <1>2, AudioAssumption DEF Flush
  <2>3. queued' \in Nat /\ reports' \in Nat
    BY <1>2 DEF Flush
  <2> QED
    BY <2>1, <2>2, <2>3
<1>3. CASE HandleEnd
  BY <1>3 DEF HandleEnd, Reported
<1>4. CASE Play
  BY <1>4 DEF Play
<1>5. CASE UNCHANGED <<fill, queued, reports, faults>>
  BY <1>5
<1>6. CASE Tick \/ Look \/ Wait \/ Woken \/ Mark \/ Release
  BY <1>5, <1>6 DEF Tick, Look, Wait, Woken, Mark, Release
<1>7. CASE EndReached \/ NotifyDecoder \/ TerminateNotify \/ Terminate \/ Join \/ Timer \/ RunDry
  BY <1>5, <1>7 DEF EndReached, NotifyDecoder, TerminateNotify, Terminate, Join, Timer, RunDry
<1>8. CASE UNCHANGED audioVars
  BY <1>5, <1>8 DEF audioVars
<1> QED
  BY <1>1, <1>2, <1>3, <1>4, <1>6, <1>7, <1>8 DEF AudioNext, Decoder, Handler

\* Every step leads to a place of the program.
LEMMA PlacesKept == PlaceTypes /\ [AudioNext]_audioVars => PlaceTypes'
<1> SUFFICES ASSUME PlaceTypes, [AudioNext]_audioVars PROVE PlaceTypes'
  OBVIOUS
<1> USE DEF PlaceTypes, flags, dev, env
<1>1. CASE Tick \/ Look \/ Wait \/ Woken
  BY <1>1 DEF Tick, Look, Wait, Woken
<1>2. CASE Fill \/ FillAsserts \/ Flush \/ Mark \/ Release
  BY <1>2 DEF Fill, FillAsserts, Flush, Mark, Release
<1>3. CASE EndReached \/ HandleEnd \/ NotifyDecoder \/ TerminateNotify
  BY <1>3 DEF EndReached, HandleEnd, NotifyDecoder, TerminateNotify, NotifyD
<1>4. CASE Terminate \/ Join \/ Timer
  BY <1>4 DEF Terminate, Join, Timer
<1>5. CASE Play \/ RunDry \/ UNCHANGED audioVars
  BY <1>5 DEF Play, RunDry, audioVars
<1> QED
  BY <1>1, <1>2, <1>3, <1>4, <1>5 DEF AudioNext, Decoder, Handler

\* Every step keeps the mutex with D while it fills, and the flags in order.
LEMMA ControlKept == CountTypes /\ Control /\ [AudioNext]_audioVars => Control'
<1> SUFFICES ASSUME reports \in Nat, Control, [AudioNext]_audioVars PROVE Control'
  BY DEF CountTypes
<1> USE DEF Control, MutexHeld, Reported, FirstBeforeSecond, flags, dev, env
<1>1. CASE Tick \/ Look \/ Wait \/ Woken \/ Release
  BY <1>1 DEF Tick, Look, Wait, Woken, Release
<1>2. CASE Fill \/ FillAsserts \/ Flush \/ Mark
  BY <1>2 DEF Fill, FillAsserts, Flush, Mark
<1>3. CASE EndReached
  BY <1>3 DEF EndReached
<1>4. CASE Terminate
  BY <1>4 DEF Terminate
<1>5. CASE Join
  BY <1>5 DEF Join
<1>6. CASE Timer
  BY <1>6 DEF Timer
<1>7. CASE NotifyDecoder \/ TerminateNotify
  <2>1. dpc' \in {"fill", "mark", "release", "asserted"} <=> dpc \in {"fill", "mark", "release", "asserted"}
    BY <1>7 DEF NotifyDecoder, TerminateNotify, NotifyD
  <2>2. dpc' \in {"fill", "mark"} => dpc \in {"fill", "mark"}
    BY <1>7 DEF NotifyDecoder, TerminateNotify, NotifyD
  <2>3. mpc' # "acquire"
    BY <1>7 DEF NotifyDecoder, TerminateNotify
  <2>4. UNCHANGED <<mutex, buffered, prefilled>>
    BY <1>7 DEF NotifyDecoder, TerminateNotify
  <2>5. MutexHeld'
    BY <2>1, <2>2, <2>4, Zenon
  <2> QED
    BY <2>3, <2>4, <2>5
<1>8. CASE HandleEnd
  BY <1>8 DEF HandleEnd
<1>9. CASE Play \/ RunDry
  <2>1. reports' \in Nat /\ (reports > 0 => reports' > 0)
    BY <1>9 DEF Play, RunDry
  <2> QED
    BY <1>9, <2>1 DEF Play, RunDry
<1>10. CASE UNCHANGED audioVars
  BY <1>10 DEF audioVars
<1> QED
  BY <1>1, <1>2, <1>3, <1>4, <1>5, <1>6, <1>7, <1>8, <1>9, <1>10 DEF AudioNext, Decoder, Handler

\* Every step keeps the account: Flush and Mark move a buffer from one place to the
\* other, Play turns it into a report, and HandleEnd takes the report with a flag.
LEMMA AccountKept == AudioInv /\ [AudioNext]_audioVars => BuffersAccounted'
<1> SUFFICES ASSUME AudioInv, [AudioNext]_audioVars, faults' = 0
             PROVE  queued' + reports' = One(prefilled') + One(buffered') + One(dpc' = "mark")
  BY DEF BuffersAccounted
<1> USE DEF flags, dev, env
<1>0. CountTypes /\ Control /\ BuffersAccounted
  BY DEF AudioInv
<1>1. faults = 0
  <2>1. CASE Flush
    BY <1>0, <2>1, AudioAssumption DEF Flush, CountTypes
  <2>2. CASE ~Flush
    BY <2>2 DEF AudioNext, Decoder, Handler, Tick, Look, Wait, Woken, Fill, FillAsserts, Mark, Release,
                EndReached, HandleEnd, NotifyDecoder, NotifyD, TerminateNotify, Join, Timer, Terminate,
                Play, RunDry, audioVars
  <2> QED
    BY <2>1, <2>2
<1>2. queued + reports = One(prefilled) + One(buffered) + One(dpc = "mark")
  BY <1>0, <1>1 DEF BuffersAccounted
<1>3. queued \in Nat /\ reports \in Nat
  BY <1>0 DEF CountTypes
<1>4. CASE Flush
  <2>1. queued' + reports' = queued + reports + 1
    BY <1>1, <1>3, <1>4 DEF Flush
  <2>2. One(prefilled') = One(prefilled) /\ One(buffered') = One(buffered)
    BY <1>4 DEF Flush
  <2>3. One(dpc = "mark") = 0 /\ One(dpc' = "mark") = 1
    BY <1>4 DEF Flush, One
  <2> QED
    BY <1>2, <1>3, <2>1, <2>2, <2>3, OneIsNat
<1>5. CASE Mark
  <2>1. One(dpc = "mark") = 1 /\ One(dpc' = "mark") = 0 /\ One(buffered) = 0
    BY <1>0, <1>5 DEF Mark, One, Control, MutexHeld
  <2>2. One(prefilled') + One(buffered') = One(prefilled) + 1
    <3>1. CASE prefilled
      BY <1>5, <3>1 DEF Mark, One
    <3>2. CASE ~prefilled
      <4>1. One(prefilled) = 0 /\ One(prefilled') = 1
        BY <1>5, <3>2 DEF Mark, One
      <4>2. One(buffered') = One(buffered)
        BY <1>5, <3>2 DEF Mark
      <4> QED
        BY <2>1, <4>1, <4>2
    <3> QED
      BY <3>1, <3>2
  <2>3. queued' = queued /\ reports' = reports
    BY <1>5 DEF Mark
  <2> QED
    BY <1>2, <1>3, <2>1, <2>2, <2>3, OneIsNat
<1>6. CASE HandleEnd
  <2>1. One(dpc = "mark") = 0 /\ One(dpc' = "mark") = 0
    BY <1>0, <1>6 DEF HandleEnd, One, Control, MutexHeld
  <2>2. reports' = reports - 1 /\ reports > 0
    BY <1>0, <1>6 DEF HandleEnd, Control, Reported
  <2>3. CASE buffered
    <3>1. One(buffered) = 1 /\ One(buffered') = 0
      BY <1>6, <2>3 DEF HandleEnd, One
    <3>2. One(prefilled') = One(prefilled) /\ queued' = queued
      BY <1>6, <2>3 DEF HandleEnd
    <3> QED
      BY <1>2, <1>3, <2>1, <2>2, <3>1, <3>2, OneIsNat
  <2>4. CASE ~buffered
    <3>1. One(buffered) = 0 /\ One(buffered') = 0 /\ One(prefilled') = 0
      BY <1>6, <2>4 DEF HandleEnd, One
    <3>2. queued = 0 /\ reports = 1
      BY <1>1, <1>6, <2>4, UnderrunIsEmpty DEF HandleEnd
    <3>3. queued' = 0
      BY <1>6, <2>4, <3>2 DEF HandleEnd
    <3> QED
      BY <2>1, <2>2, <3>1, <3>2, <3>3
  <2> QED
    BY <2>3, <2>4
<1>7. CASE Play
  <2>1. queued' + reports' = queued + reports
    BY <1>3, <1>7 DEF Play
  <2> QED
    BY <1>2, <1>7, <2>1 DEF Play
<1>8. ASSUME queued' = queued, reports' = reports, prefilled' = prefilled, buffered' = buffered,
             dpc' = "mark" <=> dpc = "mark"
      PROVE  queued' + reports' = One(prefilled') + One(buffered') + One(dpc' = "mark")
  BY <1>2, <1>8 DEF One
<1>9. CASE Tick \/ Look \/ Wait \/ Woken \/ Fill \/ FillAsserts \/ Release
  BY <1>8, <1>9 DEF Tick, Look, Wait, Woken, Fill, FillAsserts, Release
<1>10. CASE EndReached \/ NotifyDecoder \/ TerminateNotify \/ Terminate \/ Join \/ Timer
  BY <1>8, <1>10 DEF EndReached, NotifyDecoder, NotifyD, TerminateNotify, Terminate, Join, Timer
<1>11. CASE RunDry \/ UNCHANGED audioVars
  BY <1>8, <1>11 DEF RunDry, audioVars
<1> QED
  BY <1>4, <1>5, <1>6, <1>7, <1>9, <1>10, <1>11 DEF AudioNext, Decoder, Handler

\* The invariant is inductive.
LEMMA AudioStepInv == AudioInv /\ [AudioNext]_audioVars => AudioInv'
BY CountsKept, PlacesKept, ControlKept, AccountKept, Zenon DEF AudioInv, Control

\* The invariant holds throughout.
LEMMA AudioInvariant == AudioSpec => [](FlagTypes /\ AudioInv)
BY AudioInitInv, FlagsStayBoolean, AudioStepInv, PTL DEF AudioSpec

-----------------------------------------------------------------------------

\* In every reachable state the variables have their types, and writeBuffer is not
\* written past its end.
THEOREM AudioTypeCorrect == AudioSpec => []AudioTypeOK
<1>1. FlagTypes /\ AudioInv => AudioTypeOK
  BY Zenon DEF AudioInv, CountTypes, PlaceTypes, AudioTypeOK
<1> QED
  BY <1>1, AudioInvariant, PTL

\* While no write has failed, prefilled and buffered say how many buffers the device
\* has not given back, and so it never holds more than two.
THEOREM AudioBuffersAccounted == AudioSpec => []BuffersAccounted
<1>1. AudioInv => BuffersAccounted
  BY DEF AudioInv
<1> QED
  BY <1>1, AudioInvariant, PTL

\* The handler stops the device only when the device has nothing left to play.
THEOREM AudioStopLosesNothing == AudioSpec => StopLosesNothing
<1> DEFINE Stops == mpc = "acquire" /\ mpc' = "notify" /\ device' # device /\ faults = 0
<1>1. ASSUME AudioInv, AudioNext, Stops
      PROVE  queued = 0
  <2>1. HandleEnd
    BY <1>1 DEF AudioNext, Decoder, Handler, Tick, Look, Wait, Woken, Fill, FillAsserts, Flush, Mark, Release,
                EndReached, NotifyDecoder, TerminateNotify, Join, Timer, Terminate, Play, RunDry
  <2> QED
    BY <1>1, <2>1, UnderrunIsEmpty DEF HandleEnd
<1>2. AudioInv /\ [AudioNext]_audioVars => [Stops => queued = 0]_audioVars
  BY <1>1
<1> QED
  BY <1>2, AudioInvariant, PTL DEF AudioSpec, StopLosesNothing
=============================================================================
