------------------------------ MODULE BadaCond ------------------------------
(***************************************************************************)
(* libposix/pthread.cpp: a pthread mutex and condition variable built from *)
(* an Osp Mutex and an Osp Monitor.  Every call on the two Osp objects is  *)
(* a step of its own, so that threads interleave inside the pthread        *)
(* functions.  Osp is external: Acquire and Enter block while another      *)
(* thread is inside, Wait leaves the monitor and blocks until notified,    *)
(* and then enters it again before it returns.                             *)
(*                                                                         *)
(* Threads use the functions as libdespotify does: unlock and wait only by *)
(* the holder of the mutex, no second lock by the holder, signal with the  *)
(* mutex (handlers.c, despotify.c) or without it (sndqueue.c).             *)
(* pthread_cond_timedwait runs the calls of pthread_cond_wait and ignores  *)
(* its deadline, so it is the same operation.                              *)
(***************************************************************************)
CONSTANTS Thread, NoThread

ASSUME NoThreadAssumption == NoThread \notin Thread

VARIABLES
  pc,        \* pc[t]: the call t is about to make
  holder,    \* the thread inside the Osp Mutex
  acquired,  \* pthread_mutex_t.acquired
  monitor,   \* the thread inside the Osp Monitor
  waitset    \* the threads blocked in Monitor::Wait that nobody has notified

vars == <<pc, holder, acquired, monitor, waitset>>

\* Outside every pthread function: "out" without the mutex, "in" with it.
Idle == {"out", "in"}
PC == Idle \cup
      { "acquire", "acquired", "released",
        "wait enter", "wait release", "wait wait", "blocked", "wait exit", "wait acquire",
        "enter", "notify", "exit" }

Init ==
  /\ pc = [t \in Thread |-> "out"]
  /\ holder = NoThread
  /\ acquired = FALSE
  /\ monitor = NoThread
  /\ waitset = {}

Goto(t, label) == pc' = [pc EXCEPT ![t] = label]

-----------------------------------------------------------------------------
(* pthread_mutex_lock, pthread_mutex_trylock, pthread_mutex_unlock. *)

CallLock(t) ==
  /\ pc[t] = "out"
  /\ Goto(t, "acquire")
  /\ UNCHANGED <<holder, acquired, monitor, waitset>>

\* trylock gives up at once when the flag says the mutex is taken, and
\* otherwise goes on like lock: it can block.
CallTryLock(t) ==
  /\ pc[t] = "out"
  /\ ~acquired
  /\ Goto(t, "acquire")
  /\ UNCHANGED <<holder, acquired, monitor, waitset>>

\* Slip: the flag is trusted, the Osp mutex not asked.
AcquireByFlag(t) ==
  /\ pc[t] = "acquire"
  /\ ~acquired
  /\ holder' = t
  /\ Goto(t, "acquired")
  /\ UNCHANGED <<acquired, monitor, waitset>>

Acquire(t) ==
  /\ pc[t] = "acquire"
  /\ holder = NoThread
  /\ holder' = t
  /\ Goto(t, "acquired")
  /\ UNCHANGED <<acquired, monitor, waitset>>

SetAcquired(t) ==
  /\ pc[t] = "acquired"
  /\ acquired' = TRUE
  /\ Goto(t, "in")
  /\ UNCHANGED <<holder, monitor, waitset>>

Unlock(t) ==
  /\ pc[t] = "in"
  /\ holder' = NoThread
  /\ Goto(t, "released")
  /\ UNCHANGED <<acquired, monitor, waitset>>

\* By now another thread may have set the flag.
ClearAcquired(t) ==
  /\ pc[t] = "released"
  /\ acquired' = FALSE
  /\ Goto(t, "out")
  /\ UNCHANGED <<holder, monitor, waitset>>

-----------------------------------------------------------------------------
(* pthread_cond_wait and pthread_cond_timedwait. *)

CallWait(t) ==
  /\ pc[t] = "in"
  /\ Goto(t, "wait enter")
  /\ UNCHANGED <<holder, acquired, monitor, waitset>>

WaitEnter(t) ==
  /\ pc[t] = "wait enter"
  /\ monitor = NoThread
  /\ monitor' = t
  /\ Goto(t, "wait release")
  /\ UNCHANGED <<holder, acquired, waitset>>

WaitRelease(t) ==
  /\ pc[t] = "wait release"
  /\ holder' = NoThread
  /\ Goto(t, "wait wait")
  /\ UNCHANGED <<acquired, monitor, waitset>>

WaitWait(t) ==
  /\ pc[t] = "wait wait"
  /\ monitor' = NoThread
  /\ waitset' = waitset \cup {t}
  /\ Goto(t, "blocked")
  /\ UNCHANGED <<holder, acquired>>

\* Monitor::Wait returns: t was notified and is inside the monitor again.
WaitReturn(t) ==
  /\ pc[t] = "blocked"
  /\ t \notin waitset
  /\ monitor = NoThread
  /\ monitor' = t
  /\ Goto(t, "wait exit")
  /\ UNCHANGED <<holder, acquired, waitset>>

\* Slip: the monitor is not left after the Wait.
WaitExitForgotten(t) ==
  /\ pc[t] = "wait exit"
  /\ Goto(t, "wait acquire")
  /\ UNCHANGED <<holder, acquired, monitor, waitset>>

WaitExit(t) ==
  /\ pc[t] = "wait exit"
  /\ monitor' = NoThread
  /\ Goto(t, "wait acquire")
  /\ UNCHANGED <<holder, acquired, waitset>>

WaitAcquire(t) ==
  /\ pc[t] = "wait acquire"
  /\ holder = NoThread
  /\ holder' = t
  /\ Goto(t, "in")
  /\ UNCHANGED <<acquired, monitor, waitset>>

-----------------------------------------------------------------------------
(* pthread_cond_signal; and pthread_cond_broadcast bracketed, as pthread.h   *)
(* says it has to be used, by pthread_cond_enter and pthread_cond_exit.      *)

CallSignal(t) ==
  /\ pc[t] \in Idle
  /\ Goto(t, "enter")
  /\ UNCHANGED <<holder, acquired, monitor, waitset>>

\* Slip: notifying without the monitor.
EnterNothing(t) ==
  /\ pc[t] = "enter"
  /\ Goto(t, "notify")
  /\ UNCHANGED <<holder, acquired, monitor, waitset>>

Enter(t) ==
  /\ pc[t] = "enter"
  /\ monitor = NoThread
  /\ monitor' = t
  /\ Goto(t, "notify")
  /\ UNCHANGED <<holder, acquired, waitset>>

Notify(t) ==
  /\ pc[t] = "notify"
  /\ \/ waitset = {} /\ UNCHANGED waitset
     \/ \E w \in waitset : waitset' = waitset \ {w}
  /\ Goto(t, "exit")
  /\ UNCHANGED <<holder, acquired, monitor>>

NotifyAll(t) ==
  /\ pc[t] = "notify"
  /\ waitset' = {}
  /\ Goto(t, "exit")
  /\ UNCHANGED <<holder, acquired, monitor>>

Exit(t) ==
  /\ pc[t] = "exit"
  /\ monitor' = NoThread
  /\ Goto(t, IF holder = t THEN "in" ELSE "out")
  /\ UNCHANGED <<holder, acquired, waitset>>

-----------------------------------------------------------------------------

Step(t) ==
  \/ CallLock(t) \/ CallTryLock(t) \/ Acquire(t) \/ SetAcquired(t)
  \/ Unlock(t) \/ ClearAcquired(t)
  \/ CallWait(t) \/ WaitEnter(t) \/ WaitRelease(t) \/ WaitWait(t)
  \/ WaitReturn(t) \/ WaitExit(t) \/ WaitAcquire(t)
  \/ CallSignal(t) \/ Enter(t) \/ Notify(t) \/ NotifyAll(t) \/ Exit(t)

Next == \E t \in Thread : Step(t)

\* A thread inside a function goes on, and one that holds the mutex leaves it in
\* the end, whatever it signals before (every critical section of libdespotify is
\* finite).  The Osp objects do not starve a thread that keeps asking for them.
Proceed(t) ==
  \/ SetAcquired(t) \/ ClearAcquired(t) \/ WaitRelease(t) \/ WaitWait(t) \/ WaitExit(t)
  \/ Notify(t) \/ NotifyAll(t) \/ Exit(t)

Obtain(t) ==
  Acquire(t) \/ WaitEnter(t) \/ WaitReturn(t) \/ WaitAcquire(t) \/ Enter(t)

Fairness ==
  \A t \in Thread : WF_vars(Proceed(t)) /\ SF_vars(Obtain(t)) /\ SF_vars(Unlock(t))

Spec == Init /\ [][Next]_vars
FairSpec == Spec /\ Fairness

-----------------------------------------------------------------------------
(* Properties. *)

\* Types of the variables.
TypeOK ==
  /\ pc \in [Thread -> PC]
  /\ holder \in Thread \cup {NoThread}
  /\ acquired \in BOOLEAN
  /\ monitor \in Thread \cup {NoThread}
  /\ waitset \subseteq Thread

\* The thread a caller believes to hold the pthread mutex holds it: whoever is
\* between lock and unlock, or has called wait and not released yet, is the Osp
\* mutex's holder, and a thread that is waiting or outside is not
\* (pthread_mutex_lock, pthread_cond_wait).
MutexMatchesCaller ==
  \A t \in Thread :
    /\ pc[t] \in {"in", "acquired", "wait enter", "wait release"} => holder = t
    /\ pc[t] \in {"out", "acquire", "released", "wait wait", "blocked", "wait exit",
                  "wait acquire"} => holder # t

\* Nobody can notify between a waiter's release of the mutex and its Wait: the
\* monitor is held across the two (pthread_cond_wait), so a thread that signals
\* has the monitor to itself.
NoSignalInTheGap ==
  \A s, w \in Thread : pc[s] = "notify" => pc[w] # "wait wait"

\* A thread that has been notified returns from pthread_cond_wait with the mutex.
NotifiedReturns ==
  \A t \in Thread : (pc[t] = "blocked" /\ t \notin waitset) ~> (pc[t] = "in" /\ holder = t)

\* The calls of pthread.cpp, interleaved, behave as a POSIX mutex and condition
\* variable: the release and the start of waiting look indivisible, and a signal that
\* finds a thread waiting wakes one, a broadcast all of them.
Mode(t) ==
  IF pc[t] = "wait wait" \/ t \in waitset THEN "waiting"
  ELSE IF pc[t] \in {"blocked", "wait exit", "wait acquire"} THEN "woken"
  ELSE IF pc[t] \in {"enter", "notify"} THEN "signalling"
  ELSE "running"

Posix == INSTANCE PosixCond WITH owner <- holder, mode <- [t \in Thread |-> Mode(t)]
ImplementsPosix == Posix!Spec
=============================================================================
