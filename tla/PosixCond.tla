----------------------------- MODULE PosixCond -----------------------------
(***************************************************************************)
(* What the callers in libdespotify expect of one mutex and one condition  *)
(* variable: pthread_cond_wait gives up the mutex and starts waiting in    *)
(* one indivisible step; a signal wakes one thread if any is waiting and   *)
(* must not pass it by, a broadcast wakes them all; and a woken thread     *)
(* returns holding the mutex.                                              *)
(***************************************************************************)
CONSTANTS
  Thread,   \* the threads
  NoThread  \* none of them: nobody holds the mutex

VARIABLES
  owner,  \* the thread that holds the mutex, or NoThread
  mode    \* mode[t]: "running", "signalling", "waiting" on the condition, or "woken"

Init ==
  /\ owner = NoThread
  /\ mode = [t \in Thread |-> "running"]

Lock(t) ==
  /\ mode[t] = "running"
  /\ owner = NoThread
  /\ owner' = t
  /\ UNCHANGED mode

Unlock(t) ==
  /\ mode[t] = "running"
  /\ owner = t
  /\ owner' = NoThread
  /\ UNCHANGED mode

Wait(t) ==
  /\ mode[t] = "running"
  /\ owner = t
  /\ owner' = NoThread
  /\ mode' = [mode EXCEPT ![t] = "waiting"]

CallSignal(t) ==
  /\ mode[t] = "running"
  /\ mode' = [mode EXCEPT ![t] = "signalling"]
  /\ UNCHANGED owner

Signal(t) ==
  /\ mode[t] = "signalling"
  /\ \/ /\ \A w \in Thread : mode[w] # "waiting"
        /\ mode' = [mode EXCEPT ![t] = "running"]
     \/ \E w \in Thread : /\ mode[w] = "waiting"
                         /\ mode' = [mode EXCEPT ![t] = "running", ![w] = "woken"]
  /\ UNCHANGED owner

Broadcast(t) ==
  /\ mode[t] = "signalling"
  /\ mode' = [w \in Thread |-> IF w = t THEN "running"
                              ELSE IF mode[w] = "waiting" THEN "woken" ELSE mode[w]]
  /\ UNCHANGED owner

Return(t) ==
  /\ mode[t] = "woken"
  /\ owner = NoThread
  /\ owner' = t
  /\ mode' = [mode EXCEPT ![t] = "running"]

Next ==
  \E t \in Thread :
    \/ Lock(t) \/ Unlock(t) \/ Wait(t) \/ Return(t)
    \/ CallSignal(t) \/ Signal(t) \/ Broadcast(t)

Spec == Init /\ [][Next]_<<owner, mode>>
=============================================================================
