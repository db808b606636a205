------------------------------ MODULE AudioOut ------------------------------
(***************************************************************************)
(* The audio output of the Bada application (spotify.cpp): the decoder     *)
(* thread D fills writeBuffer and hands it to the device, and stops when   *)
(* the device holds two buffers; the main thread M runs the device's       *)
(* OnAudioOutBufferEndReached, the timer, and OnAppTerminating.            *)
(*                                                                         *)
(* aobMutex guards the flags but for what the timer and the end of a wait  *)
(* read; aobMonitor is entered by the waiter only, so a Notify wakes D if  *)
(* D is in Wait and is lost otherwise.  The device is external: it plays   *)
(* the buffers written to it in order and reports the end of each.         *)
(***************************************************************************)
EXTENDS Naturals

CONSTANTS
  Capacity,    \* reads that fill writeBuffer
  MayEnd,      \* whether the sound queue may run out of PCM for good
  Terminates,  \* whether the application may be terminated
  MaxFaults    \* bound: WriteBuffer calls that fail

ASSUME AudioAssumption ==
  /\ Capacity \in Nat \ {0}
  /\ MayEnd \in BOOLEAN
  /\ Terminates \in BOOLEAN
  /\ MaxFaults \in Nat

VARIABLES
  running,    \* decoder->running
  buffered,   \* D has nothing to do until the device has played a buffer
  prefilled,  \* the device was given its first buffer
  fill,       \* reads in writeBuffer
  mutex,      \* aobMutex: "D" while D holds it, else "free"
  device,     \* ao.GetState(): "stopped" or "playing"
  queued,     \* buffers in the device
  reports,    \* buffers played whose end M has not handled
  dpc, mpc,   \* what D and M do next
  dry,        \* despotify_get_pcm has no more to give
  missed,     \* a Notify came after D had read what it depends on and before its Wait
  faults      \* WriteBuffer calls that failed

flags == <<buffered, prefilled>>
dev == <<device, queued, reports>>
env == <<dry, missed, faults>>
audioVars == <<running, flags, fill, mutex, dev, dpc, mpc, env>>

AudioInit ==
  /\ running = TRUE
  /\ buffered = FALSE /\ prefilled = FALSE
  /\ fill = 0
  /\ mutex = "free"
  /\ device = "stopped" /\ queued = 0 /\ reports = 0
  /\ dpc = "idle" /\ mpc = "idle"
  /\ dry = FALSE /\ missed = FALSE /\ faults = 0

\* No AppAssert of D has ended the application.
Alive == dpc # "asserted"

-----------------------------------------------------------------------------
(* The decoder thread: tick, over and over. *)

\* The loop of DecoderThread::Run.
Tick ==
  /\ dpc = "idle"
  /\ dpc' = IF running THEN "acquire" ELSE "stopped"
  /\ UNCHANGED <<running, flags, fill, mutex, dev, mpc, env>>

\* Take the mutex; with everything buffered give it back and go to wait.
Look ==
  /\ dpc = "acquire"
  /\ mutex = "free"
  /\ IF buffered THEN dpc' = "enter" /\ UNCHANGED mutex
                 ELSE dpc' = "fill" /\ mutex' = "D"
  /\ UNCHANGED <<running, flags, fill, dev, mpc, env>>

Wait ==
  /\ dpc = "enter"
  /\ dpc' = "waiting"
  /\ UNCHANGED <<running, flags, fill, mutex, dev, mpc, env>>

\* Awake: return if there is still nothing to do, otherwise take the mutex.
Woken ==
  /\ dpc = "woken"
  /\ IF buffered THEN dpc' = "idle" /\ UNCHANGED mutex
                 ELSE mutex = "free" /\ dpc' = "fill" /\ mutex' = "D"
  /\ UNCHANGED <<running, flags, fill, dev, mpc, env>>

\* despotify_get_pcm until it has something; the mutex is held meanwhile.
Fill ==
  /\ dpc = "fill"
  /\ fill < Capacity
  /\ ~dry
  /\ fill' = fill + 1
  /\ dpc' = "release"
  /\ UNCHANGED <<running, flags, mutex, dev, mpc, env>>

\* A negative return, or PCM of another format: AppAssert.
FillAsserts ==
  /\ dpc = "fill"
  /\ fill < Capacity
  /\ ~dry
  /\ dpc' = "asserted"
  /\ UNCHANGED <<running, flags, fill, mutex, dev, mpc, env>>

\* flushBuffer: hand writeBuffer to the device.  When that fails the device is
\* stopped, and what it still held is played later or dropped.
Flush ==
  /\ dpc = "fill"
  /\ fill = Capacity
  /\ fill' = 0
  /\ dpc' = "mark"
  /\ \/ /\ queued' = queued + 1
        /\ UNCHANGED <<device, faults>>
     \/ /\ faults < MaxFaults
        /\ faults' = faults + 1
        /\ device' = "stopped"
        /\ queued' \in {0, queued}
  /\ UNCHANGED <<running, flags, mutex, reports, mpc, dry, missed>>

\* Slip: the second buffer is not counted.
MarkFirstOnly ==
  /\ dpc = "mark"
  /\ prefilled' = TRUE
  /\ dpc' = "release"
  /\ UNCHANGED <<running, buffered, fill, mutex, dev, mpc, env>>

\* Slip: tick returns with the mutex once everything is buffered.
MarkAndReturn ==
  /\ dpc = "mark"
  /\ IF prefilled THEN buffered' = TRUE /\ dpc' = "idle" /\ UNCHANGED prefilled
                  ELSE prefilled' = TRUE /\ dpc' = "release" /\ UNCHANGED buffered
  /\ UNCHANGED <<running, fill, mutex, dev, mpc, env>>

\* The first buffer prefills; the next one makes D wait.
Mark ==
  /\ dpc = "mark"
  /\ IF prefilled THEN buffered' = TRUE /\ UNCHANGED prefilled
                  ELSE prefilled' = TRUE /\ UNCHANGED buffered
  /\ dpc' = "release"
  /\ UNCHANGED <<running, fill, mutex, dev, mpc, env>>

Release ==
  /\ dpc = "release"
  /\ mutex' = "free"
  /\ dpc' = "idle"
  /\ UNCHANGED <<running, flags, fill, dev, mpc, env>>

-----------------------------------------------------------------------------
(* The main thread. *)

\* aobMonitor.Notify.
NotifyD ==
  /\ dpc' = IF dpc = "waiting" THEN "woken" ELSE dpc
  /\ missed' = (missed \/ dpc = "enter" \/ (~running /\ dpc = "acquire" /\ buffered))

\* OnAudioOutBufferEndReached: it waits for the mutex first.
EndReached ==
  /\ Alive /\ mpc = "idle"
  /\ reports > 0
  /\ mpc' = "acquire"
  /\ UNCHANGED <<running, flags, fill, mutex, dev, dpc, env>>

\* Slip: the device is stopped although the next buffer is playing.
HandleEndAndStop ==
  /\ mpc = "acquire"
  /\ mutex = "free"
  /\ reports' = reports - 1
  /\ buffered' = FALSE
  /\ prefilled' = (buffered /\ prefilled)
  /\ device' = "stopped"
  /\ mpc' = "notify"
  /\ UNCHANGED <<running, fill, mutex, queued, dpc, env>>

\* Its critical section: let D go on, or stop the device when D is late.
HandleEnd ==
  /\ mpc = "acquire"
  /\ mutex = "free"
  /\ reports' = reports - 1
  /\ IF buffered
     THEN buffered' = FALSE /\ UNCHANGED <<prefilled, device, queued>>
     ELSE /\ prefilled' = FALSE
          /\ device' = "stopped"
          /\ queued' \in IF device = "playing" THEN {0, queued} ELSE {queued}
          /\ UNCHANGED buffered
  /\ mpc' = "notify"
  /\ UNCHANGED <<running, fill, mutex, dpc, env>>

\* Slip: D is not notified.
NotifyNobody ==
  /\ Alive /\ mpc = "notify"
  /\ mpc' = "idle"
  /\ UNCHANGED <<running, flags, fill, mutex, dev, dpc, env>>

NotifyDecoder ==
  /\ Alive /\ mpc = "notify"
  /\ NotifyD
  /\ mpc' = "idle"
  /\ UNCHANGED <<running, flags, fill, mutex, dev, dry, faults>>

\* OnTimerExpired, with no lock: start the device once it has two buffers.
Timer ==
  /\ Alive /\ mpc = "idle"
  /\ prefilled /\ buffered /\ device = "stopped"
  /\ device' = "playing"
  /\ UNCHANGED <<running, flags, fill, mutex, queued, reports, dpc, mpc, env>>

\* Slip: the decoder is not told to stop.
TerminateUntold ==
  /\ Alive /\ mpc = "idle"
  /\ Terminates
  /\ NotifyD
  /\ mpc' = "join"
  /\ UNCHANGED <<running, flags, fill, mutex, dev, dry, faults>>

\* OnAppTerminating: running := false, Notify, and join the decoder thread.
Terminate ==
  /\ Alive /\ mpc = "idle"
  /\ Terminates
  /\ running' = FALSE
  /\ mpc' = "term notify"
  /\ UNCHANGED <<flags, fill, mutex, dev, dpc, env>>

TerminateNotify ==
  /\ Alive /\ mpc = "term notify"
  /\ NotifyD
  /\ mpc' = "join"
  /\ UNCHANGED <<running, flags, fill, mutex, dev, dry, faults>>

Join ==
  /\ mpc = "join"
  /\ dpc = "stopped"
  /\ device' = "stopped"
  /\ mpc' = "gone"
  /\ UNCHANGED <<running, flags, fill, mutex, queued, reports, dpc, env>>

-----------------------------------------------------------------------------
(* The environment. *)

\* The device has played a buffer.
Play ==
  /\ Alive /\ device = "playing"
  /\ queued > 0
  /\ queued' = queued - 1
  /\ reports' = reports + 1
  /\ UNCHANGED <<running, flags, fill, mutex, device, dpc, mpc, env>>

\* The playlist is at its end: from now on despotify_get_pcm returns no data.
RunDry ==
  /\ Alive /\ MayEnd
  /\ ~dry
  /\ dry' = TRUE
  /\ UNCHANGED <<running, flags, fill, mutex, dev, dpc, mpc, missed, faults>>

-----------------------------------------------------------------------------

Decoder == Tick \/ Look \/ Wait \/ Woken \/ Fill \/ FillAsserts \/ Flush \/ Mark \/ Release

Handler == EndReached \/ HandleEnd \/ NotifyDecoder \/ TerminateNotify \/ Join

AudioNext == Decoder \/ Handler \/ Timer \/ Terminate \/ Play \/ RunDry

\* Both threads are scheduled and the device plays.  A thread that keeps asking for
\* the mutex gets it.  The timer restarts itself; the application need not end.
AudioFairness == SF_audioVars(Decoder) /\ SF_audioVars(Handler) /\ WF_audioVars(Timer) /\ WF_audioVars(Play)

AudioSpec == AudioInit /\ [][AudioNext]_audioVars
AudioFairSpec == AudioSpec /\ AudioFairness

-----------------------------------------------------------------------------
(* Properties. *)

FlagTypes ==
  /\ running \in BOOLEAN /\ buffered \in BOOLEAN /\ prefilled \in BOOLEAN
  /\ dry \in BOOLEAN /\ missed \in BOOLEAN

\* Types of the variables; writeBuffer is never overrun.
AudioTypeOK ==
  /\ FlagTypes
  /\ fill \in 0..Capacity
  /\ mutex \in {"free", "D"}
  /\ device \in {"stopped", "playing"}
  /\ queued \in Nat /\ reports \in Nat
  /\ dpc \in {"idle", "acquire", "enter", "waiting", "woken", "fill", "mark", "release", "stopped",
              "asserted"}
  /\ mpc \in {"idle", "acquire", "notify", "term notify", "join", "gone"}
  /\ faults \in 0..MaxFaults

One(b) == IF b THEN 1 ELSE 0

\* The two flags count what the device has not given back: the buffers in it and the
\* ends not handled yet are one if prefilled plus one if buffered, plus the one D has
\* written and not marked.  The device never holds more than two buffers (tick,
\* OnAudioOutBufferEndReached), as long as no write failed.
BuffersAccounted ==
  faults = 0 => queued + reports = One(prefilled) + One(buffered) + One(dpc = "mark")

\* The handler stops the device only when it has nothing left to play: no audio is
\* thrown away by an underrun.
StopLosesNothing ==
  [][mpc = "acquire" /\ mpc' = "notify" /\ device' # device /\ faults = 0 => queued = 0]_audioVars

\* D comes back from its wait for the device, however often the device ran empty,
\* unless a notification came in the gap before the wait, or a write failed.
DecoderReturns == dpc = "waiting" ~> (dpc # "waiting" \/ missed \/ faults > 0 \/ ~running)

\* The main thread gets out of its handler and back to the user's events, as long as
\* there is audio to decode and no AppAssert fails: D holds the mutex while it decodes.
HandlerReturns == mpc \in {"acquire", "notify"} ~> (mpc = "idle" \/ dry \/ ~Alive)

\* OnAppTerminating joins the decoder thread, wherever it was told to stop, unless it
\* sleeps through a notification, has nothing to decode, or ends the application itself.
TerminationEnds == mpc = "join" ~> (mpc = "gone" \/ missed \/ dry \/ ~Alive)
=============================================================================
