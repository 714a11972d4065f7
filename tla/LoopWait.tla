------------------------------ MODULE LoopWait ------------------------------
(***************************************************************************)
(* How the event loop waits (arch/lwip/eventloop_lwip.c): the time until   *)
(* which UA_EventLoopLWIP_run sleeps in select, the self-pipe with which   *)
(* another context ends that sleep, and the pass over the sockets that     *)
(* follows.  EventLoop models the connections and their managers; here     *)
(* there is one manager, of which only the sockets matter.                 *)
(*                                                                         *)
(* Creating the self-pipe succeeds, and sockets on loopback do not fail.   *)
(***************************************************************************)
EXTENDS PollFds

CONSTANTS
  MaxTime,   \* the clock stops there
  Timeout,   \* of run, which is also called with 0
  Remote     \* the delayed callback of another context

ASSUME WaitAssumption ==
  /\ MaxTime \in Nat /\ Timeout \in Nat
  /\ Remote \notin Fds

VARIABLES
  elState,     \* state of the event loop
  executing,   \* el->executing
  phase,       \* where UA_EventLoopLWIP_run is
  inCallback,  \* whether the application is called from the phase
  queue,       \* delayed callbacks on the list
  batch,       \* delayed callbacks that processDelayed has yet to execute
  pipes,       \* number of self-pipes that are open
  bytes,       \* whether there is something to read from the self-pipe
  signalled,   \* whether select has reported the self-pipe
  now,         \* the monotonic clock
  timers,      \* the times of the timers
  fresh,       \* those added after dateNext was computed
  before,      \* dateBefore
  patience,    \* the timeout that run was called with
  next,        \* dateNext
  wakeAt,      \* until when select sleeps
  other        \* where the other context is

pipeVars == <<pipes, bytes, signalled>>
timeVars == <<timers, fresh, before, patience, next, wakeAt>>
waitVars == <<elState, executing, phase, inCallback, queue, batch, pipeVars,
              now, timeVars, other>>
vars == <<waitVars, pollVars>>

Times == 0..MaxTime
Never == MaxTime + 1 + Timeout

\* What UA_Timer_process returns: the time of the first timer, and UA_INT64_MAX
\* if there is none.
NextTimes == {t \in timers \cup {Never} : \A o \in timers : t <= o}

-----------------------------------------------------------------------------
(* The application, between two iterations or in a callback of the loop.   *)

InPass == phase = "poll" /\ called # None

ApplicationRuns == phase = "idle" \/ inCallback \/ InPass

\* UA_Timer_add, with the timer's first time
AddTimer(t) ==
  /\ ApplicationRuns
  /\ t >= now /\ t \notin timers
  /\ timers' = timers \cup {t}
  /\ fresh' = IF phase = "delayed" THEN fresh \cup {t} ELSE fresh
  /\ UNCHANGED <<elState, executing, phase, inCallback, queue, batch, pipeVars,
                 now, before, patience, next, wakeAt, other, pollVars>>

\* A manager registers the socket of a new connection.
OpenSocket(f) ==
  /\ ApplicationRuns
  /\ elState = "STARTED"
  /\ RegisterFD(f)
  /\ UNCHANGED <<waitVars, closing, ready, index, called, passing>>

\* TCP_shutdown, UDP_shutdown
CloseSocket(f) ==
  /\ ApplicationRuns
  /\ f \in RegisteredFds \ closing
  /\ closing' = closing \cup {f}
  /\ queue' = queue \cup {f}
  /\ UNCHANGED <<elState, executing, phase, inCallback, batch, pipeVars, now,
                 timeVars, other, fds, ready, index, called, passing>>

\* UA_EventLoopLWIP_start.  netifInit and the manager's start succeed.
Start ==
  /\ ApplicationRuns
  /\ elState = "STOPPED"
  /\ elState' = "STARTED"
  /\ pipes' = pipes + 1
  /\ bytes' = FALSE
  /\ UNCHANGED <<executing, phase, inCallback, queue, batch, signalled, now,
                 timeVars, other, pollVars>>

\* checkClosed: the manager has stopped, and no delayed callback is queued.
Closed(sockets, delayed) == sockets = {} /\ delayed = {}

CheckClosed(sockets, delayed) ==
  IF Closed(sockets, delayed)
  THEN elState' = "STOPPED" /\ pipes' = pipes - 1 /\ bytes' = FALSE
  ELSE elState' = "STOPPING" /\ UNCHANGED <<pipes, bytes>>

\* UA_EventLoopLWIP_stop, which shuts down all sockets.
Stop ==
  /\ ApplicationRuns
  /\ elState = "STARTED"
  /\ closing' = RegisteredFds
  /\ queue' = queue \cup (RegisteredFds \ closing)
  /\ CheckClosed(RegisteredFds, queue')
  /\ UNCHANGED <<executing, phase, inCallback, batch, signalled, now, timeVars,
                 other, fds, ready, index, called, passing>>

-----------------------------------------------------------------------------
(* UA_EventLoopLWIP_run.                                                   *)

\* The time is read and the due timers are executed.
BeginRun(timeout) ==
  /\ phase = "idle"
  /\ elState # "STOPPED"
  /\ phase' = "timers"
  /\ executing' = TRUE
  /\ before' = now
  /\ patience' = timeout
  /\ timers' = {t \in timers : t > now}
  /\ inCallback' = (timers' # timers)
  /\ fresh' = {}
  /\ UNCHANGED <<elState, queue, batch, pipeVars, now, next, wakeAt, other,
                 pollVars>>

\* processDelayed checks out the queue, after UA_Timer_process has returned
\* the time of the next timer.
ProcessDelayed ==
  /\ phase = "timers"
  /\ phase' = "delayed"
  /\ inCallback' = FALSE
  /\ next' \in NextTimes
  /\ batch' = queue
  /\ queue' = {}
  /\ UNCHANGED <<elState, executing, pipeVars, now, timers, fresh, before,
                 patience, wakeAt, other, pollVars>>

\* A delayed callback; that of a socket removes it.
ExecuteDelayed(c) ==
  /\ phase = "delayed" /\ ~inCallback
  /\ c \in batch
  /\ batch' = batch \ {c}
  /\ inCallback' = TRUE
  /\ closing' = closing \ {c}
  /\ fds' = IF c \in Fds THEN Without(c) ELSE fds
  /\ UNCHANGED <<elState, executing, phase, queue, pipeVars, now, timeVars,
                 other, ready, index, called, passing>>

DelayedReturns ==
  /\ phase = "delayed" /\ inCallback
  /\ inCallback' = FALSE
  /\ UNCHANGED <<elState, executing, phase, queue, batch, pipeVars, now,
                 timeVars, other, pollVars>>

\* Mutant: a callback that was added meanwhile is left to the next event.
PatientWait == before + patience

\* "we don't want to wait (indefinitely)"
LongestWait == IF queue # {} THEN before ELSE before + patience

\* Mutant: the timeout alone is what select waits for.
TimeoutOnly == IF LongestWait < now THEN now ELSE LongestWait

\* listenTimeout, added to the clock
WakeTime ==
  LET date == IF next > LongestWait THEN LongestWait ELSE next
  IN IF date < now THEN now ELSE date

Wait ==
  /\ phase = "delayed" /\ ~inCallback /\ batch = {}
  /\ phase' = "wait"
  /\ wakeAt' = WakeTime
  /\ UNCHANGED <<elState, executing, inCallback, queue, batch, pipeVars, now,
                 timers, fresh, before, patience, next, other, pollVars>>

\* select returns the sockets R, the self-pipe, or that the time is over.
SelectReturns(R) ==
  /\ phase = "wait" /\ pipes > 0
  /\ R \subseteq RegisteredFds
  /\ R # {} \/ bytes \/ now >= wakeAt
  /\ phase' = "poll"
  /\ signalled' = bytes
  /\ StartPass(R)
  /\ UNCHANGED <<elState, executing, inCallback, queue, batch, pipes, bytes,
                 now, timeVars, other>>

-----------------------------------------------------------------------------
\* The local variables are gone when run returns.
\*
\* Mutant: checkClosed whatever the state of the loop.
WhateverState(state) == TRUE

Stopping(state) == state = "STOPPING"

EndOfRun ==
  /\ phase' = "idle"
  /\ executing' = FALSE
  /\ IF Stopping(elState) THEN CheckClosed(RegisteredFds, queue)
     ELSE UNCHANGED <<elState, pipes, bytes>>
  /\ before' = 0 /\ patience' = 0 /\ next' = 0 /\ wakeAt' = 0 /\ fresh' = {}
  /\ UNCHANGED <<inCallback, queue, batch, now, timers, other>>

\* select fails on a self-pipe that was closed in this iteration: "We will
\* retry, only log the error".
SelectFails ==
  /\ phase = "wait" /\ pipes = 0
  /\ EndOfRun
  /\ UNCHANGED <<signalled, pollVars>>

\* flushSelfPipe
Flush ==
  /\ phase = "poll" /\ signalled
  /\ signalled' = FALSE
  /\ bytes' = FALSE
  /\ UNCHANGED <<elState, executing, phase, inCallback, queue, batch, pipes, now,
                 timeVars, other, pollVars>>

\* The loop over the sockets
Poll ==
  /\ phase = "poll" /\ ~signalled
  /\ PassOver \/ CallBack \/ CallBackThatRemoves \/ CallBackReturns
  /\ UNCHANGED waitVars

EndRun ==
  /\ phase = "poll" /\ ~signalled
  /\ EndPass
  /\ EndOfRun
  /\ UNCHANGED signalled

-----------------------------------------------------------------------------
(* Another context: an addition to the delayed callbacks, then a cancel.   *)

RemoteAdds ==
  /\ other = "idle"
  /\ Remote \notin queue \cup batch
  /\ queue' = queue \cup {Remote}
  /\ other' = "added"
  /\ UNCHANGED <<elState, executing, phase, inCallback, batch, pipeVars, now,
                 timeVars, pollVars>>

\* UA_EventLoopLWIP_cancel: "Nothing to do if the EventLoop is not executing".
Cancel ==
  /\ other = "added"
  /\ other' = IF executing THEN "write" ELSE "idle"
  /\ UNCHANGED <<elState, executing, phase, inCallback, queue, batch, pipeVars,
                 now, timeVars, pollVars>>

TriggerSelfPipe ==
  /\ other = "write"
  /\ other' = "idle"
  /\ bytes' = (bytes \/ pipes > 0)
  /\ UNCHANGED <<elState, executing, phase, inCallback, queue, batch, pipes,
                 signalled, now, timeVars, pollVars>>

Tick ==
  /\ now < MaxTime
  /\ now' = now + 1
  /\ UNCHANGED <<elState, executing, phase, inCallback, queue, batch, pipeVars,
                 timeVars, other, pollVars>>

-----------------------------------------------------------------------------
\* UA_EventLoop_new_LWIP
Init ==
  /\ InitPoll
  /\ elState = "STOPPED" /\ executing = FALSE /\ phase = "idle"
  /\ inCallback = FALSE
  /\ queue = {} /\ batch = {}
  /\ pipes = 0 /\ bytes = FALSE /\ signalled = FALSE
  /\ now = 0 /\ timers = {} /\ fresh = {}
  /\ before = 0 /\ patience = 0 /\ next = 0 /\ wakeAt = 0
  /\ other = "idle"

Application ==
  \/ \E t \in Times : AddTimer(t)
  \/ \E f \in Fds : OpenSocket(f) \/ CloseSocket(f)
  \/ Start \/ Stop

Run ==
  \/ \E timeout \in {0, Timeout} : BeginRun(timeout)
  \/ ProcessDelayed \/ DelayedReturns \/ Wait \/ SelectFails
  \/ \E c \in Fds \cup {Remote} : ExecuteDelayed(c)
  \/ \E R \in SUBSET Fds : SelectReturns(R)
  \/ Flush \/ Poll \/ EndRun

OtherContext == RemoteAdds \/ Cancel \/ TriggerSelfPipe

Next == Application \/ Run \/ OtherContext \/ Tick

Spec == Init /\ [][Next]_vars

-----------------------------------------------------------------------------
(* Properties.                                                             *)

FlagTypeOK ==
  /\ executing \in BOOLEAN /\ inCallback \in BOOLEAN
  /\ bytes \in BOOLEAN /\ signalled \in BOOLEAN /\ passing \in BOOLEAN

ValueTypeOK ==
  /\ elState \in {"STOPPED", "STARTED", "STOPPING"}
  /\ phase \in {"idle", "timers", "delayed", "wait", "poll"}
  /\ queue \subseteq Fds \cup {Remote} /\ batch \subseteq Fds \cup {Remote}
  /\ pipes \in Nat /\ now \in Nat /\ before \in Nat /\ patience \in Nat
  /\ next \in Nat /\ wakeAt \in Nat
  /\ timers \subseteq Times /\ fresh \subseteq timers
  /\ other \in {"idle", "added", "write"}

\* The types of the state.
TypeOK == PollTypeOK /\ FlagTypeOK /\ ValueTypeOK

\* The loop is in select, and neither the self-pipe nor the clock ends it.
Sleeping == phase = "wait" /\ pipes > 0 /\ ~bytes /\ now < wakeAt

\* "In that case we don't want to wait (indefinitely)": the loop does not sleep
\* on a delayed callback, unless who has added it is still about to cancel the
\* sleep.  The flag executing, the list and the pipe are read and written by two
\* contexts without a lock.
NoLostWakeup == Sleeping /\ queue # {} => other # "idle"

\* The loop does not sleep beyond a timer that UA_Timer_process has returned the
\* time of, nor beyond the timeout, whatever callbacks have added.
SleepIsBounded ==
  Sleeping => /\ \A t \in timers \ fresh : wakeAt <= t
              /\ wakeAt <= before + patience

\* The self-pipe is created once by each start and closed once by each stop,
\* whether the stop is completed by UA_EventLoopLWIP_stop or by an iteration.
OneSelfPipe == pipes = IF elState = "STOPPED" THEN 0 ELSE 1
=============================================================================
