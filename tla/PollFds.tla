------------------------------ MODULE PollFds ------------------------------
(***************************************************************************)
(* The array el->fds of the sockets that the event loop listens on, and    *)
(* the loop of UA_EventLoopLWIP_pollFDs over it by index, while callbacks  *)
(* append to the array and remove from it (arch/lwip/eventloop_lwip.c).    *)
(*                                                                         *)
(* A socket stands for its UA_RegisteredFD and for its number alike: both  *)
(* may be used again as soon as the socket is removed.                     *)
(***************************************************************************)
EXTENDS Naturals, Sequences, FiniteSets

CONSTANTS
  Fds,    \* sockets
  None

ASSUME PollAssumption == None \notin Fds

VARIABLES
  fds,      \* el->fds[0 .. fdsSize - 1]
  closing,  \* sockets whose close is delayed, rfd->dc.callback
  ready,    \* the bits that select has set
  index,    \* i, of a loop over 0 .. fdsSize - 1
  called,   \* the socket whose callback runs
  passing   \* whether the loop over the array runs

pollVars == <<fds, closing, ready, index, called, passing>>

RegisteredFds == {fds[k] : k \in DOMAIN fds}

\* rfd, el->fds[i]
At(i) == fds[i + 1]

Within(i) == i < Len(fds)

InitPoll ==
  /\ fds = <<>>
  /\ closing = {} /\ ready = {}
  /\ index = 0 /\ called = None /\ passing = FALSE

-----------------------------------------------------------------------------
\* UA_EventLoopLWIP_registerFD.  Out of memory changes nothing.
RegisterFD(f) ==
  /\ f \notin RegisteredFds
  /\ fds' = Append(fds, f)

\* UA_EventLoopLWIP_deregisterFD: the last socket moves to the place of f.
Without(f) ==
  LET k == CHOOSE j \in DOMAIN fds : fds[j] = f
      last == fds[Len(fds)]
  IN SubSeq([fds EXCEPT ![k] = last], 1, Len(fds) - 1)

-----------------------------------------------------------------------------
(* The loop of pollFDs.                                                    *)

\* select has returned with the bits R.
StartPass(R) ==
  /\ ~passing
  /\ passing' = TRUE
  /\ index' = 0
  /\ ready' = R
  /\ UNCHANGED <<fds, closing, called>>

Looked == passing /\ called = None /\ Within(index)

HasEvent(f) == f \notin closing /\ f \in ready

\* "The rfd is already registered for removal", or no bit is set for it.
PassOver ==
  /\ Looked /\ ~HasEvent(At(index))
  /\ index' = index + 1
  /\ UNCHANGED <<fds, closing, ready, called, passing>>

\* The callback of the event source, up to the callback of the application.
CallBack ==
  /\ Looked /\ HasEvent(At(index))
  /\ called' = At(index)
  /\ UNCHANGED <<fds, closing, ready, index, passing>>

\* The same if receiving fails on a UDP socket, which is removed at once.
CallBackThatRemoves ==
  /\ Looked /\ HasEvent(At(index))
  /\ called' = At(index)
  /\ fds' = Without(At(index))
  /\ UNCHANGED <<closing, ready, index, passing>>

\* Mutant: only the end of the array is noticed.
OnlyTheLastRemoved(i, f) == i = Len(fds)

\* "The fd has removed itself".  i-- and i++ of the for loop cancel out.
HasRemovedItself(i, f) == i = Len(fds) \/ f # At(i)

NextIndex(f) == IF HasRemovedItself(index, f) THEN index ELSE index + 1

CallBackReturns ==
  /\ called # None /\ passing
  /\ called' = None
  /\ index' = NextIndex(called)
  /\ UNCHANGED <<fds, closing, ready, passing>>

EndPass ==
  /\ passing /\ called = None /\ ~Within(index)
  /\ passing' = FALSE
  /\ index' = 0
  /\ ready' = {}
  /\ UNCHANGED <<fds, closing, called>>

-----------------------------------------------------------------------------
PollTypeOK ==
  /\ fds \in Seq(Fds)
  /\ closing \subseteq Fds /\ ready \subseteq Fds
  /\ index \in Nat
  /\ called \in Fds \cup {None}

\* The sockets that the loop has still to look at.
NextToLookAt == IF called = None THEN index ELSE NextIndex(called)

Remaining == IF passing THEN {fds[k] : k \in (NextToLookAt + 1)..Len(fds)} ELSE {}

\* The walk over the array by index looks at every socket once, although
\* callbacks append to the array and removal moves its last element: it
\* implements the pass over a set.
PassOverSet == INSTANCE PollSet WITH registered <- RegisteredFds, todo <- Remaining
PassSpec == PassOverSet!Spec
=============================================================================
