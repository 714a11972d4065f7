------------------------------ MODULE EventLoop ------------------------------
(***************************************************************************)
(* The event loop (arch/lwip/eventloop_lwip.c) with its TCP and UDP        *)
(* connection managers (eventloop_lwip_tcp.c, eventloop_lwip_udp.c).       *)
(*                                                                         *)
(* One task runs everything, and the lock is empty in this build.  What    *)
(* interleaves are reentrant calls: the loop calls the application from    *)
(* timers, delayed callbacks and the connection callback, and there the    *)
(* application may open, close, start, stop, register and deregister.      *)
(* stack holds the calls into the application that have not returned.      *)
(*                                                                         *)
(* Delayed callbacks are executed in any order (DelayedQueue shows that    *)
(* they are a queue).  Attempts that fail before they change anything      *)
(* (parameters, socket, bind, connect, allocation, validation only) are    *)
(* stuttering steps.  The application is assumed not to iterate or free    *)
(* the loop from inside a callback.                                        *)
(***************************************************************************)
EXTENDS Integers, FiniteSets, Sequences

CONSTANTS
  Fds,       \* file descriptors; a closed one is used again
  Sources,   \* event sources: connection managers
  Tcp,       \* those made by UA_ConnectionManager_new_LWIP_TCP; others are UDP
  Cells,     \* delayed callbacks of the application
  MaxAddrs,  \* bound: addresses a listen connection is opened for
  MaxDepth,  \* bound: nested calls into the application
  None

ASSUME EventLoopAssumption ==
  /\ Tcp \subseteq Sources
  /\ Fds \cap Cells = {} /\ None \notin Sources \cup Fds
  /\ MaxAddrs \in Nat \ {0} /\ MaxDepth \in Nat \ {0}

VARIABLES
  elState,   \* el->eventLoop.state
  esState,   \* source -> es->state
  phase,     \* where UA_EventLoopLWIP_run is; "idle" iff not el->executing
  queue,     \* delayed callbacks to execute in the next iteration
  batch,     \* delayed callbacks of this iteration, not executed yet
  socket,    \* open sockets
  owner,     \* fd -> the source whose fds tree (and el->fds) it is in, or None
  kind,      \* fd -> what the registered fd is and listens for
  closing,   \* registered fds with a dc.callback
  ready,     \* the bits that select has set
  asked,     \* the connections, still open, that select was asked about
  todo,      \* registered fds that the loop of pollFDs has yet to look at
  stack,     \* calls into the application: what is left to do after each
  told       \* history: the last state that the application was told of an fd

vars == <<elState, esState, phase, queue, batch, socket, owner, kind, closing,
          ready, asked, todo, stack, told>>
connVars == <<socket, owner, kind, closing, todo, asked, told>>
pollVars == <<ready, phase, batch>>

Kinds  == {"none", "listen", "connecting", "stream", "receive", "send"}

\* A call into the application: for which connection, what the caller has to do
\* afterwards, for which source, and for how many more addresses.
Frames == [what : {"plain", "listen", "close"}, fd : Fds \cup {None},
           es : Sources \cup {None}, left : 0..(MaxAddrs - 1)]

Plain(fd) == [what |-> "plain", fd |-> fd, es |-> None, left |-> 0]

CloseFrame(fd) == [what |-> "close", fd |-> fd, es |-> owner[fd], left |-> 0]
ListenFrame(fd, es, left) ==
  [what |-> "listen", fd |-> fd, es |-> es, left |-> left]

Registered == {fd \in Fds : owner[fd] # None}
Of(es)     == {fd \in Fds : owner[fd] = es}
Top        == stack[Len(stack)]
Pop        == SubSeq(stack, 1, Len(stack) - 1)
Push(f)    == Append(stack, f)

-----------------------------------------------------------------------------
(* Pieces shared by the actions.                                           *)

\* TCP_checkStopped, UDP_checkStopped: the state of a source after the check,
\* given its state before and its registered fds.
StateAfterCheck(state, fds) ==
  IF fds = {} /\ state = "STOPPING" THEN "STOPPED" ELSE state

\* Mutant: sources that still close connections are not waited for.
LoopAfterCheckEarly(state, sources, delayed) ==
  IF delayed = {} THEN "STOPPED" ELSE state

\* checkClosed: all sources stopped and no delayed callback in the queue.
LoopAfterCheck(state, sources, delayed) ==
  IF (\A es \in Sources : sources[es] \in {"FRESH", "STOPPED"}) /\ delayed = {}
  THEN "STOPPED" ELSE state

\* Mutant: a connection that is closing already is closed a second time.
ToShutDownAgain(fds) == fds

\* Mutant: the sockets that listen are forgotten.
ToShutDownStreams(fds) == {fd \in fds \ closing : kind[fd] # "listen"}

\* TCP_shutdown, UDP_shutdown: nothing is done if triggered already.
ToShutDown(fds) == fds \ closing

Shutdown(fds) ==
  /\ closing' = closing \cup ToShutDown(fds)
  /\ queue' = queue \cup ToShutDown(fds)

\* Make a connection out of a new socket, register it and tell the application
\* of it; rest is what the caller has to do when the callback returns.
Connect(fd, es, k, state, rest) ==
  /\ fd \notin socket
  /\ socket' = socket \cup {fd}
  /\ owner' = [owner EXCEPT ![fd] = es]
  /\ kind' = [kind EXCEPT ![fd] = k]
  /\ todo' = IF phase = "poll" THEN todo \cup {fd} ELSE todo
  /\ told' = [told EXCEPT ![fd] = state]
  /\ stack' = Append(rest[1], rest[2])
  /\ UNCHANGED <<closing, asked>>

\* TCP_delayedClose, UDP_close up to the callback with the state CLOSING.
BeginClose(fd) ==
  /\ owner' = [owner EXCEPT ![fd] = None]
  /\ kind' = [kind EXCEPT ![fd] = "none"]
  /\ closing' = closing \ {fd}
  /\ todo' = todo \ {fd}
  /\ asked' = asked \ {fd}
  /\ told' = [told EXCEPT ![fd] = "closing"]
  /\ stack' = Push(CloseFrame(fd))
  /\ UNCHANGED socket

-----------------------------------------------------------------------------
(* The application, outside of the loop or inside of a callback.           *)

ApplicationRuns == (phase = "idle" \/ stack # <<>>) /\ elState # "FREED"

\* Mutant: the state of the source is not checked.
AnyState(es) == esState[es] # "FRESH"

\* The check at the beginning of TCP_openConnection and UDP_openConnection.
MayOpen(es) == esState[es] = "STARTED"

MayCallBack == Len(stack) < MaxDepth

\* TCP_openActiveConnection
OpenActive(es, fd) ==
  /\ ApplicationRuns /\ MayCallBack
  /\ es \in Tcp /\ MayOpen(es)
  /\ Connect(fd, es, "connecting", "opening", <<stack, Plain(fd)>>)
  /\ UNCHANGED <<elState, esState, queue, pollVars>>

\* UDP_openSendConnection
OpenSend(es, fd) ==
  /\ ApplicationRuns /\ MayCallBack
  /\ es \notin Tcp /\ MayOpen(es)
  /\ Connect(fd, es, "send", "established", <<stack, Plain(fd)>>)
  /\ UNCHANGED <<elState, esState, queue, pollVars>>

\* The first address for which a socket can be opened.
Listen(es, fd, k, left) ==
  /\ ApplicationRuns /\ MayCallBack
  /\ MayOpen(es)
  /\ Connect(fd, es, k, "established", <<stack, ListenFrame(fd, es, left)>>)
  /\ UNCHANGED <<elState, esState, queue, pollVars>>

\* TCP_openPassiveConnection
OpenPassive(es, fd, left) == es \in Tcp /\ Listen(es, fd, "listen", left)

\* UDP_openReceiveConnection
OpenReceive(es, fd, left) == es \notin Tcp /\ Listen(es, fd, "receive", left)

\* The loops over the addresses continue when the callback for one returns.
\* TCP skips addresses that fail; UDP skips names that are too long, and gives up
\* (Return) at the first address that fails.
ListenNext(fd, k, left) ==
  /\ left < Top.left
  /\ Connect(fd, Top.es, k, "established", <<Pop, ListenFrame(fd, Top.es, left)>>)
  /\ UNCHANGED <<elState, esState, queue, pollVars>>

InListen == stack # <<>> /\ Top.what = "listen"

\* TCP_registerListenSockets
NextPassive(fd, left) ==
  InListen /\ Top.es \in Tcp /\ ListenNext(fd, "listen", left)

\* UDP_registerListenSockets
NextReceive(fd, left) ==
  InListen /\ Top.es \notin Tcp /\ ListenNext(fd, "receive", left)

\* closeConnection, or sendWithConnection when sending fails, on a connection
\* that the application knows of.
CloseConnection(fd) ==
  /\ ApplicationRuns
  /\ fd \in Registered
  /\ Shutdown({fd})
  /\ UNCHANGED <<elState, esState, pollVars, socket, owner, kind, todo, asked,
                 stack, told>>

\* addDelayedCallback with a callback of the application.
AddDelayed(c) ==
  /\ ApplicationRuns
  /\ c \notin queue \cup batch
  /\ queue' = queue \cup {c}
  /\ UNCHANGED <<elState, esState, pollVars, connVars, stack>>

\* TCP_eventSourceStop, UDP_eventSourceStop for a set of sources.
StopSources(S) ==
  /\ Shutdown({fd \in Fds : owner[fd] \in S})
  /\ esState' = [es \in Sources |->
       IF es \in S THEN StateAfterCheck("STOPPING", Of(es)) ELSE esState[es]]

StopSource(es) ==
  /\ ApplicationRuns
  /\ esState[es] # "FRESH"
  /\ StopSources({es})
  /\ UNCHANGED <<elState, pollVars, socket, owner, kind, todo, asked, stack,
                 told>>

\* UA_EventLoopLWIP_start.  A source that fails to start stays stopped, the
\* loop is started nevertheless.
StartLoop ==
  /\ ApplicationRuns
  /\ elState \in {"FRESH", "STOPPED"}
  /\ elState' = "STARTED"
  /\ \E started \in SUBSET {es \in Sources : esState[es] = "STOPPED"} :
       esState' = [es \in Sources |->
         IF es \in started THEN "STARTED" ELSE esState[es]]
  /\ UNCHANGED <<queue, pollVars, connVars, stack>>

\* UA_EventLoopLWIP_stop
StopLoop ==
  /\ ApplicationRuns
  /\ elState = "STARTED"
  /\ StopSources({es \in Sources : esState[es] = "STARTED"})
  /\ elState' = LoopAfterCheck("STOPPING", esState', queue')
  /\ UNCHANGED <<pollVars, socket, owner, kind, todo, asked, stack,
                 told>>

\* UA_EventLoopLWIP_registerEventSource: started if the loop is.
RegisterSource(es) ==
  /\ ApplicationRuns
  /\ esState[es] = "FRESH"
  /\ \E state \in {"STOPPED"} \cup (IF elState = "STARTED" THEN {"STARTED"} ELSE {}) :
       esState' = [esState EXCEPT ![es] = state]
  /\ UNCHANGED <<elState, queue, pollVars, connVars, stack>>

\* Mutant: a source that is still stopping may be deregistered.
NotStarted(es) == esState[es] \in {"STOPPED", "STOPPING"}

MayDeregister(es) == esState[es] = "STOPPED"

\* UA_EventLoopLWIP_deregisterEventSource
DeregisterSource(es) ==
  /\ ApplicationRuns
  /\ MayDeregister(es)
  /\ esState' = [esState EXCEPT ![es] = "FRESH"]
  /\ UNCHANGED <<elState, queue, pollVars, connVars, stack>>

\* UA_EventLoopLWIP_free: deregisters and frees the sources, then executes what
\* is left of the delayed callbacks.
FreeLoop ==
  /\ phase = "idle" /\ stack = <<>>
  /\ elState \in {"FRESH", "STOPPED"}
  /\ elState' = "FREED"
  /\ esState' = [es \in Sources |->
       IF esState[es] = "STOPPED" THEN "FRESH" ELSE esState[es]]
  /\ queue' = {}
  /\ UNCHANGED <<pollVars, connVars, stack>>

\* A callback returns to the loop, or to the open call that made it; for a
\* connection that closes, the socket is closed and the source may have stopped.
Return ==
  /\ stack # <<>>
  /\ stack' = Pop
  /\ IF Top.what = "close"
     THEN /\ socket' = socket \ {Top.fd}
          /\ told' = [told EXCEPT ![Top.fd] = "none"]
          /\ esState' = [esState EXCEPT ![Top.es] =
                           StateAfterCheck(esState[Top.es], Of(Top.es))]
     ELSE UNCHANGED <<socket, told, esState>>
  /\ UNCHANGED <<elState, queue, pollVars, owner, kind, closing, todo, asked>>

-----------------------------------------------------------------------------
(* UA_EventLoopLWIP_run.                                                   *)

LoopRuns(p) == phase = p /\ stack = <<>>

\* UA_Timer_process, with or without a callback of the application.
RunTimers ==
  /\ LoopRuns("idle")
  /\ elState \in {"STARTED", "STOPPING"}
  /\ phase' = "timers"
  /\ stack' \in {<<>>, <<Plain(None)>>}
  /\ UNCHANGED <<elState, esState, queue, batch, ready, connVars>>

\* Mutant: only one callback is taken off the queue, the rest is lost.
ResetDelayedQueueLoses ==
  /\ LoopRuns("timers")
  /\ phase' = "delayed"
  /\ \E c \in queue : batch' = {c}
  /\ queue' = {}
  /\ UNCHANGED <<elState, esState, ready, connVars, stack>>

\* resetDelayedQueue in processDelayed
ResetDelayedQueue ==
  /\ LoopRuns("timers")
  /\ phase' = "delayed"
  /\ batch' = queue
  /\ queue' = {}
  /\ UNCHANGED <<elState, esState, ready, connVars, stack>>

\* processDelayed executes a callback of its own or of the application.
ExecuteDelayed(c) ==
  /\ LoopRuns("delayed")
  /\ c \in batch
  /\ batch' = batch \ {c}
  /\ IF c \in Fds THEN BeginClose(c)
     ELSE stack' = Push(Plain(None)) /\ UNCHANGED connVars
  /\ UNCHANGED <<elState, esState, queue, phase, ready>>

\* setFDSets and select in UA_EventLoopLWIP_pollFDs
Select ==
  /\ LoopRuns("delayed")
  /\ batch = {}
  /\ phase' = "poll"
  /\ ready' \in SUBSET Registered
  /\ todo' = Registered
  /\ asked' = Registered
  /\ UNCHANGED <<elState, esState, queue, batch, socket, owner, kind, closing,
                 stack, told>>

\* Mutant: events of connections that are closing are processed.
ProcessAny(fd) == fd \in ready

\* The checks at the head of the loop of UA_EventLoopLWIP_pollFDs.
IsProcessed(fd) == fd \notin closing /\ fd \in ready

Looked(fd) == LoopRuns("poll") /\ fd \in todo

Skip(fd) ==
  /\ Looked(fd)
  /\ todo' = todo \ {fd}
  /\ UNCHANGED <<elState, esState, queue, pollVars, socket, owner, kind,
                 closing, asked, stack, told>>

\* TCP_listenSocketCallback accepts a connection.
Accept(fd, new) ==
  /\ Looked(fd) /\ IsProcessed(fd)
  /\ kind[fd] = "listen"
  /\ new \notin socket
  /\ socket' = socket \cup {new}
  /\ owner' = [owner EXCEPT ![new] = owner[fd]]
  /\ kind' = [kind EXCEPT ![new] = "stream"]
  /\ told' = [told EXCEPT ![new] = "established"]
  /\ todo' = (todo \ {fd}) \cup {new}
  /\ stack' = Push(Plain(new))
  /\ UNCHANGED <<elState, esState, queue, pollVars, closing, asked>>

\* TCP_connectionSocketCallback and UDP_connectionSocketCallback call the
\* application: the connection has opened, or data has arrived.  Select is not
\* asked for data on a connection that sends.
Receive(fd) ==
  /\ Looked(fd) /\ IsProcessed(fd)
  /\ kind[fd] # "listen"
  /\ kind[fd] = "send" => fd \notin asked
  /\ kind' = [kind EXCEPT ![fd] = IF @ = "connecting" THEN "stream" ELSE @]
  /\ told' = [told EXCEPT ![fd] = "established"]
  /\ todo' = todo \ {fd}
  /\ stack' = Push(Plain(fd))
  /\ UNCHANGED <<elState, esState, queue, pollVars, socket, owner, closing,
                 asked>>

\* Mutant: the TCP manager closes sockets like the UDP manager does.
EveryoneClosesAtOnce(es) == TRUE

\* "We can immediately close as no method below in the call stack will use the
\* socket in this iteration of the EventLoop": UDP only.
ClosesAtOnce(es) == es \notin Tcp

\* An error or an orderly shutdown: TCP closes later, UDP at once.
Fail(fd) ==
  /\ Looked(fd) /\ IsProcessed(fd)
  /\ IF ClosesAtOnce(owner[fd])
     THEN BeginClose(fd) /\ UNCHANGED queue
     ELSE /\ Shutdown({fd})
          /\ todo' = todo \ {fd}
          /\ UNCHANGED <<socket, owner, kind, asked, stack, told>>
  /\ UNCHANGED <<elState, esState, pollVars>>

\* The end of an iteration
EndRun ==
  /\ LoopRuns("poll")
  /\ todo = {}
  /\ phase' = "idle"
  /\ ready' = {}
  /\ asked' = {}
  /\ elState' = IF elState = "STOPPING"
                THEN LoopAfterCheck(elState, esState, queue) ELSE elState
  /\ UNCHANGED <<esState, queue, batch, socket, owner, kind, closing, todo,
                 stack, told>>

-----------------------------------------------------------------------------
\* UA_EventLoop_new_LWIP, UA_ConnectionManager_new_LWIP_TCP and _UDP
Init ==
  /\ elState = "FRESH"
  /\ esState = [es \in Sources |-> "FRESH"]
  /\ phase = "idle"
  /\ queue = {} /\ batch = {}
  /\ socket = {}
  /\ owner = [fd \in Fds |-> None]
  /\ kind = [fd \in Fds |-> "none"]
  /\ closing = {}
  /\ ready = {} /\ todo = {} /\ asked = {}
  /\ stack = <<>>
  /\ told = [fd \in Fds |-> "none"]

Open ==
  \/ \E es \in Sources, fd \in Fds : OpenActive(es, fd) \/ OpenSend(es, fd)
  \/ \E es \in Sources, fd \in Fds, left \in 0..(MaxAddrs - 1) :
       OpenPassive(es, fd, left) \/ OpenReceive(es, fd, left)

Lifecycle ==
  \/ StartLoop \/ StopLoop \/ FreeLoop
  \/ \E es \in Sources : \/ StopSource(es) \/ RegisterSource(es)
                         \/ DeregisterSource(es)

Application ==
  \/ Open \/ Lifecycle
  \/ \E fd \in Fds : CloseConnection(fd)
  \/ \E c \in Cells : AddDelayed(c)

Visit == \E fd \in Fds : \/ Skip(fd) \/ Receive(fd) \/ Fail(fd)
                         \/ \E new \in Fds : Accept(fd, new)
Run == \/ RunTimers \/ ResetDelayedQueue \/ Select \/ EndRun \/ Visit
       \/ \E c \in Fds \cup Cells : ExecuteDelayed(c)
Resume ==
  \/ Return
  \/ \E fd \in Fds, left \in 0..(MaxAddrs - 1) :
       NextPassive(fd, left) \/ NextReceive(fd, left)

Next == Application \/ Resume \/ Run

Spec == Init /\ [][Next]_vars

\* The server task iterates the loop as long as it runs, and callbacks return.
FairSpec == Spec /\ WF_vars(Run) /\ WF_vars(Return)
-----------------------------------------------------------------------------
(* Properties.                                                             *)

LoopStates   == {"FRESH", "STOPPED", "STARTED", "STOPPING", "FREED"}
SourceStates == {"FRESH", "STOPPED", "STARTED", "STOPPING"}

TypeOK ==
  /\ elState \in LoopStates
  /\ esState \in [Sources -> SourceStates]
  /\ phase \in {"idle", "timers", "delayed", "poll"}
  /\ queue \subseteq Fds \cup Cells
  /\ batch \subseteq Fds \cup Cells
  /\ socket \subseteq Fds
  /\ owner \in [Fds -> Sources \cup {None}]
  /\ kind \in [Fds -> Kinds]
  /\ closing \subseteq Fds
  /\ ready \subseteq Fds
  /\ todo \subseteq Fds
  /\ asked \subseteq Fds
  /\ stack \in Seq(Frames)
  /\ \A i \in DOMAIN stack : stack[i].what # "plain" => stack[i].es \in Sources
  /\ told \in [Fds -> {"none", "opening", "established", "closing"}]

\* The close of a connection is scheduled once, and only while it is
\* registered: TCP_delayedClose frees the connection, so that a second
\* execution would use and free it again.
CloseIsScheduledOnce ==
  /\ (queue \cup batch) \cap Fds = closing
  /\ queue \cap batch = {}
  /\ closing \subseteq Registered
  /\ Registered \subseteq socket

\* The managers implement the contract: every connection is announced and ends
\* with exactly one CLOSING callback before its socket is closed and its fd used
\* again, and "already registered for removal: don't process incoming events any
\* longer", whichever callback of the same pass of pollFDs has closed it.
Contract == INSTANCE ConnectionContract
              WITH calls <- [i \in DOMAIN stack |-> stack[i].fd]
ContractSpec == Contract!Spec

\* A source is stopped, and may be deregistered and freed, only when none of
\* its connections is registered any more.
StoppedSourceHasNoConnections ==
  \A es \in Sources : esState[es] \in {"FRESH", "STOPPED"} => Of(es) = {}

\* UA_EventLoopLWIP_free deregisters sources until none is left, and a source
\* that is not stopped cannot be deregistered: it would never end.
StoppedLoopHasStoppedSources ==
  elState \in {"FRESH", "STOPPED", "FREED"} =>
    \A es \in Sources : esState[es] \in {"FRESH", "STOPPED"}

\* UDP_connectionSocketCallback: "We can immediately close as no method "below" in
\* the call stack will use the socket in this iteration of the EventLoop".  The bits
\* that select has set and pollFDs has yet to look at belong to the connections
\* that select was asked about, not to others that use the fd of a closed one.
NoStaleEvent == phase = "poll" => (ready \cap todo) \ closing \subseteq asked

\* Connections of a source that is not started which nobody has begun to close.
Unreached == {fd \in Registered \ closing : esState[owner[fd]] # "STARTED"}

\* A listen call under way goes on with its next address.
ListenGoesOn(es) == InListen /\ Top.es = es /\ Len(stack') = Len(stack)

\* A socket that such a call has left listening accepts.
LateListener(es) == \E fd \in Unreached : owner[fd] = es /\ kind[fd] = "listen"

\* TCP_eventSourceStop: "Prevent new connections to open", and shut down those there
\* are.  A connection that stays open in a source that is not started is one for a
\* further address of a listen call that was under way when the source was stopped, or
\* one that such a socket has accepted: the stop reaches all that it finds, and no open
\* call that begins later registers another.
NoOpenWhileStopping ==
  [][\A fd \in Unreached' \ Unreached :
       ListenGoesOn(owner'[fd]) \/ LateListener(owner'[fd])]_vars

\* Stopping is asynchronous, but ends.
StopCompletes == elState = "STOPPING" ~> elState = "STOPPED"

\* A connection that closes is taken down, whatever callbacks do meanwhile.
CloseCompletes == \A fd \in Fds : fd \in closing ~> told[fd] = "none"

\* A pass over the sockets ends, however many connections are accepted and opened
\* by its callbacks.  (For TCP, whose connections stay registered during the pass.
\* With UDP a callback may close its socket and open another for ever.)
IterationEnds == phase = "poll" ~> phase = "idle"
=============================================================================
