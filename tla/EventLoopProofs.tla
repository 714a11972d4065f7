--------------------------- MODULE EventLoopProofs ---------------------------
(***************************************************************************)
(* Theorems about EventLoop for any number of file descriptors, sources,   *)
(* addresses, delayed callbacks and nested calls.                          *)
(*                                                                         *)
(* The safety of closing, stopping and freeing rests on what is on the     *)
(* stack of calls into the application: only the loop itself starts to     *)
(* take a connection down, so a CLOSING callback is at the bottom of the   *)
(* stack, and a connection that an open call is still busy with is         *)
(* registered.                                                             *)
(***************************************************************************)
EXTENDS EventLoop, SequenceTheorems, TLAPS

\* A CLOSING callback was called by the loop itself, for a connection that is
\* not registered any more and whose socket is still open.
ClosingCallIsBottom ==
  \A i \in DOMAIN stack : stack[i].what = "close" =>
    i = 1 /\ stack[i].fd \in socket /\ owner[stack[i].fd] = None

\* An open call that announces a listen socket finds it registered.
ListenCallIsRegistered ==
  \A i \in DOMAIN stack : stack[i].what = "listen" =>
    stack[i].fd \in Fds /\ owner[stack[i].fd] = stack[i].es

\* The batch of delayed callbacks is used up before the loop goes on, and the
\* array that pollFDs works through holds registered connections only.
IterationInv ==
  /\ phase # "delayed" => batch = {}
  /\ todo \subseteq Registered

\* The inductive invariant.
IInv ==
  /\ TypeOK
  /\ CloseIsScheduledOnce
  /\ StoppedSourceHasNoConnections
  /\ StoppedLoopHasStoppedSources
  /\ ClosingCallIsBottom
  /\ ListenCallIsRegistered
  /\ IterationInv

-----------------------------------------------------------------------------
(* Sequences.                                                              *)

\* Append adds one element at the end and leaves the others in place.
LEMMA AppendFacts ==
  ASSUME NEW S, NEW s \in Seq(S), NEW e \in S
  PROVE  /\ Append(s, e) \in Seq(S)
         /\ DOMAIN Append(s, e) = 1..(Len(s) + 1)
         /\ Append(s, e)[Len(s) + 1] = e
         /\ \A i \in DOMAIN s : i \in DOMAIN Append(s, e) /\ Append(s, e)[i] = s[i]
         /\ \A i \in DOMAIN Append(s, e) : i \notin DOMAIN s => i = Len(s) + 1
  OBVIOUS

\* Taking the last element off leaves the others in place.
LEMMA PopFacts ==
  ASSUME stack \in Seq(Frames), stack # <<>>
  PROVE  /\ Len(stack) \in DOMAIN stack
         /\ Top \in Frames
         /\ Pop \in Seq(Frames)
         /\ DOMAIN Pop = 1..(Len(stack) - 1)
         /\ \A i \in DOMAIN Pop : i \in DOMAIN stack /\ Pop[i] = stack[i]
<1>1. Len(stack) \in Nat \ {0} /\ DOMAIN stack = 1..Len(stack)  OBVIOUS
<1>2. \A i \in 1..(Len(stack) - 1) : stack[i] \in Frames  BY <1>1
<1>3. /\ Pop \in Seq(Frames)
      /\ Len(Pop) = Len(stack) - 1
      /\ \A i \in 1..(Len(stack) - 1) : Pop[i] = stack[i]
  BY <1>1, <1>2, SubSeqProperties DEF Pop
<1> QED  BY <1>1, <1>3 DEF Top

-----------------------------------------------------------------------------
\* The initial states satisfy the invariant.
LEMMA InitIInv == Init => IInv
<1> SUFFICES ASSUME Init PROVE IInv  OBVIOUS
<1>1. TypeOK  BY DEF Init, TypeOK, LoopStates, SourceStates, Kinds
<1>2. CloseIsScheduledOnce  BY DEF Init, CloseIsScheduledOnce, Registered
<1>3. StoppedSourceHasNoConnections
  BY EventLoopAssumption DEF Init, StoppedSourceHasNoConnections, Of
<1>4. StoppedLoopHasStoppedSources  BY DEF Init, StoppedLoopHasStoppedSources
<1>5. ClosingCallIsBottom /\ ListenCallIsRegistered
  BY DEF Init, ClosingCallIsBottom, ListenCallIsRegistered
<1>6. IterationInv  BY DEF Init, IterationInv
<1> QED  BY <1>1, <1>2, <1>3, <1>4, <1>5, <1>6 DEF IInv

\* Opening a connection: a new descriptor, a source that is not stopped, and
\* on the stack at most the frame of the open call is exchanged.
LEMMA NewConnectionKeeps ==
  ASSUME IInv,
         NEW fd \in Fds, NEW es \in Sources, NEW k \in Kinds,
         NEW state \in {"opening", "established"},
         NEW base, NEW f \in Frames,
         base = stack \/ (stack # <<>> /\ base = Pop),
         f.what = "plain" \/ (f.what = "listen" /\ f.fd = fd /\ f.es = es),
         esState[es] \in {"STARTED", "STOPPING"},
         fd \notin socket,
         socket' = socket \cup {fd},
         owner' = [owner EXCEPT ![fd] = es],
         kind' = [kind EXCEPT ![fd] = k],
         told' = [told EXCEPT ![fd] = state],
         stack' = Append(base, f),
         todo' \subseteq todo \cup {fd},
         UNCHANGED <<elState, esState, queue, pollVars, closing, asked>>
  PROVE  IInv'
<1> USE EventLoopAssumption
<1>1. /\ closing' = closing /\ asked' = asked
      /\ elState' = elState /\ esState' = esState /\ queue' = queue
      /\ ready' = ready /\ phase' = phase /\ batch' = batch
  BY DEF pollVars
<1>2. /\ base \in Seq(Frames)
      /\ \A i \in DOMAIN base : i \in DOMAIN stack /\ base[i] = stack[i]
  BY PopFacts DEF IInv, TypeOK
<1>3. /\ stack' \in Seq(Frames)
      /\ \A i \in DOMAIN stack' :
           \/ i \in DOMAIN stack /\ stack'[i] = stack[i]
           \/ stack'[i] = f
  BY <1>1, <1>2, AppendFacts
<1>4. owner \in [Fds -> Sources \cup {None}] /\ socket \subseteq Fds
  BY DEF IInv, TypeOK
<1>5. owner[fd] = None
  BY <1>1, <1>4 DEF IInv, CloseIsScheduledOnce, Registered
<1>6. TypeOK'
  <2>1. /\ owner' \in [Fds -> Sources \cup {None}]
        /\ kind' \in [Fds -> Kinds]
        /\ told' \in [Fds -> {"none", "opening", "established", "closing"}]
    BY <1>1, <1>4 DEF IInv, TypeOK
  <2>2. \A i \in DOMAIN stack' : stack'[i].what # "plain" => stack'[i].es \in Sources
    BY <1>3 DEF IInv, TypeOK
  <2> QED  BY <1>1, <1>3, <2>1, <2>2 DEF IInv, TypeOK
<1>7. CloseIsScheduledOnce'
  BY <1>1, <1>4 DEF IInv, CloseIsScheduledOnce, Registered
<1>8. StoppedSourceHasNoConnections'
  BY <1>1, <1>4 DEF IInv, StoppedSourceHasNoConnections, Of
<1>9. StoppedLoopHasStoppedSources'
  BY <1>1 DEF IInv, StoppedLoopHasStoppedSources
<1>10. ClosingCallIsBottom'
  BY <1>1, <1>3, <1>4 DEF IInv, ClosingCallIsBottom
<1>11. ListenCallIsRegistered'
  <2> SUFFICES ASSUME NEW i \in DOMAIN stack', stack'[i].what = "listen"
               PROVE  stack'[i].fd \in Fds /\ owner'[stack'[i].fd] = stack'[i].es
    BY DEF ListenCallIsRegistered
  <2>1. CASE stack'[i] = f  BY <2>1, <1>1, <1>4
  <2>2. CASE i \in DOMAIN stack /\ stack'[i] = stack[i]
    <3>1. /\ stack[i].fd \in Fds /\ owner[stack[i].fd] = stack[i].es
          /\ stack[i].es \in Sources
      BY <2>2 DEF IInv, ListenCallIsRegistered, TypeOK
    <3>2. stack[i].fd # fd  BY <3>1, <1>5
    <3> QED  BY <2>2, <3>1, <3>2, <1>1, <1>4
  <2> QED  BY <1>3, <2>1, <2>2
<1>12. IterationInv'
  BY <1>1, <1>4, EventLoopAssumption DEF IInv, IterationInv, Registered
<1> QED  BY <1>6, <1>7, <1>8, <1>9, <1>10, <1>11, <1>12 DEF IInv

\* Scheduling the close of registered connections, with any change of the
\* states of loop and sources that keeps the two invariants about stopping.
LEMMA ShutdownKeeps ==
  ASSUME IInv,
         NEW S \in SUBSET Registered,
         Shutdown(S),
         elState' \in LoopStates, esState' \in [Sources -> SourceStates],
         StoppedSourceHasNoConnections', StoppedLoopHasStoppedSources',
         todo' \subseteq todo,
         UNCHANGED <<pollVars, socket, owner, kind, asked, stack, told>>
  PROVE  IInv'
<1> USE EventLoopAssumption
<1>1. /\ closing' = closing \cup (S \ closing)
      /\ queue' = queue \cup (S \ closing)
      /\ socket' = socket /\ owner' = owner /\ kind' = kind /\ asked' = asked
      /\ stack' = stack /\ told' = told
      /\ ready' = ready /\ phase' = phase /\ batch' = batch
  BY DEF Shutdown, ToShutDown, pollVars
<1>2. S \subseteq Fds  BY DEF Registered
<1>3. TypeOK'  BY <1>1, <1>2 DEF IInv, TypeOK
<1>4. CloseIsScheduledOnce'
  <2>1. Registered' = Registered  BY <1>1 DEF Registered
  <2>2. /\ (queue \cup batch) \cap Fds = closing
        /\ queue \cap batch = {}
        /\ closing \subseteq Registered /\ Registered \subseteq socket
    BY DEF IInv, CloseIsScheduledOnce
  <2>3. (queue' \cup batch') \cap Fds = closing'  BY <1>1, <1>2, <2>2
  <2>4. queue' \cap batch' = {}  BY <1>1, <1>2, <2>2
  <2> QED  BY <1>1, <2>1, <2>2, <2>3, <2>4 DEF CloseIsScheduledOnce
<1>5. /\ ClosingCallIsBottom' /\ ListenCallIsRegistered'
      /\ IterationInv'
  BY <1>1 DEF IInv, ClosingCallIsBottom, ListenCallIsRegistered,
     IterationInv, Registered
<1> QED  BY <1>3, <1>4, <1>5 DEF IInv

\* The loop itself begins to take a connection down: no call into the
\* application is pending, and the CLOSING callback becomes the only one.
LEMMA BeginCloseKeeps ==
  ASSUME IInv, stack = <<>>,
         NEW fd \in Fds, owner[fd] # None, fd \in closing <=> fd \in batch,
         BeginClose(fd),
         batch' = batch \ {fd},
         UNCHANGED <<elState, esState, queue, phase, ready>>
  PROVE  IInv'
<1> USE EventLoopAssumption
<1>1. /\ owner' = [owner EXCEPT ![fd] = None]
      /\ kind' = [kind EXCEPT ![fd] = "none"]
      /\ closing' = closing \ {fd}
      /\ todo' = todo \ {fd}
      /\ asked' = asked \ {fd}
      /\ told' = [told EXCEPT ![fd] = "closing"]
      /\ stack' = Append(stack, CloseFrame(fd))
      /\ socket' = socket
  BY DEF BeginClose, Push
<1>2. /\ owner \in [Fds -> Sources \cup {None}] /\ owner[fd] \in Sources
      /\ fd \in socket
  BY DEF IInv, TypeOK, CloseIsScheduledOnce, Registered
<1>3. CloseFrame(fd) \in Frames
  BY <1>2 DEF CloseFrame, Frames
<1>4. /\ stack' \in Seq(Frames) /\ DOMAIN stack' = {1}
      /\ stack'[1] = CloseFrame(fd)
  BY <1>1, <1>3
<1>5. TypeOK'
  <2>1. \A i \in DOMAIN stack' : stack'[i].es \in Sources
    BY <1>2, <1>4 DEF CloseFrame
  <2>2. /\ owner' \in [Fds -> Sources \cup {None}]
        /\ kind' \in [Fds -> Kinds]
        /\ told' \in [Fds -> {"none", "opening", "established", "closing"}]
    BY <1>1, <1>2 DEF IInv, TypeOK, Kinds
  <2> QED  BY <1>1, <1>4, <2>1, <2>2 DEF IInv, TypeOK
<1>6. CloseIsScheduledOnce'
  BY <1>1, <1>2 DEF IInv, CloseIsScheduledOnce, Registered
<1>7. StoppedSourceHasNoConnections'
  BY <1>1, <1>2 DEF IInv, StoppedSourceHasNoConnections, Of
<1>8. StoppedLoopHasStoppedSources'
  BY DEF IInv, StoppedLoopHasStoppedSources
<1>9. ClosingCallIsBottom' /\ ListenCallIsRegistered'
  BY <1>1, <1>2, <1>4
  DEF ClosingCallIsBottom, ListenCallIsRegistered, CloseFrame
<1>10. IterationInv'
  BY <1>1, <1>2 DEF IInv, IterationInv, Registered
<1> QED  BY <1>5, <1>6, <1>7, <1>8, <1>9, <1>10 DEF IInv

\* A callback returns; the socket of a connection that closes is closed, and
\* its source is stopped only when it has no registered connection.
LEMMA ReturnKeeps ==
  ASSUME IInv, Return
  PROVE  IInv'
<1> USE EventLoopAssumption
<1>1. /\ stack # <<>> /\ stack' = Pop
      /\ elState' = elState /\ queue' = queue /\ ready' = ready
      /\ phase' = phase /\ batch' = batch /\ owner' = owner /\ kind' = kind
      /\ closing' = closing /\ todo' = todo /\ asked' = asked
  BY DEF Return, pollVars
<1>0. IterationInv'  BY <1>1 DEF IInv, IterationInv, Registered
<1>2. /\ Len(stack) \in DOMAIN stack
      /\ Pop \in Seq(Frames) /\ Top \in Frames
      /\ DOMAIN Pop = 1..(Len(stack) - 1)
      /\ \A i \in DOMAIN Pop : i \in DOMAIN stack /\ Pop[i] = stack[i]
  BY <1>1, PopFacts DEF IInv, TypeOK
<1>3. CASE Top.what # "close"
  <2>1. socket' = socket /\ told' = told /\ esState' = esState
    BY <1>3 DEF Return
  <2>2. TypeOK'  BY <1>1, <1>2, <2>1 DEF IInv, TypeOK
  <2>3. /\ CloseIsScheduledOnce' /\ StoppedSourceHasNoConnections'
        /\ StoppedLoopHasStoppedSources'
    BY <1>1, <2>1 DEF IInv, CloseIsScheduledOnce, Registered, Of,
       StoppedSourceHasNoConnections, StoppedLoopHasStoppedSources
  <2>4. ClosingCallIsBottom' /\ ListenCallIsRegistered'
    BY <1>1, <1>2, <2>1 DEF IInv, ClosingCallIsBottom, ListenCallIsRegistered
  <2> QED  BY <1>0, <2>2, <2>3, <2>4 DEF IInv
<1>4. CASE Top.what = "close"
  <2>1. /\ socket' = socket \ {Top.fd}
        /\ told' = [told EXCEPT ![Top.fd] = "none"]
        /\ esState' = [esState EXCEPT ![Top.es] =
                         StateAfterCheck(esState[Top.es], Of(Top.es))]
    BY <1>4 DEF Return
  <2>2. /\ Top.es \in Sources /\ Len(stack) = 1
        /\ Top.fd \in socket /\ owner[Top.fd] = None
    BY <1>2, <1>4 DEF IInv, TypeOK, ClosingCallIsBottom, Top
  <2>3. DOMAIN stack' = {}  BY <1>1, <1>2, <2>2
  <2>4. /\ esState \in [Sources -> SourceStates] /\ socket \subseteq Fds
        /\ told \in [Fds -> {"none", "opening", "established", "closing"}]
    BY DEF IInv, TypeOK
  <2>5. /\ esState' \in [Sources -> SourceStates]
        /\ \A es \in Sources :
             \/ esState'[es] = esState[es]
             \/ esState'[es] = "STOPPED" /\ Of(es) = {}
    <3>1. PICK mine \in Sources : mine = Top.es  BY <2>2
    <3>2. PICK state : state = StateAfterCheck(esState[mine], Of(mine))
      OBVIOUS
    <3>3. esState' = [esState EXCEPT ![mine] = state]  BY <2>1, <3>1, <3>2
    <3>4. esState[mine] \in SourceStates  BY <2>4
    <3>5. state \in SourceStates
      BY <3>2, <3>4 DEF StateAfterCheck, SourceStates
    <3>6. state = esState[mine] \/ (state = "STOPPED" /\ Of(mine) = {})
      BY <3>2 DEF StateAfterCheck
    <3>7. esState' \in [Sources -> SourceStates]  BY <2>4, <3>3, <3>5
    <3>8. \A es \in Sources : esState'[es] = IF es = mine THEN state ELSE esState[es]
      BY <2>4, <3>3
    <3> QED  BY <3>6, <3>7, <3>8
  <2>6. told' \in [Fds -> {"none", "opening", "established", "closing"}]
    BY <2>1, <2>4
  <2>7. TypeOK'  BY <1>1, <1>2, <2>1, <2>3, <2>5, <2>6 DEF IInv, TypeOK
  <2>8. CloseIsScheduledOnce'
    BY <1>1, <2>1, <2>2 DEF IInv, CloseIsScheduledOnce, Registered
  <2>9. StoppedSourceHasNoConnections' /\ StoppedLoopHasStoppedSources'
    BY <1>1, <2>5 DEF IInv, Of, StoppedSourceHasNoConnections,
       StoppedLoopHasStoppedSources
  <2>10. ClosingCallIsBottom' /\ ListenCallIsRegistered'
    BY <2>3 DEF ClosingCallIsBottom, ListenCallIsRegistered
  <2> QED  BY <1>0, <2>7, <2>8, <2>9, <2>10 DEF IInv
<1> QED  BY <1>3, <1>4

\* The states of loop and sources change, but no connection does.
LEMMA LifecycleKeeps ==
  ASSUME IInv,
         elState' \in LoopStates, esState' \in [Sources -> SourceStates],
         StoppedSourceHasNoConnections', StoppedLoopHasStoppedSources',
         UNCHANGED <<queue, pollVars, connVars, stack>>
  PROVE  IInv'
<1>1. TypeOK'  BY DEF IInv, TypeOK, pollVars, connVars
<1>2. CloseIsScheduledOnce'
  BY DEF IInv, CloseIsScheduledOnce, Registered, pollVars, connVars
<1>3. /\ ClosingCallIsBottom' /\ ListenCallIsRegistered'
      /\ IterationInv'
  BY DEF IInv, ClosingCallIsBottom, ListenCallIsRegistered, connVars,
     IterationInv, Registered, pollVars
<1> QED  BY <1>1, <1>2, <1>3 DEF IInv

\* The loop moves on and at most calls the application, without a change of
\* the connections that are registered or closing.
LEMMA RunKeeps ==
  ASSUME IInv,
         stack' = stack \/ (\E fd \in Fds \cup {None} : stack' = Append(stack, Plain(fd))),
         (queue' \cup batch') \cap Fds = closing, queue' \cap batch' = {},
         queue' \subseteq Fds \cup Cells, batch' \subseteq Fds \cup Cells,
         phase' \in {"idle", "timers", "delayed", "poll"},
         phase' # "delayed" => batch' = {},
         ready' \subseteq Fds, todo' \subseteq Registered, asked' \subseteq Fds,
         kind' \in [Fds -> Kinds],
         told' \in [Fds -> {"none", "opening", "established", "closing"}],
         UNCHANGED <<elState, esState, socket, owner, closing>>
  PROVE  IInv'
<1> USE EventLoopAssumption
<1>1. /\ stack' \in Seq(Frames)
      /\ \A i \in DOMAIN stack' :
           \/ i \in DOMAIN stack /\ stack'[i] = stack[i]
           \/ stack'[i].what = "plain"
  <2>1. stack \in Seq(Frames)  BY DEF IInv, TypeOK
  <2>2. CASE stack' = stack  BY <2>1, <2>2
  <2>3. ASSUME NEW fd \in Fds \cup {None}, stack' = Append(stack, Plain(fd))
        PROVE  <1>1
    <3>1. Plain(fd) \in Frames /\ Plain(fd).what = "plain"
      BY DEF Plain, Frames
    <3> QED  BY <2>1, <2>3, <3>1, AppendFacts
  <2> QED  BY <2>2, <2>3
<1>2. TypeOK'  BY <1>1 DEF IInv, TypeOK, Registered
<1>3. CloseIsScheduledOnce'
  BY DEF IInv, CloseIsScheduledOnce, Registered
<1>4. StoppedSourceHasNoConnections' /\ StoppedLoopHasStoppedSources'
  BY DEF IInv, Of, StoppedSourceHasNoConnections, StoppedLoopHasStoppedSources
<1>5. ClosingCallIsBottom' /\ ListenCallIsRegistered'
  BY <1>1 DEF IInv, ClosingCallIsBottom, ListenCallIsRegistered
<1>6. IterationInv'  BY DEF IterationInv, Registered
<1> QED  BY <1>2, <1>3, <1>4, <1>5, <1>6 DEF IInv

-----------------------------------------------------------------------------
\* The actions that open a connection on behalf of the application.
LEMMA OpenKeeps ==
  ASSUME IInv,
         NEW fd \in Fds, NEW es \in Sources, NEW k \in Kinds,
         NEW state \in {"opening", "established"},
         NEW base, NEW f \in Frames,
         base = stack \/ (stack # <<>> /\ base = Pop),
         f.what = "plain" \/ (f.what = "listen" /\ f.fd = fd /\ f.es = es),
         esState[es] \in {"STARTED", "STOPPING"},
         Connect(fd, es, k, state, <<base, f>>),
         UNCHANGED <<elState, esState, queue, pollVars>>
  PROVE  IInv'
<1>1. /\ fd \notin socket
      /\ socket' = socket \cup {fd}
      /\ owner' = [owner EXCEPT ![fd] = es]
      /\ kind' = [kind EXCEPT ![fd] = k]
      /\ told' = [told EXCEPT ![fd] = state]
      /\ stack' = Append(base, f)
      /\ UNCHANGED <<closing, asked>>
  BY DEF Connect
<1>2. todo' \subseteq todo \cup {fd}  BY DEF Connect
<1> QED  BY <1>1, <1>2, NewConnectionKeeps

\* An application that opens, closes, starts, stops, registers, deregisters,
\* adds a delayed callback or frees the loop.
LEMMA ApplicationKeeps == IInv /\ Application => IInv'
<1> USE EventLoopAssumption
<1> SUFFICES ASSUME IInv, Application PROVE IInv'  OBVIOUS
<1>1. ASSUME NEW es \in Sources, NEW fd \in Fds,
             OpenActive(es, fd) \/ OpenSend(es, fd)
      PROVE  IInv'
  <2>1. Plain(fd) \in Frames /\ Plain(fd).what = "plain"
    BY DEF Plain, Frames
  <2>2. esState[es] = "STARTED"  BY <1>1 DEF OpenActive, OpenSend, MayOpen
  <2>3. CASE OpenActive(es, fd)
    BY <2>1, <2>2, <2>3, OpenKeeps DEF OpenActive, Kinds
  <2>4. CASE OpenSend(es, fd)
    BY <2>1, <2>2, <2>4, OpenKeeps DEF OpenSend, Kinds
  <2> QED  BY <1>1, <2>3, <2>4
<1>2. ASSUME NEW es \in Sources, NEW fd \in Fds, NEW left \in 0..(MaxAddrs - 1),
             OpenPassive(es, fd, left) \/ OpenReceive(es, fd, left)
      PROVE  IInv'
  <2>1. /\ ListenFrame(fd, es, left) \in Frames
        /\ ListenFrame(fd, es, left).what = "listen"
        /\ ListenFrame(fd, es, left).fd = fd
        /\ ListenFrame(fd, es, left).es = es
    BY DEF ListenFrame, Frames
  <2>2. PICK k \in Kinds : Listen(es, fd, k, left)
    BY <1>2 DEF OpenPassive, OpenReceive, Kinds
  <2> QED  BY <2>1, <2>2, OpenKeeps DEF Listen, MayOpen
<1>3. CASE StartLoop
  <2>1. /\ elState \in {"FRESH", "STOPPED"} /\ elState' = "STARTED"
        /\ esState' \in [Sources -> SourceStates]
        /\ \A es \in Sources : esState'[es] = "STARTED" \/ esState'[es] = esState[es]
        /\ UNCHANGED <<queue, pollVars, connVars, stack>>
    BY <1>3 DEF StartLoop, IInv, TypeOK, SourceStates
  <2>2. StoppedSourceHasNoConnections' /\ StoppedLoopHasStoppedSources'
    BY <2>1 DEF IInv, StoppedSourceHasNoConnections,
       StoppedLoopHasStoppedSources, Of, connVars
  <2>3. elState' \in LoopStates  BY <2>1 DEF LoopStates
  <2> QED  BY <2>1, <2>2, <2>3, LifecycleKeeps
<1>4. ASSUME NEW S \in SUBSET Sources, StopSources(S),
             elState' = elState \/ elState' = LoopAfterCheck("STOPPING", esState', queue'),
             UNCHANGED <<pollVars, socket, owner, kind, todo, asked, stack, told>>
      PROVE  IInv'
  <2>1. {fd \in Fds : owner[fd] \in S} \in SUBSET Registered
    BY DEF Registered
  <2>2. Shutdown({fd \in Fds : owner[fd] \in S})  BY <1>4 DEF StopSources
  <2>3. /\ esState' \in [Sources -> SourceStates]
        /\ \A es \in Sources :
             \/ es \in S /\ Of(es) = {} /\ esState'[es] = "STOPPED"
             \/ es \in S /\ Of(es) # {} /\ esState'[es] = "STOPPING"
             \/ es \notin S /\ esState'[es] = esState[es]
    BY <1>4 DEF StopSources, StateAfterCheck, IInv, TypeOK, SourceStates
  <2>4. /\ elState' \in LoopStates
        /\ \/ elState' = elState
           \/ elState' = "STOPPING"
           \/ \A es \in Sources : esState'[es] \in {"FRESH", "STOPPED"}
    BY <1>4 DEF LoopAfterCheck, LoopStates, IInv, TypeOK
  <2>5. StoppedSourceHasNoConnections'
    <3>1. \A es \in Sources : Of(es)' = Of(es)  BY <1>4 DEF Of
    <3> QED  BY <2>3, <3>1 DEF IInv, StoppedSourceHasNoConnections
  <2>6. StoppedLoopHasStoppedSources'
    <3>1. ASSUME elState' = elState, elState \in {"FRESH", "STOPPED", "FREED"},
                 NEW es \in Sources
          PROVE  esState'[es] \in {"FRESH", "STOPPED"}
      <4>1. esState[es] \in {"FRESH", "STOPPED"} /\ Of(es) = {}
        BY <3>1 DEF IInv, StoppedLoopHasStoppedSources,
           StoppedSourceHasNoConnections
      <4> QED  BY <2>3, <4>1
    <3> QED  BY <2>4, <3>1 DEF StoppedLoopHasStoppedSources
  <2> QED
    BY <1>4, <2>1, <2>2, <2>3, <2>4, <2>5, <2>6, ShutdownKeeps
<1>5. CASE StopLoop
  BY <1>5, <1>4 DEF StopLoop
<1>6. ASSUME NEW es \in Sources, StopSource(es) PROVE IInv'
  BY <1>6, <1>4 DEF StopSource
<1>7. ASSUME NEW es \in Sources, RegisterSource(es) PROVE IInv'
  <2>1. PICK state \in {"STOPPED"} \cup (IF elState = "STARTED" THEN {"STARTED"} ELSE {}) :
          esState' = [esState EXCEPT ![es] = state]
    BY <1>7 DEF RegisterSource
  <2>2. /\ esState[es] = "FRESH" /\ elState' = elState
        /\ state = "STOPPED" \/ (state = "STARTED" /\ elState = "STARTED")
        /\ UNCHANGED <<queue, pollVars, connVars, stack>>
    BY <1>7, <2>1 DEF RegisterSource
  <2>3. elState' \in LoopStates /\ esState' \in [Sources -> SourceStates]
    BY <2>1, <2>2 DEF IInv, TypeOK, SourceStates
  <2>4. StoppedSourceHasNoConnections' /\ StoppedLoopHasStoppedSources'
    BY <2>1, <2>2 DEF IInv, TypeOK, StoppedSourceHasNoConnections,
       StoppedLoopHasStoppedSources, Of, connVars
  <2> QED  BY <2>2, <2>3, <2>4, LifecycleKeeps
<1>8. ASSUME NEW es \in Sources, DeregisterSource(es) PROVE IInv'
  <2>1. /\ esState[es] = "STOPPED" /\ elState' = elState
        /\ esState' = [esState EXCEPT ![es] = "FRESH"]
        /\ UNCHANGED <<queue, pollVars, connVars, stack>>
    BY <1>8 DEF DeregisterSource, MayDeregister
  <2>2. elState' \in LoopStates /\ esState' \in [Sources -> SourceStates]
    BY <2>1 DEF IInv, TypeOK, SourceStates
  <2>3. StoppedSourceHasNoConnections' /\ StoppedLoopHasStoppedSources'
    BY <2>1 DEF IInv, TypeOK, StoppedSourceHasNoConnections,
       StoppedLoopHasStoppedSources, Of, connVars
  <2> QED  BY <2>1, <2>2, <2>3, LifecycleKeeps
<1>9. CASE FreeLoop
  <2>1. /\ elState \in {"FRESH", "STOPPED"} /\ elState' = "FREED"
        /\ esState' = [es \in Sources |->
             IF esState[es] = "STOPPED" THEN "FRESH" ELSE esState[es]]
        /\ queue' = {}
        /\ UNCHANGED <<pollVars, connVars, stack>>
    BY <1>9 DEF FreeLoop
  <2>2. Registered = {} /\ closing = {}
    BY <2>1 DEF IInv, TypeOK, Registered, Of, CloseIsScheduledOnce,
       StoppedSourceHasNoConnections, StoppedLoopHasStoppedSources
  <2>3. \A es \in Sources : /\ esState'[es] \in SourceStates
                            /\ esState'[es] \in {"FRESH", "STOPPED"}
                            /\ Of(es) = {}
    BY <2>1, <2>2 DEF IInv, StoppedLoopHasStoppedSources, SourceStates,
       StoppedSourceHasNoConnections
  <2>4. TypeOK'
    BY <2>1, <2>3 DEF IInv, TypeOK, LoopStates, pollVars, connVars
  <2>5. CloseIsScheduledOnce'
    BY <2>1, <2>2 DEF IInv, CloseIsScheduledOnce, Registered, connVars, pollVars
  <2>6. StoppedSourceHasNoConnections' /\ StoppedLoopHasStoppedSources'
    BY <2>1, <2>3 DEF StoppedSourceHasNoConnections, Of, connVars,
       StoppedLoopHasStoppedSources
  <2>7. /\ ClosingCallIsBottom' /\ ListenCallIsRegistered'
        /\ IterationInv'
    BY <2>1 DEF IInv, ClosingCallIsBottom, ListenCallIsRegistered, connVars,
       IterationInv, Registered, pollVars
  <2> QED  BY <2>4, <2>5, <2>6, <2>7 DEF IInv
<1>10. ASSUME NEW fd \in Fds, CloseConnection(fd) PROVE IInv'
  <2>1. /\ {fd} \in SUBSET Registered /\ Shutdown({fd})
        /\ elState' = elState /\ esState' = esState
        /\ UNCHANGED <<pollVars, socket, owner, kind, todo, asked, stack, told>>
    BY <1>10 DEF CloseConnection
  <2>2. StoppedSourceHasNoConnections' /\ StoppedLoopHasStoppedSources'
    BY <2>1 DEF IInv, StoppedSourceHasNoConnections, Of,
       StoppedLoopHasStoppedSources
  <2>3. elState' \in LoopStates /\ esState' \in [Sources -> SourceStates]
    BY <2>1 DEF IInv, TypeOK
  <2> QED  BY <2>1, <2>2, <2>3, ShutdownKeeps
<1>11. ASSUME NEW c \in Cells, AddDelayed(c) PROVE IInv'
  <2>1. /\ c \notin queue \cup batch /\ queue' = queue \cup {c}
        /\ UNCHANGED <<elState, esState, pollVars, connVars, stack>>
    BY <1>11 DEF AddDelayed
  <2>2. /\ (queue' \cup batch') \cap Fds = closing /\ queue' \cap batch' = {}
        /\ queue' \subseteq Fds \cup Cells
    BY <2>1 DEF IInv, CloseIsScheduledOnce, TypeOK, pollVars
  <2> QED
    BY <2>1, <2>2, RunKeeps DEF IInv, TypeOK, pollVars, connVars,
       IterationInv
<1> QED
  BY <1>1, <1>2, <1>3, <1>5, <1>6, <1>7, <1>8, <1>9, <1>10, <1>11
  DEF Application, Open, Lifecycle

\* The calls that continue when a callback returns.
LEMMA ResumeKeeps == IInv /\ Resume => IInv'
<1> USE EventLoopAssumption
<1> SUFFICES ASSUME IInv, Resume PROVE IInv'  OBVIOUS
<1>1. CASE Return  BY <1>1, ReturnKeeps
<1>2. ASSUME NEW fd \in Fds, NEW left \in 0..(MaxAddrs - 1), NEW k \in Kinds,
             InListen, ListenNext(fd, k, left)
      PROVE  IInv'
  <2>1. /\ stack # <<>> /\ Top \in Frames /\ Len(stack) \in DOMAIN stack
        /\ Top.what = "listen"
    BY <1>2, PopFacts DEF InListen, IInv, TypeOK
  <2>2. Top.es \in Sources /\ Top.fd \in Fds /\ owner[Top.fd] = Top.es
    BY <2>1 DEF IInv, TypeOK, ListenCallIsRegistered, Top
  <2>3. PICK mine \in Sources : mine = Top.es  BY <2>2
  <2>4. Of(mine) # {}  BY <2>2, <2>3 DEF Of
  <2>5. esState[mine] \in {"STARTED", "STOPPING"}
    BY <2>4 DEF IInv, TypeOK, SourceStates, StoppedSourceHasNoConnections
  <2>6. /\ ListenFrame(fd, mine, left) \in Frames
        /\ ListenFrame(fd, mine, left).what = "listen"
        /\ ListenFrame(fd, mine, left).fd = fd
        /\ ListenFrame(fd, mine, left).es = mine
    BY DEF ListenFrame, Frames
  <2>7. Connect(fd, mine, k, "established", <<Pop, ListenFrame(fd, mine, left)>>)
    BY <1>2, <2>3 DEF ListenNext
  <2>8. UNCHANGED <<elState, esState, queue, pollVars>>
    BY <1>2 DEF ListenNext
  <2> QED  BY <2>1, <2>5, <2>6, <2>7, <2>8, OpenKeeps
<1>3. ASSUME NEW fd \in Fds, NEW left \in 0..(MaxAddrs - 1),
             NextPassive(fd, left) \/ NextReceive(fd, left)
      PROVE  IInv'
  BY <1>2, <1>3 DEF NextPassive, NextReceive, Kinds
<1> QED  BY <1>1, <1>3 DEF Resume

\* An iteration of the loop, step by step.
LEMMA IterationKeeps == IInv /\ Run => IInv'
<1> USE EventLoopAssumption
<1> SUFFICES ASSUME IInv, Run PROVE IInv'  OBVIOUS
<1>1. CASE RunTimers
  <2>1. /\ stack = <<>> /\ phase = "idle" /\ phase' = "timers"
        /\ stack' = <<>> \/ stack' = <<Plain(None)>>
        /\ UNCHANGED <<elState, esState, queue, batch, ready, connVars>>
    BY <1>1 DEF RunTimers, LoopRuns
  <2>2. stack' = stack \/ (\E fd \in Fds \cup {None} : stack' = Append(stack, Plain(fd)))
    <3>1. <<Plain(None)>> = Append(<<>>, Plain(None))  OBVIOUS
    <3> QED  BY <2>1, <3>1
  <2> QED
    BY <2>1, <2>2, RunKeeps DEF IInv, TypeOK, connVars, IterationInv,
       CloseIsScheduledOnce
<1>2. CASE ResetDelayedQueue
  <2>1. /\ phase = "timers" /\ phase' = "delayed"
        /\ batch' = queue /\ queue' = {}
        /\ UNCHANGED <<elState, esState, ready, connVars, stack>>
    BY <1>2 DEF ResetDelayedQueue, LoopRuns
  <2>2. batch = {}  BY <2>1 DEF IInv, IterationInv
  <2> QED
    BY <2>1, <2>2, RunKeeps DEF IInv, TypeOK, connVars, CloseIsScheduledOnce,
       IterationInv
<1>3. ASSUME NEW c \in Fds \cup Cells, ExecuteDelayed(c) PROVE IInv'
  <2>1. /\ phase = "delayed" /\ stack = <<>> /\ c \in batch
        /\ batch' = batch \ {c}
        /\ UNCHANGED <<elState, esState, queue, phase, ready>>
    BY <1>3 DEF ExecuteDelayed, LoopRuns
  <2>2. CASE c \in Fds
    <3>1. BeginClose(c)  BY <1>3, <2>2 DEF ExecuteDelayed
    <3>2. owner[c] # None /\ c \in closing
      BY <2>1, <2>2 DEF IInv, CloseIsScheduledOnce, Registered
    <3> QED  BY <2>1, <2>2, <3>1, <3>2, BeginCloseKeeps
  <2>3. CASE c \notin Fds
    <3>1. stack' = Append(stack, Plain(None)) /\ UNCHANGED connVars
      BY <1>3, <2>3 DEF ExecuteDelayed, Push
    <3>2. /\ (queue' \cup batch') \cap Fds = closing /\ queue' \cap batch' = {}
          /\ queue' \subseteq Fds \cup Cells /\ batch' \subseteq Fds \cup Cells
      BY <2>1, <2>3 DEF IInv, TypeOK, CloseIsScheduledOnce
    <3>3. \E fd \in Fds \cup {None} : stack' = Append(stack, Plain(fd))
      BY <3>1
    <3> QED
      BY <2>1, <3>1, <3>2, <3>3, RunKeeps DEF IInv, TypeOK, connVars,
         IterationInv
  <2> QED  BY <2>2, <2>3
<1>4. CASE Select
  <2>1. /\ batch = {} /\ phase' = "poll" /\ ready' \subseteq Registered
        /\ todo' = Registered /\ asked' = Registered
        /\ UNCHANGED <<elState, esState, queue, batch, socket, owner, kind,
                       closing, stack, told>>
    BY <1>4 DEF Select
  <2>2. Registered \subseteq Fds  BY DEF Registered
  <2> QED
    BY <2>1, <2>2, RunKeeps DEF IInv, TypeOK, CloseIsScheduledOnce
<1>5. ASSUME NEW fd \in Fds, Skip(fd) PROVE IInv'
  BY <1>5, RunKeeps DEF Skip, IInv, TypeOK, pollVars, IterationInv,
     CloseIsScheduledOnce
<1>6. ASSUME NEW fd \in Fds, Receive(fd) PROVE IInv'
  <2>1. /\ kind' = [kind EXCEPT ![fd] = IF @ = "connecting" THEN "stream" ELSE @]
        /\ told' = [told EXCEPT ![fd] = "established"]
        /\ todo' = todo \ {fd}
        /\ stack' = Append(stack, Plain(fd))
        /\ UNCHANGED <<elState, esState, queue, pollVars, socket, owner,
                       closing, asked>>
    BY <1>6 DEF Receive, Push
  <2>2. /\ kind' \in [Fds -> Kinds]
        /\ told' \in [Fds -> {"none", "opening", "established", "closing"}]
    BY <2>1 DEF IInv, TypeOK, Kinds
  <2>3. \E new \in Fds \cup {None} : stack' = Append(stack, Plain(new))
    BY <2>1
  <2> QED
    BY <2>1, <2>2, <2>3, RunKeeps DEF IInv, TypeOK, pollVars,
       IterationInv, CloseIsScheduledOnce
<1>7. ASSUME NEW fd \in Fds, NEW new \in Fds, Accept(fd, new) PROVE IInv'
  <2>1. /\ kind[fd] = "listen" /\ new \notin socket /\ socket' = socket \cup {new}
        /\ owner' = [owner EXCEPT ![new] = owner[fd]]
        /\ kind' = [kind EXCEPT ![new] = "stream"]
        /\ told' = [told EXCEPT ![new] = "established"]
        /\ todo' = (todo \ {fd}) \cup {new}
        /\ stack' = Append(stack, Plain(new))
        /\ UNCHANGED <<elState, esState, queue, pollVars, closing, asked>>
    BY <1>7 DEF Accept, Push
  <2>2. fd \in Registered
    BY <1>7 DEF Accept, Looked, IInv, IterationInv
  <2>3. PICK mine \in Sources : mine = owner[fd]
    BY <2>2 DEF Registered, IInv, TypeOK
  <2>4. Of(mine) # {}  BY <2>3 DEF Of
  <2>5. esState[mine] \in {"STARTED", "STOPPING"}
    BY <2>4 DEF IInv, TypeOK, SourceStates, StoppedSourceHasNoConnections
  <2>6. Plain(new) \in Frames /\ Plain(new).what = "plain"
    BY DEF Plain, Frames
  <2>7. "stream" \in Kinds  BY DEF Kinds
  <2>8. owner' = [owner EXCEPT ![new] = mine]  BY <2>1, <2>3
  <2>9. todo' \subseteq todo \cup {new}  BY <2>1
  <2> QED  BY <2>1, <2>5, <2>6, <2>7, <2>8, <2>9, NewConnectionKeeps
<1>8. ASSUME NEW fd \in Fds, Fail(fd) PROVE IInv'
  <2>1. /\ phase = "poll" /\ stack = <<>> /\ fd \in todo /\ fd \notin closing
        /\ UNCHANGED <<elState, esState, pollVars>>
    BY <1>8 DEF Fail, Looked, LoopRuns, IsProcessed
  <2>2. fd \in Registered /\ owner[fd] # None /\ batch = {}
    BY <2>1 DEF IInv, IterationInv, Registered
  <2>3. CASE ClosesAtOnce(owner[fd])
    <3>1. BeginClose(fd) /\ queue' = queue  BY <1>8, <2>3 DEF Fail
    <3>2. batch' = batch \ {fd} /\ (fd \in closing <=> fd \in batch)
      BY <2>1, <2>2 DEF pollVars
    <3>3. UNCHANGED <<elState, esState, queue, phase, ready>>
      BY <2>1, <3>1 DEF pollVars
    <3> QED  BY <2>1, <2>2, <3>1, <3>2, <3>3, BeginCloseKeeps
  <2>4. CASE ~ ClosesAtOnce(owner[fd])
    <3>1. /\ Shutdown({fd}) /\ todo' = todo \ {fd}
          /\ UNCHANGED <<socket, owner, kind, asked, stack, told>>
      BY <1>8, <2>4 DEF Fail
    <3>2. StoppedSourceHasNoConnections' /\ StoppedLoopHasStoppedSources'
      BY <2>1, <3>1 DEF IInv, StoppedSourceHasNoConnections, Of,
         StoppedLoopHasStoppedSources
    <3>3. elState' \in LoopStates /\ esState' \in [Sources -> SourceStates]
      BY <2>1 DEF IInv, TypeOK
    <3>4. {fd} \in SUBSET Registered /\ todo' \subseteq todo
      BY <2>2, <3>1
    <3> QED  BY <2>1, <3>1, <3>2, <3>3, <3>4, ShutdownKeeps
  <2> QED  BY <2>3, <2>4
<1>9. CASE EndRun
  <2>1. /\ phase = "poll" /\ phase' = "idle" /\ ready' = {} /\ asked' = {}
        /\ UNCHANGED <<esState, queue, batch, socket, owner, kind, closing,
                       todo, stack, told>>
    BY <1>9 DEF EndRun, LoopRuns
  <2>2. batch = {}  BY <2>1 DEF IInv, IterationInv
  <2>3. /\ elState' \in LoopStates
        /\ \/ elState' = elState
           \/ \A es \in Sources : esState[es] \in {"FRESH", "STOPPED"}
    BY <1>9 DEF EndRun, LoopAfterCheck, LoopStates, IInv, TypeOK
  <2>4. StoppedLoopHasStoppedSources'
    BY <2>1, <2>3 DEF IInv, StoppedLoopHasStoppedSources
  <2>5. TypeOK'  BY <2>1, <2>3 DEF IInv, TypeOK
  <2>6. /\ CloseIsScheduledOnce' /\ StoppedSourceHasNoConnections'
        /\ ClosingCallIsBottom' /\ ListenCallIsRegistered' /\ IterationInv'
    BY <2>1, <2>2 DEF IInv, CloseIsScheduledOnce, Registered, Of,
       StoppedSourceHasNoConnections, ClosingCallIsBottom,
       ListenCallIsRegistered, IterationInv
  <2> QED  BY <2>4, <2>5, <2>6 DEF IInv
<1> QED
  BY <1>1, <1>2, <1>3, <1>4, <1>5, <1>6, <1>7, <1>8, <1>9 DEF Run, Visit

\* Every step keeps the invariant.
LEMMA NextIInv == IInv /\ [Next]_vars => IInv'
<1> SUFFICES ASSUME IInv, [Next]_vars PROVE IInv'  OBVIOUS
<1>1. CASE UNCHANGED vars
  BY <1>1 DEF vars, IInv, TypeOK, CloseIsScheduledOnce, Registered, Of,
     StoppedSourceHasNoConnections, StoppedLoopHasStoppedSources,
     ClosingCallIsBottom, ListenCallIsRegistered, IterationInv
<1>2. CASE Next
  BY <1>2, ApplicationKeeps, ResumeKeeps, IterationKeeps DEF Next
<1> QED  BY <1>1, <1>2

-----------------------------------------------------------------------------
\* The inductive invariant holds in every reachable state.
THEOREM Invariance == Spec => []IInv
<1> QED  BY InitIInv, NextIInv, PTL DEF Spec

\* Every variable keeps its type.
THEOREM TypeCorrect == Spec => []TypeOK
<1>1. IInv => TypeOK  BY DEF IInv
<1> QED  BY <1>1, Invariance, PTL

\* A connection is never scheduled twice for its close, and is registered with
\* an open socket until the close is executed.
THEOREM ClosedOnce == Spec => []CloseIsScheduledOnce
<1>1. IInv => CloseIsScheduledOnce  BY DEF IInv
<1> QED  BY <1>1, Invariance, PTL

\* A source that may be deregistered has no registered connection.
THEOREM SourceStopsLast == Spec => []StoppedSourceHasNoConnections
<1>1. IInv => StoppedSourceHasNoConnections  BY DEF IInv
<1> QED  BY <1>1, Invariance, PTL

\* When the loop is stopped or freed, so are its sources.
THEOREM LoopStopsLast == Spec => []StoppedLoopHasStoppedSources
<1>1. IInv => StoppedLoopHasStoppedSources  BY DEF IInv
<1> QED  BY <1>1, Invariance, PTL
=============================================================================
