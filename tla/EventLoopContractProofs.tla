------------------------ MODULE EventLoopContractProofs ------------------------
(***************************************************************************)
(* EventLoop implements ConnectionContract; and what a stop of an event    *)
(* source leaves open.  Both for every value of the constants.             *)
(***************************************************************************)
EXTENDS EventLoopProofs

\* The callbacks that a stack of calls stands for.
Calls(s) == [i \in DOMAIN s |-> s[i].fd]

\* What the application was told of a connection against what the loop knows.
ToldInv ==
  /\ \A fd \in Fds : told[fd] \in {"opening", "established"} <=> owner[fd] # None
  /\ \A fd \in Fds : told[fd] = "none" <=> fd \notin socket

\* The connection whose callback returns is told to close iff the frame says so.
CloseFrameInv ==
  \A i \in DOMAIN stack :
    stack[i].what = "close" <=> stack[i].fd \in Fds /\ told[stack[i].fd] = "closing"

RInv == IInv /\ ToldInv /\ CloseFrameInv

-----------------------------------------------------------------------------
(* The callbacks of a stack that grows or shrinks.                         *)

LEMMA CallsAppend ==
  ASSUME NEW s \in Seq(Frames), NEW f \in Frames
  PROVE  Calls(Append(s, f)) = Append(Calls(s), f.fd)
  BY DEF Calls

LEMMA CallsPop ==
  ASSUME stack \in Seq(Frames), stack # <<>>
  PROVE  /\ Calls(stack) # <<>>
         /\ Calls(Pop) = SubSeq(Calls(stack), 1, Len(Calls(stack)) - 1)
         /\ Calls(stack)[Len(Calls(stack))] = Top.fd
  BY DEF Calls, Pop, Top

-----------------------------------------------------------------------------
(* Every kind of step keeps ToldInv and CloseFrameInv and is a step of the *)
(* contract, or none at all.                                               *)

LEMMA InitRefines == Init => ToldInv /\ CloseFrameInv /\ Contract!Init
<1> SUFFICES ASSUME Init PROVE ToldInv /\ CloseFrameInv /\ Contract!Init
  OBVIOUS
<1>1. ToldInv /\ CloseFrameInv
  BY DEF Init, ToldInv, CloseFrameInv
<1>2. Calls(stack) = <<>>  BY DEF Init, Calls
<1> QED  BY <1>1, <1>2 DEF Init, Contract!Init, Calls

\* A new connection is announced.
LEMMA NewConnectionRefines ==
  ASSUME RInv,
         NEW fd \in Fds, NEW es \in Sources,
         NEW state \in {"opening", "established"},
         NEW base, NEW f \in Frames,
         base = stack \/ (stack # <<>> /\ base = Pop),
         f.what \in {"plain", "listen"}, f.fd = fd,
         fd \notin socket,
         socket' = socket \cup {fd},
         owner' = [owner EXCEPT ![fd] = es],
         told' = [told EXCEPT ![fd] = state],
         stack' = Append(base, f),
         closing' = closing
  PROVE  ToldInv' /\ CloseFrameInv' /\ Contract!Next
<1> USE EventLoopAssumption
<1>1. /\ stack \in Seq(Frames) /\ base \in Seq(Frames)
      /\ \A i \in DOMAIN base : i \in DOMAIN stack /\ base[i] = stack[i]
  BY PopFacts DEF RInv, IInv, TypeOK
<1>2. \A i \in DOMAIN stack' :
        \/ i \in DOMAIN stack /\ stack'[i] = stack[i]
        \/ stack'[i] = f
  BY <1>1, AppendFacts
<1>3. /\ told \in [Fds -> {"none", "opening", "established", "closing"}]
      /\ owner \in [Fds -> Sources \cup {None}]
      /\ told[fd] = "none"
  BY DEF RInv, IInv, TypeOK, ToldInv
<1>4. ToldInv'  BY <1>3 DEF RInv, ToldInv
<1>5. CloseFrameInv'  BY <1>2, <1>3 DEF RInv, CloseFrameInv
<1>6. /\ Calls(stack') = Append(Calls(base), fd)
      /\ \/ Calls(base) = Calls(stack)
         \/ /\ Calls(stack) # <<>>
            /\ Calls(base) = SubSeq(Calls(stack), 1, Len(Calls(stack)) - 1)
  BY <1>1, CallsAppend, CallsPop
<1>7. Contract!Announce(fd)
  BY <1>3, <1>6
  DEF Contract!Announce, Contract!Returned, Contract!Front, Calls
<1> QED  BY <1>4, <1>5, <1>7 DEF Contract!Next

\* The loop calls the application for an event of a connection, or for
\* something that is not a connection.
LEMMA EventRefines ==
  ASSUME RInv, stack = <<>>,
         NEW fd \in Fds, fd \in Registered, fd \notin closing,
         told' = [told EXCEPT ![fd] = "established"],
         stack' = Append(stack, Plain(fd)),
         UNCHANGED <<socket, owner, closing>>
  PROVE  ToldInv' /\ CloseFrameInv' /\ Contract!Next
<1>1. /\ Plain(fd) \in Frames /\ Plain(fd).fd = fd /\ Plain(fd).what = "plain"
      /\ stack \in Seq(Frames)
      /\ told \in [Fds -> {"none", "opening", "established", "closing"}]
  BY EventLoopAssumption DEF Plain, Frames, RInv, IInv, TypeOK
<1>2. /\ told[fd] \in {"opening", "established"} /\ fd \in socket
  BY DEF RInv, ToldInv, Registered, IInv, CloseIsScheduledOnce
<1>3. ToldInv'  BY <1>1, <1>2 DEF RInv, ToldInv, Registered
<1>4. DOMAIN stack' = {1} /\ stack'[1] = Plain(fd)  BY <1>1
<1>5. CloseFrameInv'  BY <1>1, <1>4 DEF CloseFrameInv
<1>6. Calls(stack') = Append(Calls(stack), fd)  BY <1>1, CallsAppend
<1>7. Contract!Event(fd)
  BY <1>2, <1>6 DEF Contract!Event, Contract!Live, Calls
<1> QED  BY <1>3, <1>5, <1>7 DEF Contract!Next

LEMMA OtherCallbackRefines ==
  ASSUME RInv, stack = <<>>,
         stack' = Append(stack, Plain(None)),
         UNCHANGED <<told, socket, owner, closing>>
  PROVE  ToldInv' /\ CloseFrameInv' /\ Contract!Next
<1>1. /\ Plain(None) \in Frames /\ Plain(None).fd = None
      /\ Plain(None).what = "plain" /\ stack \in Seq(Frames)
  BY EventLoopAssumption DEF Plain, Frames, RInv, IInv, TypeOK
<1>2. ToldInv'  BY DEF RInv, ToldInv
<1>3. DOMAIN stack' = {1} /\ stack'[1] = Plain(None)  BY <1>1
<1>4. CloseFrameInv'
  BY <1>1, <1>3, EventLoopAssumption DEF CloseFrameInv
<1>5. Calls(stack') = Append(Calls(stack), None)  BY <1>1, CallsAppend
<1>6. Contract!OtherCallback  BY <1>5 DEF Contract!OtherCallback, Calls
<1> QED  BY <1>2, <1>4, <1>6 DEF Contract!Next

\* Connections that are registered are scheduled to be closed.
LEMMA ShutdownRefines ==
  ASSUME RInv,
         NEW S \in SUBSET Registered,
         Shutdown(S),
         UNCHANGED <<socket, owner, stack, told>>
  PROVE  ToldInv' /\ CloseFrameInv' /\ Contract!Next
<1>1. ToldInv' /\ CloseFrameInv'  BY DEF RInv, ToldInv, CloseFrameInv
<1>2. closing' = closing \cup (S \ closing)  BY DEF Shutdown, ToShutDown
<1>3. S \in SUBSET Fds /\ \A fd \in S : told[fd] \in {"opening", "established"}
  BY DEF RInv, ToldInv, Registered
<1>4. Contract!RequestClose(S)
  BY <1>2, <1>3 DEF Contract!RequestClose, Contract!Live, Calls
<1> QED  BY <1>1, <1>3, <1>4 DEF Contract!Next

\* The CLOSING callback of a connection.
LEMMA BeginCloseRefines ==
  ASSUME RInv, stack = <<>>,
         NEW fd \in Fds, fd \in Registered,
         BeginClose(fd)
  PROVE  ToldInv' /\ CloseFrameInv' /\ Contract!Next
<1>1. /\ owner' = [owner EXCEPT ![fd] = None]
      /\ closing' = closing \ {fd}
      /\ told' = [told EXCEPT ![fd] = "closing"]
      /\ stack' = Append(stack, CloseFrame(fd))
      /\ socket' = socket
  BY DEF BeginClose, Push
<1>2. /\ stack \in Seq(Frames) /\ owner[fd] \in Sources
      /\ told \in [Fds -> {"none", "opening", "established", "closing"}]
      /\ owner \in [Fds -> Sources \cup {None}]
      /\ told[fd] \in {"opening", "established"} /\ fd \in socket
  BY DEF RInv, IInv, TypeOK, ToldInv, Registered, CloseIsScheduledOnce
<1>3. /\ CloseFrame(fd) \in Frames /\ CloseFrame(fd).fd = fd
      /\ CloseFrame(fd).what = "close"
  <2>1. 0 \in 0..(MaxAddrs - 1)  BY EventLoopAssumption
  <2> QED  BY <1>2, <2>1 DEF CloseFrame, Frames
<1>4. ToldInv'  BY <1>1, <1>2 DEF RInv, ToldInv
<1>5. DOMAIN stack' = {1} /\ stack'[1] = CloseFrame(fd)  BY <1>1, <1>2, <1>3
<1>6. CloseFrameInv'  BY <1>1, <1>2, <1>3, <1>5 DEF CloseFrameInv
<1>7. Calls(stack') = Append(Calls(stack), fd)
  BY <1>1, <1>2, <1>3, CallsAppend
<1>8. Contract!Close(fd)
  BY <1>1, <1>2, <1>7 DEF Contract!Close, Contract!Live, Calls
<1> QED  BY <1>4, <1>6, <1>8 DEF Contract!Next

\* A callback returns to its caller.
LEMMA ReturnRefines ==
  ASSUME RInv, Return
  PROVE  ToldInv' /\ CloseFrameInv' /\ Contract!Next
<1>1. /\ stack # <<>> /\ stack' = Pop /\ stack \in Seq(Frames)
      /\ owner' = owner /\ closing' = closing
      /\ told \in [Fds -> {"none", "opening", "established", "closing"}]
      /\ socket \subseteq Fds
  BY DEF Return, RInv, IInv, TypeOK
<1>2. /\ Len(stack) \in DOMAIN stack
      /\ DOMAIN Pop = 1..(Len(stack) - 1)
      /\ \A i \in DOMAIN Pop : i \in DOMAIN stack /\ Pop[i] = stack[i]
  BY <1>1, PopFacts
<1>3. Top.what = "close" <=> Top.fd \in Fds /\ told[Top.fd] = "closing"
  BY <1>2 DEF RInv, CloseFrameInv, Top
<1>4. PICK fd : fd = Top.fd  OBVIOUS
<1>5. told' = [x \in Fds |->
        IF x = fd /\ told[x] = "closing" THEN "none" ELSE told[x]]
  <2>1. CASE Top.what = "close"
    <3>1. told' = [told EXCEPT ![fd] = "none"]  BY <1>4, <2>1 DEF Return
    <3>2. fd \in Fds /\ told[fd] = "closing"  BY <1>3, <1>4, <2>1
    <3> QED  BY <1>1, <3>1, <3>2
  <2>2. CASE Top.what # "close"
    <3>1. told' = told  BY <2>2 DEF Return
    <3>2. ~ (fd \in Fds /\ told[fd] = "closing")  BY <1>3, <1>4, <2>2
    <3> QED  BY <1>1, <3>1, <3>2
  <2> QED  BY <2>1, <2>2
<1>6. ToldInv'
  <2>1. CASE Top.what = "close"
    <3>1. socket' = socket \ {fd}  BY <1>4, <2>1 DEF Return
    <3>2. fd \in Fds /\ told[fd] = "closing"  BY <1>3, <1>4, <2>1
    <3> QED  BY <1>1, <1>5, <3>1, <3>2 DEF RInv, ToldInv
  <2>2. CASE Top.what # "close"
    BY <1>1, <2>2 DEF Return, RInv, ToldInv
  <2> QED  BY <2>1, <2>2
<1>7. CloseFrameInv'
  <2>1. CASE Top.what = "close"
    <3>1. Len(stack) = 1
      BY <1>2, <2>1 DEF RInv, IInv, ClosingCallIsBottom, Top
    <3> QED  BY <1>1, <1>2, <3>1 DEF CloseFrameInv
  <2>2. CASE Top.what # "close"
    BY <1>1, <1>2, <2>2 DEF Return, RInv, CloseFrameInv
  <2> QED  BY <2>1, <2>2
<1>8. /\ Calls(stack) # <<>>
      /\ Calls(stack') = SubSeq(Calls(stack), 1, Len(Calls(stack)) - 1)
      /\ Calls(stack)[Len(Calls(stack))] = fd
  BY <1>1, <1>4, CallsPop
<1>9. Contract!Return
  BY <1>1, <1>5, <1>8 DEF Contract!Return, Contract!Front, Calls
<1> QED  BY <1>6, <1>7, <1>9 DEF Contract!Next

\* Nothing that the contract speaks of changes.
LEMMA StutterRefines ==
  ASSUME RInv, UNCHANGED <<told, socket, owner, closing, stack>>
  PROVE  ToldInv' /\ CloseFrameInv' /\ UNCHANGED Contract!vars
  BY DEF RInv, ToldInv, CloseFrameInv, Contract!vars

-----------------------------------------------------------------------------
LEMMA NextRefines ==
  RInv /\ [Next]_vars => ToldInv' /\ CloseFrameInv' /\ [Contract!Next]_(Contract!vars)
<1> SUFFICES ASSUME RInv, [Next]_vars
             PROVE  ToldInv' /\ CloseFrameInv' /\ [Contract!Next]_(Contract!vars)
  OBVIOUS
<1> DEFINE Goal == ToldInv' /\ CloseFrameInv' /\ [Contract!Next]_(Contract!vars)
<1> USE EventLoopAssumption
<1>1. ASSUME UNCHANGED <<told, socket, owner, closing, stack>> PROVE Goal
  BY <1>1, StutterRefines
<1>2. ASSUME NEW fd \in Fds, NEW es \in Sources, NEW k,
             NEW state \in {"opening", "established"},
             NEW base, NEW f \in Frames,
             base = stack \/ (stack # <<>> /\ base = Pop),
             f.what \in {"plain", "listen"}, f.fd = fd,
             Connect(fd, es, k, state, <<base, f>>)
      PROVE  Goal
  BY <1>2, NewConnectionRefines DEF Connect
<1>3. CASE UNCHANGED vars  BY <1>1, <1>3 DEF vars
<1>4. CASE Application
  <2>1. ASSUME NEW es \in Sources, NEW fd \in Fds,
               OpenActive(es, fd) \/ OpenSend(es, fd)
        PROVE  Goal
    <3>1. Plain(fd) \in Frames /\ Plain(fd).what = "plain" /\ Plain(fd).fd = fd
      BY DEF Plain, Frames
    <3>2. CASE OpenActive(es, fd)  BY <3>1, <3>2, <1>2 DEF OpenActive
    <3>3. CASE OpenSend(es, fd)  BY <3>1, <3>3, <1>2 DEF OpenSend
    <3> QED  BY <2>1, <3>2, <3>3
  <2>2. ASSUME NEW es \in Sources, NEW fd \in Fds, NEW left \in 0..(MaxAddrs - 1),
               OpenPassive(es, fd, left) \/ OpenReceive(es, fd, left)
        PROVE  Goal
    <3>1. /\ ListenFrame(fd, es, left) \in Frames
          /\ ListenFrame(fd, es, left).what = "listen"
          /\ ListenFrame(fd, es, left).fd = fd
      BY DEF ListenFrame, Frames
    <3>2. PICK k : Listen(es, fd, k, left)
      BY <2>2 DEF OpenPassive, OpenReceive
    <3> QED  BY <3>1, <3>2, <1>2 DEF Listen
  <2>3. CASE StartLoop  BY <2>3, <1>1 DEF StartLoop, connVars
  <2>4. ASSUME NEW S \in SUBSET Sources, StopSources(S),
               UNCHANGED <<socket, owner, stack, told>>
        PROVE  Goal
    <3>1. {fd \in Fds : owner[fd] \in S} \in SUBSET Registered
      BY DEF Registered
    <3> QED  BY <2>4, <3>1, ShutdownRefines DEF StopSources
  <2>5. CASE StopLoop  BY <2>5, <2>4 DEF StopLoop
  <2>6. CASE FreeLoop  BY <2>6, <1>1 DEF FreeLoop, connVars
  <2>7. ASSUME NEW es \in Sources, StopSource(es) PROVE Goal
    BY <2>7, <2>4 DEF StopSource
  <2>8. ASSUME NEW es \in Sources, RegisterSource(es) \/ DeregisterSource(es)
        PROVE  Goal
    BY <2>8, <1>1 DEF RegisterSource, DeregisterSource, connVars
  <2>9. ASSUME NEW fd \in Fds, CloseConnection(fd) PROVE Goal
    BY <2>9, ShutdownRefines DEF CloseConnection
  <2>10. ASSUME NEW c \in Cells, AddDelayed(c) PROVE Goal
    BY <2>10, <1>1 DEF AddDelayed, connVars
  <2> QED
    BY <1>4, <2>1, <2>2, <2>3, <2>5, <2>6, <2>7, <2>8, <2>9, <2>10
    DEF Application, Open, Lifecycle
<1>5. CASE Resume
  <2>1. CASE Return  BY <2>1, ReturnRefines
  <2>2. ASSUME NEW fd \in Fds, NEW left \in 0..(MaxAddrs - 1), NEW k,
               InListen, ListenNext(fd, k, left)
        PROVE  Goal
    <3>1. stack # <<>> /\ Top.what = "listen" /\ Len(stack) \in DOMAIN stack
      BY <2>2, PopFacts DEF InListen, RInv, IInv, TypeOK
    <3>2. PICK mine \in Sources : mine = Top.es
      BY <3>1 DEF RInv, IInv, TypeOK, Top
    <3>3. /\ ListenFrame(fd, mine, left) \in Frames
          /\ ListenFrame(fd, mine, left).what = "listen"
          /\ ListenFrame(fd, mine, left).fd = fd
      BY DEF ListenFrame, Frames
    <3>4. Connect(fd, mine, k, "established", <<Pop, ListenFrame(fd, mine, left)>>)
      BY <2>2, <3>2 DEF ListenNext
    <3> QED  BY <3>1, <3>3, <3>4, <1>2
  <2> QED  BY <1>5, <2>1, <2>2 DEF Resume, NextPassive, NextReceive
<1>6. CASE Run
  <2>1. CASE RunTimers
    <3>1. /\ stack = <<>>
          /\ stack' \in {<<>>, <<Plain(None)>>}
          /\ UNCHANGED <<told, socket, owner, closing>>
      BY <2>1 DEF RunTimers, LoopRuns, connVars
    <3>2. CASE stack' = <<>>  BY <3>1, <3>2, <1>1
    <3>3. CASE stack' = <<Plain(None)>>
      <4>1. <<Plain(None)>> = Append(<<>>, Plain(None))  OBVIOUS
      <4>2. stack' = Append(stack, Plain(None))  BY <3>1, <3>3, <4>1
      <4> QED  BY <3>1, <4>2, OtherCallbackRefines
    <3> QED  BY <3>1, <3>2, <3>3
  <2>2. CASE ResetDelayedQueue  BY <2>2, <1>1 DEF ResetDelayedQueue, connVars
  <2>3. CASE Select  BY <2>3, <1>1 DEF Select
  <2>4. CASE EndRun  BY <2>4, <1>1 DEF EndRun
  <2>5. ASSUME NEW c \in Fds \cup Cells, ExecuteDelayed(c) PROVE Goal
    <3>1. stack = <<>> /\ c \in batch  BY <2>5 DEF ExecuteDelayed, LoopRuns
    <3>2. CASE c \in Fds
      <4>1. c \in Registered
        BY <3>1, <3>2 DEF RInv, IInv, CloseIsScheduledOnce
      <4> QED  BY <2>5, <3>1, <3>2, <4>1, BeginCloseRefines DEF ExecuteDelayed
    <3>3. CASE c \notin Fds
      BY <2>5, <3>1, <3>3, OtherCallbackRefines DEF ExecuteDelayed, connVars, Push
    <3> QED  BY <3>2, <3>3
  <2>6. ASSUME NEW fd \in Fds, Skip(fd) PROVE Goal
    BY <2>6, <1>1 DEF Skip
  <2>7. ASSUME NEW fd \in Fds, Looked(fd) PROVE fd \in Registered /\ stack = <<>>
    BY <2>7 DEF Looked, LoopRuns, RInv, IInv, IterationInv
  <2>8. ASSUME NEW fd \in Fds, Receive(fd) PROVE Goal
    BY <2>8, <2>7, EventRefines DEF Receive, IsProcessed, Push
  <2>9. ASSUME NEW fd \in Fds, NEW new \in Fds, Accept(fd, new) PROVE Goal
    <3>1. PICK mine \in Sources : mine = owner[fd]
      BY <2>9, <2>7 DEF Accept, Registered, RInv, IInv, TypeOK
    <3>2. Plain(new) \in Frames /\ Plain(new).what = "plain" /\ Plain(new).fd = new
      BY DEF Plain, Frames
    <3>3. /\ new \notin socket /\ socket' = socket \cup {new}
          /\ owner' = [owner EXCEPT ![new] = mine]
          /\ told' = [told EXCEPT ![new] = "established"]
          /\ stack' = Append(stack, Plain(new)) /\ closing' = closing
      BY <2>9, <3>1 DEF Accept, Push
    <3> QED  BY <3>2, <3>3, NewConnectionRefines
  <2>10. ASSUME NEW fd \in Fds, Fail(fd) PROVE Goal
    <3>1. fd \in Registered /\ stack = <<>>  BY <2>10, <2>7 DEF Fail
    <3>2. CASE ClosesAtOnce(owner[fd])
      BY <2>10, <3>1, <3>2, BeginCloseRefines DEF Fail
    <3>3. CASE ~ ClosesAtOnce(owner[fd])
      BY <2>10, <3>1, <3>3, ShutdownRefines DEF Fail
    <3> QED  BY <3>2, <3>3
  <2> QED
    BY <1>6, <2>1, <2>2, <2>3, <2>4, <2>5, <2>6, <2>8, <2>9, <2>10
    DEF Run, Visit
<1> QED  BY <1>3, <1>4, <1>5, <1>6 DEF Next

\* The managers implement the contract between a connection manager and the
\* application, for any number of connections, sources and nested callbacks:
\* in particular no callback for a connection follows its CLOSING callback, and
\* none but that one follows its closeConnection.
THEOREM ImplementsContract == Spec => ContractSpec
<1>1. Init => RInv /\ Contract!Init  BY InitIInv, InitRefines DEF RInv
<1>2. RInv /\ [Next]_vars => RInv' /\ [Contract!Next]_(Contract!vars)
  BY NextIInv, NextRefines DEF RInv
<1> QED  BY <1>1, <1>2, PTL DEF Spec, ContractSpec, Contract!Spec

-----------------------------------------------------------------------------
(* What a stop leaves open.                                                *)

\* The connections that this step leaves open in sources that are not started are
\* those that the property allows.
OpensKnown ==
  \A fd \in Unreached' \ Unreached :
    ListenGoesOn(owner'[fd]) \/ LateListener(owner'[fd])

LEMMA StoppingStep ==
  ASSUME IInv, Next
  PROVE  OpensKnown
<1> USE EventLoopAssumption
<1> DEFINE Goal == OpensKnown
<1>0. /\ closing \subseteq Registered /\ Registered \subseteq socket
      /\ owner \in [Fds -> Sources \cup {None}]
      /\ esState \in [Sources -> SourceStates]
      /\ todo \subseteq Registered
  BY DEF IInv, TypeOK, IterationInv, CloseIsScheduledOnce
<1>1. ASSUME UNCHANGED owner, closing \subseteq closing',
             \A es \in Sources : esState'[es] # "STARTED" =>
               esState[es] # "STARTED" \/ Of(es) \subseteq closing'
      PROVE  Goal
  <2>1. ASSUME NEW fd \in Unreached' PROVE fd \in Unreached
    <3>1. fd \in Registered /\ fd \notin closing' /\ owner[fd] \in Sources
      BY <1>0, <1>1, <2>1 DEF Unreached, Registered
    <3> QED  BY <1>1, <2>1, <3>1 DEF Unreached, Of, Registered
  <2> QED  BY <2>1 DEF OpensKnown
<1>2. ASSUME NEW fd \in Fds, NEW es \in Sources, fd \notin socket,
             esState[es] = "STARTED" \/ ListenGoesOn(es) \/ LateListener(es),
             owner' = [owner EXCEPT ![fd] = es],
             UNCHANGED <<closing, esState>>
      PROVE  Goal
  <2>1. owner'[fd] = es /\ \A x \in Fds : x # fd => owner'[x] = owner[x]
    BY <1>0, <1>2
  <2>2. ASSUME NEW x \in Unreached', x # fd PROVE x \in Unreached
    BY <1>2, <2>1, <2>2 DEF Unreached, Registered
  <2>3. fd \in Unreached' => esState[es] # "STARTED"
    BY <1>2, <2>1 DEF Unreached
  <2> QED  BY <1>2, <2>1, <2>2, <2>3 DEF OpensKnown
<1>3. ASSUME NEW fd \in Fds, BeginClose(fd), UNCHANGED esState PROVE Goal
  <2>1. /\ owner' = [owner EXCEPT ![fd] = None] /\ closing' = closing \ {fd}
        /\ esState' = esState
    BY <1>3 DEF BeginClose
  <2>2. owner'[fd] = None /\ \A x \in Fds : x # fd => owner'[x] = owner[x]
    BY <1>0, <2>1
  <2>3. ASSUME NEW x \in Unreached' PROVE x \in Unreached
    BY <2>1, <2>2, <2>3 DEF Unreached, Registered
  <2> QED  BY <2>3 DEF OpensKnown
<1>5. CASE Application
  <2>1. ASSUME NEW es \in Sources, NEW fd \in Fds,
               OpenActive(es, fd) \/ OpenSend(es, fd)
        PROVE  Goal
    BY <2>1, <1>2 DEF OpenActive, OpenSend, Connect, MayOpen
  <2>2. ASSUME NEW es \in Sources, NEW fd \in Fds, NEW left \in 0..(MaxAddrs - 1),
               OpenPassive(es, fd, left) \/ OpenReceive(es, fd, left)
        PROVE  Goal
    BY <2>2, <1>2 DEF OpenPassive, OpenReceive, Listen, Connect, MayOpen
  <2>3. CASE StartLoop
    <3>1. /\ UNCHANGED connVars
          /\ \A es \in Sources : esState'[es] \in {"STARTED", esState[es]}
      BY <2>3 DEF StartLoop
    <3> QED  BY <3>1, <1>1 DEF connVars
  <2>4. ASSUME NEW S \in SUBSET Sources, StopSources(S), UNCHANGED owner
        PROVE  Goal
    <3>1. /\ closing' = closing \cup ({fd \in Fds : owner[fd] \in S} \ closing)
          /\ \A es \in Sources : es \notin S => esState'[es] = esState[es]
      BY <2>4 DEF StopSources, Shutdown, ToShutDown
    <3>2. \A es \in S : Of(es) \subseteq closing'  BY <3>1 DEF Of
    <3> QED  BY <2>4, <3>1, <3>2, <1>1
  <2>5. CASE StopLoop  BY <2>5, <2>4 DEF StopLoop
  <2>6. CASE FreeLoop
    <3>1. UNCHANGED connVars /\ \A es \in Sources : esState[es] # "STARTED"
      BY <2>6 DEF FreeLoop, IInv, StoppedLoopHasStoppedSources
    <3> QED  BY <3>1, <1>1 DEF connVars
  <2>7. ASSUME NEW es \in Sources, StopSource(es) PROVE Goal
    BY <2>7, <2>4 DEF StopSource
  <2>8. ASSUME NEW es \in Sources, RegisterSource(es) PROVE Goal
    <3>1. PICK state \in {"STOPPED", "STARTED"} :
            esState' = [esState EXCEPT ![es] = state]
      BY <2>8 DEF RegisterSource
    <3>2. \A x \in Sources : esState'[x] # "STARTED" => esState[x] # "STARTED"
      BY <1>0, <2>8, <3>1 DEF RegisterSource
    <3> QED  BY <2>8, <3>2, <1>1 DEF RegisterSource, connVars
  <2>9. ASSUME NEW es \in Sources, DeregisterSource(es) PROVE Goal
    <3>1. \A x \in Sources : esState'[x] # "STARTED" => esState[x] # "STARTED"
      BY <1>0, <2>9 DEF DeregisterSource, MayDeregister
    <3> QED  BY <2>9, <3>1, <1>1 DEF DeregisterSource, connVars
  <2>10. ASSUME NEW fd \in Fds, CloseConnection(fd) PROVE Goal
    BY <2>10, <1>1 DEF CloseConnection, Shutdown
  <2>11. ASSUME NEW c \in Cells, AddDelayed(c) PROVE Goal
    BY <2>11, <1>1 DEF AddDelayed, connVars
  <2> QED
    BY <1>5, <2>1, <2>2, <2>3, <2>5, <2>6, <2>7, <2>8, <2>9, <2>10, <2>11
    DEF Application, Open, Lifecycle
<1>6. CASE Resume
  <2>1. CASE Return
    <3>1. /\ UNCHANGED <<owner, closing>>
          /\ \A es \in Sources : esState'[es] # "STARTED" => esState[es] # "STARTED"
      BY <1>0, <2>1 DEF Return, StateAfterCheck
    <3> QED  BY <3>1, <1>1
  <2>2. ASSUME NEW fd \in Fds, NEW left \in 0..(MaxAddrs - 1),
               NextPassive(fd, left) \/ NextReceive(fd, left)
        PROVE  Goal
    <3>1. /\ InListen /\ stack \in Seq(Frames) /\ Top.es \in Sources
      BY <2>2, PopFacts DEF NextPassive, NextReceive, InListen, IInv, TypeOK, Top
    <3>2. PICK es \in Sources : es = Top.es
      BY <3>1
    <3>3. /\ fd \notin socket /\ owner' = [owner EXCEPT ![fd] = es]
          /\ stack' = Append(Pop, ListenFrame(fd, es, left))
          /\ UNCHANGED <<closing, esState>>
      BY <2>2, <3>2 DEF NextPassive, NextReceive, ListenNext, Connect
    <3>4. Len(stack') = Len(stack)
      <4>1. Pop \in Seq(Frames) /\ Len(Pop) = Len(stack) - 1 /\ Len(stack) \in Nat
        BY <3>1, PopFacts DEF InListen
      <4>2. Len(Append(Pop, ListenFrame(fd, es, left))) = Len(Pop) + 1
        BY <4>1
      <4> QED  BY <3>3, <4>1, <4>2
    <3>5. ListenGoesOn(es)
      BY <3>1, <3>2, <3>4 DEF ListenGoesOn
    <3> QED  BY <3>3, <3>5, <1>2
  <2> QED  BY <1>6, <2>1, <2>2 DEF Resume
<1>7. CASE Run
  <2>1. CASE RunTimers  BY <2>1, <1>1 DEF RunTimers, connVars
  <2>2. CASE ResetDelayedQueue  BY <2>2, <1>1 DEF ResetDelayedQueue, connVars
  <2>3. CASE Select  BY <2>3, <1>1 DEF Select
  <2>4. CASE EndRun  BY <2>4, <1>1 DEF EndRun
  <2>5. ASSUME NEW c \in Fds \cup Cells, ExecuteDelayed(c) PROVE Goal
    <3>1. CASE c \in Fds  BY <2>5, <3>1, <1>3 DEF ExecuteDelayed
    <3>2. CASE c \notin Fds
      BY <2>5, <3>2, <1>1 DEF ExecuteDelayed, connVars
    <3> QED  BY <3>1, <3>2
  <2>6. ASSUME NEW fd \in Fds, Skip(fd) \/ Receive(fd) PROVE Goal
    BY <2>6, <1>1 DEF Skip, Receive
  <2>7. ASSUME NEW fd \in Fds, NEW new \in Fds, Accept(fd, new) PROVE Goal
    <3>1. fd \in Registered /\ fd \notin closing
      BY <1>0, <2>7 DEF Accept, Looked, IsProcessed
    <3>2. PICK mine \in Sources : mine = owner[fd]
      BY <1>0, <3>1 DEF Registered
    <3>3. fd \in Of(mine)  BY <3>2 DEF Of
    <3>4. esState[mine] = "STARTED" \/ LateListener(mine)
      BY <2>7, <3>1, <3>2 DEF Unreached, LateListener, Accept
    <3>5. /\ owner' = [owner EXCEPT ![new] = mine] /\ new \notin socket
          /\ UNCHANGED <<closing, esState>>
      BY <2>7, <3>2 DEF Accept
    <3> QED  BY <3>4, <3>5, <1>2
  <2>8. ASSUME NEW fd \in Fds, Fail(fd) PROVE Goal
    <3>1. CASE ClosesAtOnce(owner[fd])  BY <2>8, <3>1, <1>3 DEF Fail
    <3>2. CASE ~ ClosesAtOnce(owner[fd])
      BY <2>8, <3>2, <1>1 DEF Fail, Shutdown
    <3> QED  BY <3>1, <3>2
  <2> QED
    BY <1>7, <2>1, <2>2, <2>3, <2>4, <2>5, <2>6, <2>7, <2>8 DEF Run, Visit
<1> QED  BY <1>0, <1>5, <1>6, <1>7 DEF Next

\* A connection that stays open in a source that is not started is one for a further
\* address of a listen call that the stop has interrupted, or was accepted by a socket
\* that such a call has left listening.
THEOREM OpensOnlyWhenStarted == Spec => NoOpenWhileStopping
<1>1. IInv /\ [Next]_vars => [OpensKnown]_vars  BY StoppingStep
<1> QED
  BY <1>1, Invariance, PTL DEF Spec, NoOpenWhileStopping, OpensKnown
=============================================================================
