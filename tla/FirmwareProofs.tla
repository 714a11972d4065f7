--------------------------- MODULE FirmwareProofs ---------------------------
(***************************************************************************)
(* Proofs about the three programs, for any number of clients, masters and *)
(* registers: of each by itself, and of the board that runs one of them.   *)
(***************************************************************************)
EXTENDS Firmware, EthernetInitProofs

-----------------------------------------------------------------------------
(* The OPC UA probe.                                                       *)

\* The one server task that was created has set the flag, or the handler that
\* created it is about to.
StartInv ==
  /\ created \in {0, 1}
  /\ created = 1 => taskStarted \/ handler = "created"

LEMMA StartKept ==
  ASSUME StartInv, [OpcuaNext]_opcuaVars PROVE StartInv'
  <1>1. CASE GotIp
    BY <1>1 DEF GotIp, NotYetStarted, StartInv
  <1>2. CASE GotIpReturns
    BY <1>2 DEF GotIpReturns, StartInv
  <1>3. CASE UNCHANGED startVars
    BY <1>3 DEF startVars, StartInv
  <1>4. QED
    BY <1>1, <1>2, <1>3 DEF OpcuaNext, MainTask, AppendStep, EventTask, ServerStep, Clients,
       SetUp, MountFails, Mount, MountReturns, CreateLogger, OpenFails, WriteRow, CountRow,
       NextRow, AddNodes, StartUp, ServerFails, PublishStatus, PublishCount, PublishFails,
       ProcessCommand, NoCommand, IterateReturns, WriteCommand, WriteSimulated, opcuaVars,
       startVars

\* got_ip_event_handler creates one task for opcua_server_task at most.
THEOREM OneServerTaskEver == OpcuaSpec => []OneServerTask
  <1>1. OpcuaInit => StartInv
    BY DEF OpcuaInit, StartInv
  <1>2. StartInv => OneServerTask
    BY DEF StartInv, OneServerTask
  <1>3. QED
    BY <1>1, <1>2, StartKept, PTL DEF OpcuaSpec

\* A reset command in the node has been asked for by a client.
CommandInv == command = 1 => asked # {}

LEMMA CommandStep ==
  ASSUME CommandInv, [OpcuaNext]_opcuaVars
  PROVE  /\ CommandInv'
         /\ resets' # resets \/ (simulated # simulated' /\ simulated' = "initial") =>
              asked # {} /\ resets' = (resets + 1) % MaxResets
  <1>1. ASSUME NEW done \in SUBSET CommandNodes, ProcessCommand(done)
        PROVE  CommandInv' /\ asked # {} /\ resets' = (resets + 1) % MaxResets
    BY <1>1 DEF ProcessCommand, CommandAfterReset, CommandInv
  <1>2. CASE Clients
    BY <1>2 DEF Clients, WriteCommand, WriteSimulated, CommandInv
  <1>3. CASE UNCHANGED commandVars
    BY <1>3 DEF commandVars, CommandInv
  <1>4. QED
    BY <1>1, <1>2, <1>3 DEF OpcuaNext, MainTask, AppendStep, EventTask, ServerStep,
       SetUp, MountFails, Mount, MountReturns, CreateLogger, OpenFails, WriteRow, CountRow,
       NextRow, GotIp, GotIpReturns, AddNodes, StartUp, ServerFails, PublishStatus,
       PublishCount, PublishFails, NoCommand, IterateReturns, opcuaVars, nodeVars

\* process_command_nodes resets the probe only while the command of a client is
\* in its node and has not been taken back, whichever reads and writes fail.
THEOREM ResetsAskedEver == OpcuaSpec => ResetsAreAsked
  <1>1. OpcuaInit => CommandInv
    BY DEF OpcuaInit, CommandInv
  <1>2. CommandInv /\ [OpcuaNext]_opcuaVars =>
          CommandInv' /\
          [resets' # resets \/ (simulated # simulated' /\ simulated' = "initial") =>
             asked # {} /\ resets' = (resets + 1) % MaxResets]_opcuaVars
    BY CommandStep
  <1>3. QED
    BY <1>1, <1>2, PTL DEF OpcuaSpec, ResetsAreAsked

-----------------------------------------------------------------------------
(* The Modbus TCP probe.                                                   *)

\* A master is served if and only if there is a socket for it; the port has
\* one from bind on.
SocketInv ==
  /\ waiting \in Seq(Masters)
  /\ conn # NoMaster <=> task \in {"recv", "close"}
  /\ NoSocketLeaks

LEMMA SocketKept ==
  ASSUME SocketInv, [ModbusNext]_modbusVars PROVE SocketInv'
  <1> USE ModbusAssumption DEF SocketInv, NoSocketLeaks
  <1>1. CASE CreateTask
    BY <1>1 DEF CreateTask
  <1>2. CASE ListenStep
    BY <1>2 DEF ListenStep, OpenSocket, SocketFails, Bind, Listen, BindOrListenFails, Retry,
       DelayEnds
  <1>3. CASE AcceptFails
    BY <1>3 DEF AcceptFails
  <1>4. CASE Accept
    <2>1. Head(waiting) \in Masters /\ Tail(waiting) \in Seq(Masters)
      BY <1>4 DEF Accept
    <2>2. QED
      BY <1>4, <2>1 DEF Accept
  <1>5. CASE Recv \/ RecvEnds
    BY <1>5 DEF Recv, RecvEnds
  <1>6. CASE Close
    BY <1>6 DEF Close
  <1>7. ASSUME NEW m \in Masters, MasterStep(m) PROVE SocketInv'
    BY <1>7 DEF MasterStep, Connect, Receive, Leave, Send
  <1>8. CASE UNCHANGED modbusVars
    BY <1>8 DEF modbusVars
  <1>9. QED
    BY <1>1, <1>2, <1>3, <1>4, <1>5, <1>6, <1>7, <1>8 DEF ModbusNext, ServeStep

\* modbus_server_task closes every socket that it opens, through all errors.
THEOREM NoSocketLeaksEver == ModbusSpec => []NoSocketLeaks
  <1>1. ModbusInit => SocketInv
    BY DEF ModbusInit, SocketInv, NoSocketLeaks
  <1>2. SocketInv => NoSocketLeaks
    BY DEF SocketInv
  <1>3. QED
    BY <1>1, <1>2, SocketKept, PTL DEF ModbusSpec

\* What is sent as an answer: registers, none of them beyond the array.
AnswerType == [code : 0..3, values : Seq(RegValues)]

\* Types of the registers and of what is on the way; nothing is on the way for
\* a master without a connection.
WireInv ==
  /\ regs \in [0..RegCount - 1 -> RegValues]
  /\ conn \in Masters \cup {NoMaster}
  /\ state \in [Masters -> {"off", "open", "closed"}]
  /\ wire \in [Masters -> Seq(Part)]
  /\ replies \in [Masters -> Seq(AnswerType)]

\* Without a split all parts are whole requests.
WholeInv ==
  \A m \in Masters : m \notin torn =>
    \A k \in 1..Len(wire[m]) : wire[m][k].at = 0 /\ wire[m][k].length = Whole

FlagInv == torn \subseteq Masters /\ asks \subseteq Masters

LEMMA ExceptionCases ==
  ASSUME NEW r \in Requests, NEW length \in Nat
  PROVE  /\ Exception(length, r) \in 0..3
         /\ Exception(length, r) = 0 /\ r.function # 6 =>
              r.function = 3 /\ r.second \in 1..RegCount /\ r.first + r.second <= RegCount
         /\ Exception(length, r) = 0 /\ r.function = 6 => r.first \in 0..RegCount - 1
  <1>1. r \in Request
    BY ModbusAssumption
  <1>2. r.function \in {1, 3, 6} /\ r.first \in Nat /\ r.second \in Nat
    BY <1>1, ModbusAssumption DEF Request
  <1>3. CASE r.function = 1
    BY <1>3 DEF Exception
  <1>4. CASE r.function = 3
    BY <1>2, <1>4, ModbusAssumption DEF Exception, Whole
  <1>5. CASE r.function = 6
    BY <1>2, <1>5, ModbusAssumption DEF Exception, Whole
  <1>6. QED
    BY <1>2, <1>3, <1>4, <1>5

\* handle_modbus_request keeps to the array, and answers once if at all.
LEMMA HandleRequest ==
  ASSUME NEW r \in Requests, NEW length \in Nat, regs \in [0..RegCount - 1 -> RegValues]
  PROVE  /\ RegsAfter(length, r) \in [0..RegCount - 1 -> RegValues]
         /\ Answers(length, r) \in Seq(AnswerType)
         /\ length >= 8 => Len(Answers(length, r)) = 1
  <1>1. r \in Request /\ (r.function = 6 => r.second \in RegValues)
    BY ModbusAssumption
  <1>2. r.first \in Nat /\ r.second \in Nat
    BY <1>1, ModbusAssumption DEF Request
  <1>3. RegsAfter(length, r) \in [0..RegCount - 1 -> RegValues]
    <2>1. CASE Exception(length, r) = 0 /\ r.function = 6
      <3>1. DOMAIN regs \cup {r.first} = 0..RegCount - 1
        BY <2>1, ExceptionCases
      <3>2. QED
        BY <1>1, <2>1, <3>1 DEF RegsAfter
    <2>2. CASE ~(Exception(length, r) = 0 /\ r.function = 6)
      BY <2>2 DEF RegsAfter
    <2>3. QED
      BY <2>1, <2>2
  <1>4. Answer(length, r) \in AnswerType
    <2>1. CASE Exception(length, r) # 0
      BY <2>1, ExceptionCases DEF Answer, AnswerType
    <2>2. CASE Exception(length, r) = 0 /\ r.function = 6
      BY <1>1, <2>2 DEF Answer, AnswerType
    <2>3. CASE Exception(length, r) = 0 /\ r.function # 6
      <3> DEFINE vals == [k \in 1..r.second |-> Register(r.first + k - 1)]
      <3>1. \A k \in 1..r.second : Register(r.first + k - 1) \in RegValues
        BY <1>2, <2>3, ExceptionCases, ModbusAssumption DEF Register
      <3>2. vals \in Seq(RegValues)
        BY <1>2, <3>1
      <3>3. Answer(length, r) = [code |-> 0, values |-> vals]
        BY <2>3 DEF Answer
      <3>4. QED
        BY <3>2, <3>3 DEF AnswerType
    <2>4. QED
      BY <2>1, <2>2, <2>3
  <1>5. QED
    BY <1>3, <1>4 DEF Answers

\* What recv may return
LEMMA PartsRead ==
  ASSUME NEW parts \in Seq(Part), NEW n \in 1..2, n <= Len(parts)
  PROVE  ReadAs(parts, n) \subseteq Requests /\ LengthOf(parts, n) \in Nat
  <1>1. parts[1] \in Part /\ (n = 2 => parts[2] \in Part)
    OBVIOUS
  <1>2. QED
    BY <1>1 DEF ReadAs, LengthOf, Part, Whole

LEMMA PartsSent ==
  ASSUME NEW r \in Requests, NEW k \in Splits \cup {Whole}
  PROVE  /\ Parts(r, k) \in Seq(Part)
         /\ k = Whole => Len(Parts(r, k)) = 1 /\ Parts(r, k)[1].at = 0 /\ Parts(r, k)[1].length = Whole
  <1>1. CASE k = Whole
    <2>1. [at |-> 0, length |-> Whole, request |-> r] \in Part
      BY DEF Part, Whole
    <2>2. QED
      BY <1>1, <2>1 DEF Parts
  <1>2. CASE k # Whole
    <2>1. k \in 1..11
      BY <1>2, ModbusAssumption
    <2>2. /\ [at |-> 0, length |-> k, request |-> r] \in Part
          /\ [at |-> k, length |-> Whole - k, request |-> r] \in Part
      BY <2>1 DEF Part, Whole
    <2>3. QED
      BY <1>2, <2>2 DEF Parts
  <1>3. QED
    BY <1>1, <1>2

LEMMA WireKept ==
  ASSUME SocketInv, WireInv, [ModbusNext]_modbusVars PROVE WireInv'
  <1> USE DEF WireInv
  <1>1. CASE CreateTask \/ ListenStep
    BY <1>1 DEF CreateTask, ListenStep, OpenSocket, SocketFails, Bind, Listen,
       BindOrListenFails, DelayEnds, netVars
  <1>2. CASE AcceptFails
    BY <1>2 DEF AcceptFails, Disconnected
  <1>3. CASE Accept
    BY <1>3 DEF Accept, netVars, SocketInv
  <1>4. CASE Recv
    <2>1. conn \in Masters
      BY <1>4 DEF Recv, SocketInv
    <2>2. PICK n \in {k \in 1..2 : k <= Len(wire[conn])} : \E r \in ReadAs(wire[conn], n) :
            /\ regs' = RegsAfter(LengthOf(wire[conn], n), r)
            /\ replies' = [replies EXCEPT ![conn] = @ \o Answers(LengthOf(wire[conn], n), r)]
            /\ wire' = [wire EXCEPT ![conn] = SubSeq(@, n + 1, Len(@))]
      BY <1>4 DEF Recv
    <2>3. PICK r \in ReadAs(wire[conn], n) :
            /\ regs' = RegsAfter(LengthOf(wire[conn], n), r)
            /\ replies' = [replies EXCEPT ![conn] = @ \o Answers(LengthOf(wire[conn], n), r)]
            /\ wire' = [wire EXCEPT ![conn] = SubSeq(@, n + 1, Len(@))]
      BY <2>2
    <2>4. wire[conn] \in Seq(Part) /\ replies[conn] \in Seq(AnswerType)
      BY <2>1
    <2>5. r \in Requests /\ LengthOf(wire[conn], n) \in Nat
      BY <2>4, PartsRead
    <2>6. regs' \in [0..RegCount - 1 -> RegValues]
      BY <2>3, <2>5, HandleRequest
    <2>7. replies' \in [Masters -> Seq(AnswerType)]
      BY <2>1, <2>3, <2>4, <2>5, HandleRequest
    <2>8. wire' \in [Masters -> Seq(Part)]
      BY <2>1, <2>3, <2>4
    <2>9. QED
      BY <1>4, <2>6, <2>7, <2>8 DEF Recv
  <1>5. CASE RecvEnds
    BY <1>5 DEF RecvEnds, netVars
  <1>6. CASE Close
    BY <1>6 DEF Close, Disconnected
  <1>7. ASSUME NEW m \in Masters, MasterStep(m) PROVE WireInv'
    <2>1. CASE Connect(m) \/ Leave(m)
      BY <2>1 DEF Connect, Leave
    <2>2. CASE Receive(m)
      BY <2>2 DEF Receive
    <2>3. ASSUME NEW r \in Requests, NEW k \in Splits \cup {Whole}, Send(m, r, k) PROVE WireInv'
      BY <2>3, PartsSent DEF Send
    <2>4. QED
      BY <1>7, <2>1, <2>2, <2>3 DEF MasterStep
  <1>8. CASE UNCHANGED modbusVars
    BY <1>8 DEF modbusVars, netVars
  <1>9. QED
    BY <1>1, <1>2, <1>3, <1>4, <1>5, <1>6, <1>7, <1>8 DEF ModbusNext, ServeStep

\* handle_modbus_request never reads or writes beyond s_holding_regs.
THEOREM WithinRegistersEver == ModbusSpec => []WithinRegisters
  <1>1. ModbusInit => SocketInv /\ WireInv
    BY ModbusAssumption DEF ModbusInit, SocketInv, NoSocketLeaks, WireInv
  <1>2. SocketInv /\ WireInv /\ [ModbusNext]_modbusVars => SocketInv' /\ WireInv'
    BY SocketKept, WireKept
  <1>3. WireInv => WithinRegisters
    <2> SUFFICES ASSUME WireInv, NEW m \in Masters, NEW k \in DOMAIN replies[m]
                 PROVE  -1 \notin ToSet(replies[m][k].values)
      BY DEF WireInv, WithinRegisters
    <2>1. replies[m][k] \in AnswerType
      BY DEF WireInv
    <2>2. replies[m][k].values \in Seq(RegValues)
      BY <2>1 DEF AnswerType
    <2>3. QED
      BY <2>2, ModbusAssumption DEF ToSet
  <1>4. QED
    BY <1>1, <1>2, <1>3, PTL DEF ModbusSpec

\* Sums of two lengths, of which at most one is not 0
LEMMA Sums ==
  ASSUME NEW a \in Nat, NEW b \in Nat
  PROVE  /\ a + b = 0 => a = 0 /\ b = 0
         /\ a + b = 1 /\ a >= 1 => a = 1 /\ b = 0
         /\ a + b = 1 /\ b >= 1 => a = 0 /\ b = 1
  OBVIOUS

\* What a connection that no request was split on holds
LEMMA WholeRead ==
  ASSUME WireInv, WholeInv, OneAnswer, NEW m \in Masters, m \notin torn,
         NEW n \in {k \in 1..2 : k <= Len(wire[m])}
  PROVE  /\ n = 1 /\ Len(wire[m]) = 1 /\ Len(replies[m]) = 0 /\ m \in asks
         /\ LengthOf(wire[m], n) = Whole
  <1>1. Len(wire[m]) \in Nat /\ Len(replies[m]) \in Nat
    BY DEF WireInv
  <1>2. Len(wire[m]) + Len(replies[m]) = IF m \in asks THEN 1 ELSE 0
    BY DEF OneAnswer
  <1>3. n \in Nat /\ n >= 1 /\ n <= Len(wire[m])
    OBVIOUS
  <1>4. m \in asks
    <2> SUFFICES ASSUME m \notin asks PROVE FALSE
      OBVIOUS
    <2>1. Len(wire[m]) + Len(replies[m]) = 0
      BY <1>2
    <2>2. Len(wire[m]) = 0
      BY <1>1, <2>1, Sums
    <2>3. QED
      BY <1>3, <2>2
  <1>5. Len(wire[m]) = 1 /\ Len(replies[m]) = 0
    <2>1. Len(wire[m]) + Len(replies[m]) = 1
      BY <1>2, <1>4
    <2>2. Len(wire[m]) >= 1
      BY <1>1, <1>3
    <2>3. QED
      BY <1>1, <2>1, <2>2, Sums
  <1>6. n = 1
    BY <1>3, <1>5
  <1>7. wire[m][1].length = Whole
    BY <1>5 DEF WholeInv
  <1>8. QED
    BY <1>4, <1>5, <1>6, <1>7 DEF LengthOf

LEMMA OneAnswerKept ==
  ASSUME SocketInv, WireInv, FlagInv, WholeInv, OneAnswer, [ModbusNext]_modbusVars
  PROVE  FlagInv' /\ WholeInv' /\ OneAnswer'
  <1>1. CASE UNCHANGED netVars
    BY <1>1 DEF netVars, FlagInv, WholeInv, OneAnswer
  <1>2. ASSUME NEW gone, Disconnected(gone) PROVE FlagInv' /\ WholeInv' /\ OneAnswer'
    <2>1. FlagInv'
      BY <1>2 DEF Disconnected, FlagInv
    <2>2. WholeInv'
      <3> SUFFICES ASSUME NEW m \in Masters, m \notin torn', NEW k \in 1..Len(wire'[m])
                   PROVE  wire'[m][k].at = 0 /\ wire'[m][k].length = Whole
        BY DEF WholeInv
      <3>1. CASE m \in gone
        <4>1. wire'[m] = <<>>
          BY <1>2, <3>1 DEF Disconnected
        <4>2. QED
          BY <4>1
      <3>2. CASE m \notin gone
        <4>1. wire'[m] = wire[m] /\ m \notin torn
          BY <1>2, <3>2 DEF Disconnected
        <4>2. QED
          BY <4>1 DEF WholeInv
      <3>3. QED
        BY <3>1, <3>2
    <2>3. OneAnswer'
      <3> SUFFICES ASSUME NEW m \in Masters, m \notin torn'
                   PROVE  Len(wire'[m]) + Len(replies'[m]) = IF m \in asks' THEN 1 ELSE 0
        BY DEF OneAnswer
      <3>1. CASE m \in gone
        <4>1. wire'[m] = <<>> /\ replies'[m] = <<>> /\ m \notin asks'
          BY <1>2, <3>1 DEF Disconnected
        <4>2. QED
          BY <4>1
      <3>2. CASE m \notin gone
        BY <1>2, <3>2 DEF Disconnected, OneAnswer
      <3>3. QED
        BY <3>1, <3>2
    <2>4. QED
      BY <2>1, <2>2, <2>3
  <1>3. CASE Recv
    <2>1. conn \in Masters /\ torn' = torn /\ asks' = asks
      BY <1>3 DEF Recv, SocketInv, WireInv
    <2>2. PICK n \in {k \in 1..2 : k <= Len(wire[conn])} : \E r \in ReadAs(wire[conn], n) :
            /\ replies' = [replies EXCEPT ![conn] = @ \o Answers(LengthOf(wire[conn], n), r)]
            /\ wire' = [wire EXCEPT ![conn] = SubSeq(@, n + 1, Len(@))]
      BY <1>3 DEF Recv
    <2>3. PICK r \in ReadAs(wire[conn], n) :
            /\ replies' = [replies EXCEPT ![conn] = @ \o Answers(LengthOf(wire[conn], n), r)]
            /\ wire' = [wire EXCEPT ![conn] = SubSeq(@, n + 1, Len(@))]
      BY <2>2
    <2>4. r \in Requests
      BY <2>1, PartsRead DEF WireInv
    <2>5. ASSUME NEW m \in Masters, m # conn
          PROVE  wire'[m] = wire[m] /\ replies'[m] = replies[m]
      BY <2>3, <2>5 DEF WireInv
    <2>6. ASSUME conn \notin torn PROVE Len(wire'[conn]) = 0 /\ Len(replies'[conn]) = 1 /\ conn \in asks
      <3>1. n = 1 /\ Len(wire[conn]) = 1 /\ Len(replies[conn]) = 0 /\ conn \in asks
            /\ LengthOf(wire[conn], n) = Whole
        BY <2>1, <2>6, WholeRead
      <3>2. Answers(Whole, r) \in Seq(AnswerType) /\ Len(Answers(Whole, r)) = 1
        BY <2>4, HandleRequest DEF WireInv, Whole
      <3>3. wire'[conn] = SubSeq(wire[conn], 2, 1)
        BY <2>1, <2>3, <3>1 DEF WireInv
      <3>4. replies'[conn] = replies[conn] \o Answers(Whole, r)
        BY <2>1, <2>3, <3>1 DEF WireInv
      <3>5. QED
        BY <2>1, <3>1, <3>2, <3>3, <3>4 DEF WireInv
    <2>7. FlagInv'
      BY <2>1 DEF FlagInv
    <2>8. WholeInv'
      BY <2>1, <2>5, <2>6 DEF WholeInv
    <2>9. OneAnswer'
      <3> SUFFICES ASSUME NEW m \in Masters, m \notin torn
                   PROVE  Len(wire'[m]) + Len(replies'[m]) = IF m \in asks THEN 1 ELSE 0
        BY <2>1 DEF OneAnswer
      <3>1. CASE m = conn
        <4>1. Len(wire'[m]) = 0 /\ Len(replies'[m]) = 1 /\ m \in asks
          BY <2>6, <3>1
        <4>2. QED
          BY <4>1
      <3>2. CASE m # conn
        BY <2>5, <3>2 DEF OneAnswer
      <3>3. QED
        BY <3>1, <3>2
    <2>10. QED
      BY <2>7, <2>8, <2>9
  <1>4. ASSUME NEW m \in Masters, Connect(m) \/ Leave(m)
        PROVE  FlagInv' /\ WholeInv' /\ OneAnswer'
    BY <1>4 DEF Connect, Leave, FlagInv, WholeInv, OneAnswer
  <1>5. ASSUME NEW m \in Masters, Receive(m) PROVE FlagInv' /\ WholeInv' /\ OneAnswer'
    <2>1. wire' = wire /\ torn' = torn
      BY <1>5 DEF Receive
    <2>2. FlagInv'
      BY <1>5 DEF Receive, FlagInv
    <2>3. WholeInv'
      BY <2>1 DEF WholeInv
    <2>4. OneAnswer'
      <3> SUFFICES ASSUME NEW p \in Masters, p \notin torn
                   PROVE  Len(wire[p]) + Len(replies'[p]) = IF p \in asks' THEN 1 ELSE 0
        BY <2>1 DEF OneAnswer
      <3>1. Len(wire[p]) + Len(replies[p]) = IF p \in asks THEN 1 ELSE 0
        BY DEF OneAnswer
      <3>2. CASE p = m
        <4>1. replies[p] \in Seq(AnswerType) /\ replies[p] # <<>> /\ Len(wire[p]) \in Nat
          BY <1>5, <3>2 DEF Receive, WireInv
        <4>2. replies'[p] = Tail(replies[p]) /\ p \notin asks'
          BY <1>5, <3>2 DEF Receive, WireInv, FlagInv
        <4>3. Len(replies[p]) \in Nat /\ Len(replies[p]) >= 1 /\ Len(replies'[p]) = Len(replies[p]) - 1
          BY <4>1, <4>2
        <4>4. Len(wire[p]) + Len(replies[p]) = 0 \/ Len(wire[p]) + Len(replies[p]) = 1
          BY <3>1
        <4>5. Len(wire[p]) = 0 /\ Len(replies[p]) = 1
          <5>1. CASE Len(wire[p]) + Len(replies[p]) = 0
            <6>1. Len(replies[p]) = 0
              BY <4>1, <4>3, <5>1, Sums
            <6>2. QED
              BY <4>3, <6>1
          <5>2. CASE Len(wire[p]) + Len(replies[p]) = 1
            BY <4>1, <4>3, <5>2, Sums
          <5>3. QED
            BY <4>4, <5>1, <5>2
        <4>6. Len(replies'[p]) = 0
          BY <4>3, <4>5
        <4>7. QED
          BY <4>2, <4>5, <4>6
      <3>3. CASE p # m
        <4>1. replies'[p] = replies[p] /\ (p \in asks' <=> p \in asks)
          BY <1>5, <3>3 DEF Receive, WireInv, FlagInv
        <4>2. QED
          BY <3>1, <4>1
      <3>4. QED
        BY <3>2, <3>3
    <2>5. QED
      BY <2>2, <2>3, <2>4
  <1>6. ASSUME NEW m \in Masters, NEW r \in Requests, NEW k \in Splits \cup {Whole}, Send(m, r, k)
        PROVE  FlagInv' /\ WholeInv' /\ OneAnswer'
    <2>1. FlagInv'
      BY <1>6 DEF Send, FlagInv
    <2>2. replies' = replies /\ m \notin asks /\ m \in asks'
      BY <1>6 DEF Send, FlagInv
    <2>3. ASSUME NEW p \in Masters, p # m
          PROVE  wire'[p] = wire[p] /\ (p \in torn' <=> p \in torn) /\ (p \in asks' <=> p \in asks)
      BY <1>6, <2>3 DEF Send, FlagInv, WireInv
    <2>4. ASSUME m \notin torn'
          PROVE  /\ Len(wire'[m]) = 1 /\ Len(replies[m]) = 0 /\ m \notin torn
                 /\ wire'[m][1].at = 0 /\ wire'[m][1].length = Whole
      <3>1. k = Whole /\ m \notin torn
        BY <1>6, <2>4 DEF Send, FlagInv
      <3>2. Len(wire[m]) + Len(replies[m]) = 0
        BY <2>2, <3>1 DEF OneAnswer
      <3>3. wire[m] \in Seq(Part) /\ Len(wire[m]) = 0 /\ Len(replies[m]) = 0
        BY <3>2 DEF WireInv
      <3>4. wire'[m] = wire[m] \o Parts(r, k)
        BY <1>6 DEF Send, WireInv
      <3>5. QED
        BY <3>1, <3>3, <3>4, PartsSent
    <2>5. WholeInv'
      BY <2>3, <2>4 DEF WholeInv
    <2>6. OneAnswer'
      <3> SUFFICES ASSUME NEW p \in Masters, p \notin torn'
                   PROVE  Len(wire'[p]) + Len(replies'[p]) = IF p \in asks' THEN 1 ELSE 0
        BY DEF OneAnswer
      <3>1. CASE p = m
        <4>1. Len(wire'[p]) = 1 /\ Len(replies[p]) = 0 /\ p \in asks'
          BY <2>2, <2>4, <3>1
        <4>2. QED
          BY <2>2, <4>1
      <3>2. CASE p # m
        BY <2>2, <2>3, <3>2 DEF OneAnswer
      <3>3. QED
        BY <3>1, <3>2
    <2>7. QED
      BY <2>1, <2>5, <2>6
  <1>7. QED
    BY <1>1, <1>2, <1>3, <1>4, <1>5, <1>6 DEF ModbusNext, CreateTask, ListenStep, OpenSocket,
       SocketFails, Bind, Listen, BindOrListenFails, DelayEnds, AcceptFails, ServeStep, Accept,
       RecvEnds, Close, MasterStep, modbusVars

\* A request that reaches modbus_server_task whole is answered once, and every
\* answer is the one to the request that the master waits for.
THEOREM OneAnswerEver == ModbusSpec => []OneAnswer
  <1>1. ModbusInit => SocketInv /\ WireInv /\ FlagInv /\ WholeInv /\ OneAnswer
    <2> SUFFICES ASSUME ModbusInit PROVE SocketInv /\ WireInv /\ FlagInv /\ WholeInv /\ OneAnswer
      OBVIOUS
    <2>1. SocketInv /\ WireInv
      BY ModbusAssumption DEF ModbusInit, SocketInv, NoSocketLeaks, WireInv
    <2>2. FlagInv
      BY DEF ModbusInit, FlagInv
    <2>3. \A m \in Masters : wire[m] = <<>> /\ replies[m] = <<>> /\ m \notin asks
      BY DEF ModbusInit
    <2>4. \A m \in Masters : Len(wire[m]) = 0 /\ Len(replies[m]) = 0
      BY <2>3
    <2>5. WholeInv
      BY <2>4 DEF WholeInv
    <2>6. OneAnswer
      <3> SUFFICES ASSUME NEW m \in Masters
                   PROVE  Len(wire[m]) + Len(replies[m]) = IF m \in asks THEN 1 ELSE 0
        BY DEF OneAnswer
      <3>1. Len(wire[m]) = 0 /\ Len(replies[m]) = 0 /\ m \notin asks
        BY <2>3, <2>4
      <3>2. QED
        BY <3>1
    <2>7. QED
      BY <2>1, <2>2, <2>5, <2>6
  <1>2. SocketInv /\ WireInv /\ FlagInv /\ WholeInv /\ OneAnswer /\ [ModbusNext]_modbusVars
          => SocketInv' /\ WireInv' /\ FlagInv' /\ WholeInv' /\ OneAnswer'
    BY SocketKept, WireKept, OneAnswerKept
  <1>3. QED
    BY <1>1, <1>2, PTL DEF ModbusSpec

-----------------------------------------------------------------------------
(* The status page.                                                        *)

\* app_main has come to a step only after the ones before it: there are pages
\* and announcements only when the address is set.
PageInv ==
  /\ boot \in {"netmask", "gw", "apply", "http", "start", "beat"} => ipInfo["ip"] = "static"
  /\ boot \in {"gw", "apply", "http", "start", "beat"} => ipInfo["netmask"] = "static"
  /\ boot \in {"apply", "http", "start", "beat"} => ipInfo["gw"] = "static"
  /\ boot \in {"ip", "netmask", "gw", "apply", "http", "start", "beat"} => ~dhcp
  /\ boot \in {"http", "start", "beat"} => netifIp = "static"
  /\ http => boot \in {"start", "beat"}
  /\ driver => boot = "beat"
  /\ requested => http
  /\ page # <<>> => requested

\* Only the static address is announced.
AnnouncedInv ==
  /\ ipInfo \in [{"ip", "netmask", "gw"} -> Addresses]
  /\ events \in Seq({"connected", "disconnected", "static"})
  /\ copying \in Seq({"ip", "netmask", "gw"})
  /\ ~driver => events = <<>> /\ copying = <<>>
  /\ copying # <<>> => announced = "static"

LEMMA OrderOfSteps ==
  /\ Step("init") => boot = "init" /\ boot' = "handlers"
  /\ Step("handlers") => boot = "handlers" /\ boot' = "dhcp"
  /\ Step("dhcp") => boot = "dhcp" /\ boot' = "ip"
  /\ Step("ip") => boot = "ip" /\ boot' = "netmask"
  /\ Step("netmask") => boot = "netmask" /\ boot' = "gw"
  /\ Step("gw") => boot = "gw" /\ boot' = "apply"
  /\ Step("apply") => boot = "apply" /\ boot' = "http"
  /\ Step("http") => boot = "http" /\ boot' = "start"
  /\ Step("start") => boot = "start" /\ boot' = "beat"
  <1>1. Len(Order) = 10
    BY DEF Order
  <1>2. \A k \in 1..9 : k \in {1, 2, 3, 4, 5, 6, 7, 8, 9}
    OBVIOUS
  <1>3. QED
    BY <1>1, <1>2 DEF Step, Order

LEMMA AnnouncedKept ==
  ASSUME PageInv, AnnouncedInv, [StatusNext]_statusVars PROVE AnnouncedInv'
  <1> USE DEF AnnouncedInv
  <1>1. CASE InitDrivers \/ RegisterHandlers \/ StopDhcp \/ SetIpInfo \/ StartHttpServer
    BY <1>1 DEF InitDrivers, RegisterHandlers, StopDhcp, SetIpInfo, StartHttpServer
  <1>2. ASSUME NEW w \in {"ip", "netmask", "gw"}, SetWord(w) PROVE AnnouncedInv'
    BY <1>2 DEF SetWord, Addresses
  <1>3. CASE StartDriver
    BY <1>3 DEF StartDriver
  <1>4. CASE Restart
    BY <1>4 DEF Restart, Addresses
  <1>5. CASE LinkEvent
    <2>1. Announcement \in Seq({"static"})
      <3>1. driver
        BY <1>5 DEF LinkEvent
      <3>2. netifIp = "static" /\ ~dhcp
        BY <3>1 DEF PageInv
      <3>3. QED
        BY <3>2 DEF Announcement
    <2>2. Tail(events) \in Seq({"connected", "disconnected", "static"}) /\ driver
      BY <1>5 DEF LinkEvent
    <2>3. events' \in Seq({"connected", "disconnected", "static"})
      BY <1>5, <2>1, <2>2 DEF LinkEvent
    <2>4. QED
      BY <1>5, <2>2, <2>3 DEF LinkEvent
  <1>6. CASE GotIpEvent
    <2>1. announced' = "static" /\ driver /\ events' \in Seq({"connected", "disconnected", "static"})
      BY <1>6 DEF GotIpEvent, Addresses
    <2>2. copying' \in Seq({"ip", "netmask", "gw"})
      <3>1. IpWords \in Seq({"ip", "netmask", "gw"}) /\ <<>> \in Seq({"ip", "netmask", "gw"})
        BY DEF IpWords
      <3>2. copying' \in {IpWords, <<>>}
        BY <1>6 DEF GotIpEvent
      <3>3. QED
        BY <3>1, <3>2
    <2>3. QED
      BY <1>6, <2>1, <2>2 DEF GotIpEvent
  <1>7. CASE CopyWord
    BY <1>7 DEF CopyWord, Addresses
  <1>8. CASE MoveCable
    BY <1>8 DEF MoveCable
  <1>9. CASE HttpStep
    BY <1>9 DEF HttpStep, AskForPage, FormatField, SendPage
  <1>10. CASE UNCHANGED statusVars
    BY <1>10 DEF statusVars, ramVars
  <1>11. QED
    BY <1>1, <1>2, <1>3, <1>4, <1>5, <1>6, <1>7, <1>8, <1>9, <1>10
       DEF StatusNext, Boot, EventStep

LEMMA PageInvKept ==
  ASSUME PageInv, AnnouncedInv, [StatusNext]_statusVars PROVE PageInv'
  <1>1. CASE InitDrivers
    BY <1>1, OrderOfSteps DEF InitDrivers, PageInv
  <1>2. CASE RegisterHandlers
    BY <1>2, OrderOfSteps DEF RegisterHandlers, PageInv
  <1>3. CASE StopDhcp
    BY <1>3, OrderOfSteps DEF StopDhcp, PageInv
  <1>4. CASE SetIpInfo
    BY <1>4, OrderOfSteps DEF SetIpInfo, PageInv
  <1>5. CASE StartHttpServer
    BY <1>5, OrderOfSteps DEF StartHttpServer, PageInv
  <1>6. CASE StartDriver
    BY <1>6, OrderOfSteps DEF StartDriver, PageInv
  <1>7. ASSUME NEW w \in {"ip", "netmask", "gw"}, SetWord(w) PROVE PageInv'
    <2>1. CASE w = "ip"
      BY <1>7, <2>1, OrderOfSteps DEF SetWord, AnnouncedInv, PageInv
    <2>2. CASE w = "netmask"
      BY <1>7, <2>2, OrderOfSteps DEF SetWord, AnnouncedInv, PageInv
    <2>3. CASE w = "gw"
      BY <1>7, <2>3, OrderOfSteps DEF SetWord, AnnouncedInv, PageInv
    <2>4. QED
      BY <2>1, <2>2, <2>3
  <1>8. CASE Restart
    BY <1>8 DEF Restart, PageInv
  <1>9. CASE UNCHANGED <<boot, ipInfo, dhcp, netifIp, http, driver, requested, page>>
    BY <1>9 DEF PageInv
  <1>10. CASE CopyWord
    <2>1. \A w \in {"ip", "netmask", "gw"} : ipInfo'[w] = ipInfo[w] \/ ipInfo'[w] = "static"
      BY <1>10 DEF CopyWord, AnnouncedInv
    <2>2. QED
      BY <1>10, <2>1 DEF CopyWord, PageInv
  <1>11. CASE AskForPage \/ FormatField
    BY <1>11 DEF AskForPage, FormatField, PageInv
  <1>12. CASE SendPage
    BY <1>12 DEF SendPage, PageInv
  <1>13. QED
    BY <1>1, <1>2, <1>3, <1>4, <1>5, <1>6, <1>7, <1>8, <1>9, <1>10, <1>11, <1>12
       DEF StatusNext, Boot, EventStep, HttpStep, LinkEvent, GotIpEvent, MoveCable,
           statusVars, ramVars

\* A page that is being formatted shows the static address as far as it goes.
PageTypeOK == page \in Seq({"true", "false"} \cup Addresses)

LEMMA PageKept ==
  ASSUME PageInv, PageTypeOK, PageShowsAddress, [StatusNext]_statusVars
  PROVE  PageTypeOK' /\ PageShowsAddress'
  <1>1. CASE UNCHANGED page
    BY <1>1 DEF PageTypeOK, PageShowsAddress
  <1>2. CASE Restart \/ SendPage
    <2>1. page' = <<>>
      BY <1>2 DEF Restart, SendPage
    <2>2. PageTypeOK'
      BY <2>1 DEF PageTypeOK
    <2>3. Len(page') = 0
      BY <2>1
    <2>4. PageShowsAddress'
      BY <2>3 DEF PageShowsAddress
    <2>5. QED
      BY <2>2, <2>4
  <1>3. CASE FormatField
    <2> DEFINE field == IF page # <<>> THEN ipInfo[IpWords[Len(page)]]
                        ELSE IF linkUp THEN "true" ELSE "false"
    <2>1. page' = Append(page, field) /\ requested /\ Len(page) < 4
      BY <1>3 DEF FormatField
    <2>2. boot \in {"start", "beat"}
      BY <2>1 DEF PageInv
    <2>3. page # <<>> => field = "static"
      <3> SUFFICES ASSUME page # <<>> PROVE field = "static"
        OBVIOUS
      <3>1. Len(page) \in {1, 2, 3}
        <4>1. Len(page) \in Nat /\ Len(page) # 0
          BY DEF PageTypeOK
        <4>2. Len(page) < 4
          BY <2>1
        <4>3. \A n \in Nat : n # 0 /\ n < 4 => n \in {1, 2, 3}
          OBVIOUS
        <4>4. QED
          BY <4>1, <4>2, <4>3, Zenon
      <3>2. IpWords[Len(page)] \in {"ip", "netmask", "gw"}
        <4>1. IpWords[1] = "ip" /\ IpWords[2] = "netmask" /\ IpWords[3] = "gw"
          BY DEF IpWords
        <4>2. QED
          BY <3>1, <4>1
      <3>3. QED
        BY <2>2, <3>2 DEF PageInv
    <2>4. field \in {"true", "false"} \cup Addresses
      <3>1. CASE page = <<>>
        BY <3>1
      <3>2. CASE page # <<>>
        BY <2>3, <3>2 DEF Addresses
      <3>3. QED
        BY <3>1, <3>2
    <2>5. PageTypeOK'
      BY <2>1, <2>4 DEF PageTypeOK
    <2>6. PageShowsAddress'
      <3> SUFFICES ASSUME NEW k \in 2..Len(page') PROVE page'[k] = "static"
        BY DEF PageShowsAddress
      <3> HIDE DEF field
      <3>1. Len(page') = Len(page) + 1 /\ Len(page) \in Nat
        BY <2>1 DEF PageTypeOK
      <3>2. CASE k = Len(page) + 1
        <4>1. page # <<>>
          BY <3>1, <3>2 DEF PageTypeOK
        <4>2. page'[k] = field
          BY <2>1, <2>4, <3>2 DEF PageTypeOK
        <4>3. QED
          BY <2>3, <4>1, <4>2
      <3>3. CASE k # Len(page) + 1
        <4>1. k \in 2..Len(page)
          BY <3>1, <3>3
        <4>2. page'[k] = page[k]
          BY <2>1, <2>4, <3>1, <4>1 DEF PageTypeOK
        <4>3. QED
          BY <4>1, <4>2 DEF PageShowsAddress
      <3>4. QED
        BY <3>2, <3>3
    <2>7. QED
      BY <2>5, <2>6
  <1>4. QED
    BY <1>1, <1>2, <1>3 DEF StatusNext, Boot, EventStep, HttpStep, InitDrivers,
       RegisterHandlers, StopDhcp, SetIpInfo, StartHttpServer, StartDriver, SetWord,
       LinkEvent, GotIpEvent, CopyWord, MoveCable, AskForPage, statusVars, ramVars

\* status_get_handler never shows an address other than the configured one.
THEOREM PageShowsAddressEver == StatusSpec => []PageShowsAddress
  <1>1. StatusInit => PageInv /\ AnnouncedInv /\ PageTypeOK /\ PageShowsAddress
    <2> SUFFICES ASSUME StatusInit
                 PROVE  PageInv /\ AnnouncedInv /\ PageTypeOK /\ PageShowsAddress
      OBVIOUS
    <2>1. PageInv
      BY DEF StatusInit, StatusStart, PageInv
    <2>2. AnnouncedInv
      BY DEF StatusInit, StatusStart, AnnouncedInv, Addresses
    <2>3. page = <<>>
      BY DEF StatusInit, StatusStart
    <2>4. PageTypeOK /\ Len(page) = 0
      BY <2>3 DEF PageTypeOK
    <2>5. PageShowsAddress
      BY <2>4 DEF PageShowsAddress
    <2>6. QED
      BY <2>1, <2>2, <2>4, <2>5
  <1>2. PageInv /\ AnnouncedInv /\ PageTypeOK /\ PageShowsAddress /\ [StatusNext]_statusVars
          => PageInv' /\ AnnouncedInv' /\ PageTypeOK' /\ PageShowsAddress'
    BY PageInvKept, AnnouncedKept, PageKept
  <1>3. QED
    BY <1>1, <1>2, PTL DEF StatusSpec

-----------------------------------------------------------------------------
(* The board.                                                              *)

\* With any of the programs in its flash, the board behaves like each of them.
THEOREM EachProgram == Spec => OpcuaSpec /\ ModbusSpec /\ StatusSpec /\ EthSpec
  <1>1. Init => OpcuaInit /\ ModbusInit /\ StatusInit /\ EthInit
    BY DEF Init
  <1>2. [Next]_vars => /\ [OpcuaNext]_opcuaVars /\ [ModbusNext]_modbusVars
                       /\ [StatusNext]_statusVars /\ [EthNext]_ethVars
    BY DEF Next, Opcua, Modbus, Page, Ethernet, vars
  <1>3. QED
    BY <1>1, <1>2, PTL DEF Spec, OpcuaSpec, ModbusSpec, StatusSpec, EthSpec

\* What is proved of the programs holds of the board.
THEOREM BoardIsSafe ==
  Spec => /\ [](OneServerTask /\ NoSocketLeaks /\ WithinRegisters /\ OneAnswer /\ PageShowsAddress)
          /\ [](NoHalfInterface /\ HandlesAreUsable)
          /\ ResetsAreAsked /\ ReleasedCompletely
  BY EachProgram, OneServerTaskEver, NoSocketLeaksEver, WithinRegistersEver, OneAnswerEver,
     PageShowsAddressEver, ResetsAskedEver, NoHalfInterfaceEver, HandlesUsable,
     ReleaseIsComplete, PTL
=============================================================================
