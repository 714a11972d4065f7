---------------------------- MODULE ModbusProbe ----------------------------
(***************************************************************************)
(* The Modbus TCP probe (modbus_tcp_probe/main/modbus_tcp_probe_main.c):   *)
(* one task that listens, serves one master at a time and takes what one   *)
(* recv returns for one request.  The masters are external: each waits for *)
(* the answer to its request before the next one, and may give up.  TCP    *)
(* may split a request; what follows a split is then read joined with what *)
(* comes next, and its bytes are any request.                              *)
(***************************************************************************)
EXTENDS Integers, Sequences, SequencesExt

CONSTANTS
  Masters,     \* Modbus masters
  RegCount,    \* the length of s_holding_regs (16)
  RegValues,   \* values of a register
  Requests,    \* bound: the requests that masters send
  Splits,      \* bound: lengths of the first part of a request that is split
  Backlog,     \* connections that wait for accept (2)
  NoMaster     \* a value that is not in Masters

Request == [function : {1, 3, 6}, first : 0..RegCount + 1, second : 0..RegCount + 1]

ASSUME ModbusAssumption ==
  /\ RegCount \in Nat \ {0} /\ Backlog \in Nat \ {0}
  /\ 0 \in RegValues /\ RegValues \subseteq 0..RegCount + 1
  /\ Requests \subseteq Request /\ Splits \subseteq 1..11
  /\ \A r \in Requests : r.function = 6 => r.second \in RegValues
  /\ NoMaster \notin Masters

\* Bytes of one request
Whole == 12

VARIABLES
  regs,       \* s_holding_regs
  task,       \* where modbus_server_task is
  sockets,    \* sockets that are open
  listening,  \* whether the port is open
  waiting,    \* the masters connected and not accepted, in order
  conn,       \* the master that is served
  state,      \* what a master makes of its connection
  wire,       \* the parts of requests on their way to the server
  torn,       \* masters with a request that was split
  asks,       \* masters that wait for an answer
  replies     \* the answers on their way to the master

netVars == <<state, wire, torn, asks, replies>>
modbusVars == <<regs, task, sockets, listening, waiting, conn, netVars>>

ModbusInit ==
  /\ regs = [r \in 0..RegCount - 1 |-> 0]
  /\ task = "none" /\ sockets = 0 /\ listening = FALSE
  /\ waiting = <<>> /\ conn = NoMaster
  /\ state = [m \in Masters |-> "off"] /\ wire = [m \in Masters |-> <<>>]
  /\ torn = {} /\ asks = {}
  /\ replies = [m \in Masters |-> <<>>]

\* The connections of gone are at an end, with all that is on its way.
Disconnected(gone) ==
  /\ state' = [m \in Masters |-> IF m \in gone THEN "off" ELSE state[m]]
  /\ wire' = [m \in Masters |-> IF m \in gone THEN <<>> ELSE wire[m]]
  /\ torn' = torn \ gone
  /\ asks' = asks \ gone
  /\ replies' = [m \in Masters |-> IF m \in gone THEN <<>> ELSE replies[m]]

-----------------------------------------------------------------------------
(* handle_modbus_request.                                                  *)

\* Mutant: the last register is off by one.
LooseException(length, r) ==
  CASE r.function \notin {3, 6} -> 1
    [] r.function \in {3, 6} /\ length < Whole -> 3
    [] r.function = 3 /\ length >= Whole
         /\ (r.second < 1 \/ r.second > RegCount \/ r.first + r.second > RegCount + 1) -> 2
    [] r.function = 6 /\ length >= Whole /\ r.first >= RegCount -> 2
    [] OTHER -> 0

\* The code of the exception that a request gets, or 0
Exception(length, r) ==
  CASE r.function \notin {3, 6} -> 1
    [] r.function \in {3, 6} /\ length < Whole -> 3
    [] r.function = 3 /\ length >= Whole
         /\ (r.second < 1 \/ r.second > RegCount \/ r.first + r.second > RegCount) -> 2
    [] r.function = 6 /\ length >= Whole /\ r.first >= RegCount -> 2
    [] OTHER -> 0

\* A register, or what lies beyond the array
Register(r) == IF r \in DOMAIN regs THEN regs[r] ELSE -1

\* The registers after a request, which may write beyond the array.
RegsAfter(length, r) ==
  IF Exception(length, r) = 0 /\ r.function = 6
  THEN [k \in DOMAIN regs \cup {r.first} |-> IF k = r.first THEN r.second ELSE regs[k]]
  ELSE regs

Answer(length, r) ==
  [code |-> Exception(length, r),
   values |-> IF Exception(length, r) # 0 THEN <<>>
              ELSE IF r.function = 6 THEN <<r.second>>
              ELSE [k \in 1..r.second |-> Register(r.first + k - 1)]]

\* Mutant: a request for writing is answered, and refused in addition.
AnswersTwice(length, r) ==
  IF length < 8 THEN <<>>
  ELSE IF r.function = 6 THEN <<Answer(length, r), [code |-> 1, values |-> <<>>]>>
  ELSE <<Answer(length, r)>>

\* What is sent for a request; fewer than 8 bytes are ignored.
Answers(length, r) == IF length < 8 THEN <<>> ELSE <<Answer(length, r)>>

-----------------------------------------------------------------------------
(* modbus_server_task.                                                     *)

\* app_main restarts the chip if the drivers or the network fail.  It does not
\* look at whether the task was created.
CreateTask ==
  /\ task = "none"
  /\ task' \in {"socket", "missing"}
  /\ UNCHANGED <<regs, sockets, listening, waiting, conn, netVars>>

OpenSocket ==
  /\ task = "socket"
  /\ task' = "bind" /\ sockets' = sockets + 1
  /\ UNCHANGED <<regs, listening, waiting, conn, netVars>>

SocketFails ==
  /\ task = "socket"
  /\ task' = "delay"
  /\ UNCHANGED <<regs, sockets, listening, waiting, conn, netVars>>

\* Mutant: the socket stays open.
RetryLeaks == task' = "delay" /\ UNCHANGED sockets

\* The socket is closed, and a second passes.
Retry == task' = "delay" /\ sockets' = sockets - 1

Bind ==
  /\ task = "bind"
  /\ task' = "listen"
  /\ UNCHANGED <<regs, sockets, listening, waiting, conn, netVars>>

Listen ==
  /\ task = "listen"
  /\ task' = "accept" /\ listening' = TRUE
  /\ UNCHANGED <<regs, sockets, waiting, conn, netVars>>

BindOrListenFails ==
  /\ task \in {"bind", "listen"}
  /\ Retry
  /\ UNCHANGED <<regs, listening, waiting, conn, netVars>>

DelayEnds ==
  /\ task = "delay"
  /\ task' = "socket"
  /\ UNCHANGED <<regs, sockets, listening, waiting, conn, netVars>>

Accept ==
  /\ task = "accept" /\ waiting # <<>>
  /\ conn' = Head(waiting) /\ waiting' = Tail(waiting)
  /\ sockets' = sockets + 1
  /\ task' = "recv"
  /\ UNCHANGED <<regs, listening, netVars>>

\* accept fails: the port is closed, with the connections that wait for it.
AcceptFails ==
  /\ task = "accept"
  /\ listening' = FALSE /\ sockets' = sockets - 1 /\ waiting' = <<>>
  /\ Disconnected(ToSet(waiting))
  /\ task' = "socket"
  /\ UNCHANGED <<regs, conn>>

\* The requests that the bytes of n parts may be taken for
ReadAs(parts, n) ==
  LET p == parts[1]
  IN IF p.at = 0 /\ (p.length = Whole \/ n = 1 \/ parts[2].at = p.length)
     THEN {p.request} ELSE Requests

LengthOf(parts, n) ==
  IF n = 1 THEN parts[1].length ELSE parts[1].length + parts[2].length

\* recv returns a part that has arrived, or two together, and they are handled.
\* There are never more of a master that waits for its answers.
Recv ==
  /\ task = "recv"
  /\ \E n \in {k \in 1..2 : k <= Len(wire[conn])} : \E r \in ReadAs(wire[conn], n) :
       LET length == LengthOf(wire[conn], n)
       IN /\ regs' = RegsAfter(length, r)
          /\ replies' = [replies EXCEPT ![conn] = @ \o Answers(length, r)]
          /\ wire' = [wire EXCEPT ![conn] = SubSeq(@, n + 1, Len(@))]
  /\ UNCHANGED <<task, sockets, listening, waiting, conn, state, torn, asks>>

\* Mutant: only an error ends the loop.
EndOfStreamIsNoEnd == FALSE /\ UNCHANGED modbusVars

\* The master has closed the connection, or it is broken.
RecvEnds ==
  /\ task = "recv"
  /\ state[conn] = "closed"
  /\ task' = "close"
  /\ UNCHANGED <<regs, sockets, listening, waiting, conn, netVars>>

Close ==
  /\ task = "close"
  /\ Disconnected({conn})
  /\ conn' = NoMaster
  /\ sockets' = sockets - 1
  /\ task' = "accept"
  /\ UNCHANGED <<regs, listening, waiting>>

-----------------------------------------------------------------------------
(* The masters and TCP.                                                    *)

Connect(m) ==
  /\ listening /\ state[m] = "off" /\ Len(waiting) < Backlog
  /\ state' = [state EXCEPT ![m] = "open"]
  /\ waiting' = Append(waiting, m)
  /\ UNCHANGED <<regs, task, sockets, listening, conn, wire, torn, asks, replies>>

\* The parts of a request that is split after k bytes, or not
Parts(r, k) ==
  IF k = Whole THEN <<[at |-> 0, length |-> Whole, request |-> r]>>
  ELSE <<[at |-> 0, length |-> k, request |-> r],
         [at |-> k, length |-> Whole - k, request |-> r]>>

Send(m, r, k) ==
  /\ state[m] = "open" /\ m \notin asks
  /\ k # Whole => m \notin torn
  /\ wire' = [wire EXCEPT ![m] = @ \o Parts(r, k)]
  /\ torn' = IF k = Whole THEN torn ELSE torn \cup {m}
  /\ asks' = asks \cup {m}
  /\ UNCHANGED <<regs, task, sockets, listening, waiting, conn, state, replies>>

Receive(m) ==
  /\ state[m] = "open" /\ replies[m] # <<>>
  /\ replies' = [replies EXCEPT ![m] = Tail(@)]
  /\ asks' = asks \ {m}
  /\ UNCHANGED <<regs, task, sockets, listening, waiting, conn, state, wire, torn>>

\* A master ends its connection, whether it waits for an answer or not, or the
\* connection breaks.
Leave(m) ==
  /\ state[m] = "open"
  /\ state' = [state EXCEPT ![m] = "closed"]
  /\ UNCHANGED <<regs, task, sockets, listening, waiting, conn, wire, torn, asks, replies>>

-----------------------------------------------------------------------------
ListenStep ==
  OpenSocket \/ SocketFails \/ Bind \/ Listen \/ BindOrListenFails \/ DelayEnds
ServeStep == Accept \/ Recv \/ RecvEnds \/ Close

MasterStep(m) ==
  \/ Connect(m) \/ Receive(m) \/ Leave(m)
  \/ \E r \in Requests, k \in Splits \cup {Whole} : Send(m, r, k)

ModbusNext ==
  \/ CreateTask \/ ListenStep \/ AcceptFails \/ ServeStep
  \/ \E m \in Masters : MasterStep(m)

ModbusSpec == ModbusInit /\ [][ModbusNext]_modbusVars

-----------------------------------------------------------------------------
(* Properties.                                                             *)

Part == [at : 0..Whole, length : 1..Whole, request : Requests]

ModbusTypeOK ==
  /\ regs \in [0..RegCount - 1 -> RegValues]
  /\ task \in {"none", "missing", "socket", "bind", "listen", "delay", "accept", "recv", "close"}
  /\ sockets \in Nat /\ listening \in BOOLEAN
  /\ waiting \in Seq(Masters) /\ conn \in Masters \cup {NoMaster}
  /\ state \in [Masters -> {"off", "open", "closed"}]
  /\ wire \in [Masters -> Seq(Part)]
  /\ torn \subseteq Masters /\ asks \subseteq Masters

\* No request, whatever its bytes and however it arrives, reads or writes beyond
\* the array of registers.
WithinRegisters ==
  /\ DOMAIN regs = 0..RegCount - 1
  /\ \A m \in Masters : \A k \in DOMAIN replies[m] : -1 \notin ToSet(replies[m][k].values)

\* The sockets that are open are the ones the task will close: no way through
\* the errors and retries leaks one.
NoSocketLeaks ==
  sockets = (IF task \in {"bind", "listen", "accept", "recv", "close"} THEN 1 ELSE 0)
              + (IF conn # NoMaster THEN 1 ELSE 0)

\* As long as TCP delivers its requests whole, there is exactly one request or
\* answer on its way for a master that waits, and none for one that does not:
\* no request is lost, and no answer is taken for that to a later request.
OneAnswer ==
  \A m \in Masters \ torn :
    Len(wire[m]) + Len(replies[m]) = (IF m \in asks THEN 1 ELSE 0)

\* A master that has connected is served in its turn, whatever those before it
\* send and however they leave: it is its turn, or it has left, or the port is
\* closed.  Only a master that keeps its connection for ever keeps the others
\* out for ever, for recv has no timeout.
ServedInTurn ==
  \/ \A m \in Masters : m \in ToSet(waiting) ~> conn = m \/ state[m] = "off"
  \/ \E m \in Masters : <>[](conn = m /\ state[m] = "open")
=============================================================================
