----------------------------- MODULE OpcuaProbe -----------------------------
(***************************************************************************)
(* The OPC UA probe (opcua_probe/main/opcua_probe_main.c): the main task   *)
(* brings up Ethernet and the SD card, the event task starts the server    *)
(* when an address arrives, the logger task appends rows to the card, and  *)
(* the server task publishes variables that the others write and carries   *)
(* out commands that clients write to its nodes.  The tasks share the      *)
(* variables without a lock.                                               *)
(*                                                                         *)
(* An int32_t is read and written at once.  The nodes are there once they  *)
(* are added; reading and writing them may fail whenever there is no       *)
(* memory.  The heap figures, the mDNS entries and the link messages are   *)
(* left out, and so is the row that a failed write loses.                  *)
(***************************************************************************)
EXTENDS Integers

CONSTANTS
  UaClients,  \* clients of the server
  MaxRows,    \* bound: rows that are told apart, the last number is this or more
  MaxResets   \* bound: last_command_status is counted modulo this number

ASSUME OpcuaAssumption == MaxRows \in Nat \ {0} /\ MaxResets \in Nat \ {0, 1}

\* SD_STATUS_NOT_STARTED, SD_STATUS_OK, ...
NotStarted == 0
StatusOk == 1
BusInitFailed == -1
MountFailed == -2
AppendFailed == -3

\* SimulatedValue after the start and after a reset, and as a client sets it
Simulated == {"initial", "written"}

VARIABLES
  main,         \* where app_main is
  mounted,      \* sd_mounted
  sdStatus,     \* sd_status
  rowCount,     \* sd_append_count
  appender,     \* where append_sd_log_line is, in app_main or sd_logger_task
  taskStarted,  \* opcua_task_started
  handler,      \* where got_ip_event_handler is
  created,      \* tasks created for opcua_server_task
  server,       \* where opcua_server_task is
  nodeStatus,   \* the node sd_status
  nodeCount,    \* the node sd_append_count
  command,      \* the node reset_command
  readable,     \* whether that node has a good status and a scalar value
  simulated,    \* the node simulated_value
  resets,       \* last_command_status, without its node
  asked         \* clients whose reset command is not taken back from its node

cardVars == <<mounted, sdStatus, rowCount, appender>>
startVars == <<taskStarted, handler, created>>
commandVars == <<command, readable, simulated, resets, asked>>
nodeVars == <<nodeStatus, nodeCount, commandVars>>
opcuaVars == <<main, cardVars, startVars, server, nodeVars>>

OpcuaInit ==
  /\ main = "setup"
  /\ mounted = FALSE /\ sdStatus = NotStarted /\ rowCount = 0
  /\ appender = "none"
  /\ taskStarted = FALSE /\ handler = "idle" /\ created = 0 /\ server = "none"
  /\ nodeStatus = NotStarted /\ nodeCount = 0
  /\ command = 0 /\ readable = TRUE /\ simulated = "initial"
  /\ resets = 0 /\ asked = {}

-----------------------------------------------------------------------------
(* app_main.                                                               *)

\* The handlers are registered, then the drivers installed and started.
\* A failure restarts the chip before anything else has happened.
SetUp ==
  /\ main = "setup"
  /\ main' = "mount"
  /\ UNCHANGED <<cardVars, startVars, server, nodeVars>>

\* mount_sd_card: the bus or the card fails, and is not tried again.
MountFails ==
  /\ main = "mount"
  /\ sdStatus' \in {BusInitFailed, MountFailed}
  /\ main' = "beat"
  /\ UNCHANGED <<mounted, rowCount, appender, startVars, server,
                 nodeVars>>

Mount ==
  /\ main = "mount"
  /\ mounted' = TRUE
  /\ main' = "mounted"
  /\ UNCHANGED <<sdStatus, rowCount, appender, startVars, server,
                 nodeVars>>

\* The end of mount_sd_card; sd_logging_probe appends the first row.
MountReturns ==
  /\ main = "mounted"
  /\ sdStatus' = StatusOk
  /\ appender' = "open"
  /\ main' = "append"
  /\ UNCHANGED <<mounted, rowCount, startVars, server, nodeVars>>

\* The logger task is created, or not.
CreateLogger ==
  /\ main = "logger"
  /\ main' = "beat"
  /\ appender' \in {"open", "none"}
  /\ UNCHANGED <<mounted, sdStatus, rowCount, startVars, server,
                 nodeVars>>

-----------------------------------------------------------------------------
(* append_sd_log_line.                                                     *)

\* app_main goes on when its append has returned, and the logger task waits.
AppendReturns ==
  /\ appender' = "delay"
  /\ main' = IF main = "append" THEN "logger" ELSE main

OpenFails ==
  /\ appender = "open"
  /\ sdStatus' = AppendFailed
  /\ AppendReturns
  /\ UNCHANGED <<mounted, rowCount, startVars, server, nodeVars>>

\* The row is written and the file closed.  Both may fail, which is not noticed.
WriteRow ==
  /\ appender = "open"
  /\ sdStatus' = StatusOk
  /\ appender' = "reported"
  /\ UNCHANGED <<main, mounted, rowCount, startVars, server, nodeVars>>

CountRow ==
  /\ appender = "reported"
  /\ rowCount' = IF rowCount = MaxRows THEN MaxRows ELSE rowCount + 1
  /\ AppendReturns
  /\ UNCHANGED <<mounted, sdStatus, startVars, server, nodeVars>>

\* sd_logger_task after its delay
NextRow ==
  /\ main = "beat" /\ appender = "delay"
  /\ appender' = "open"
  /\ UNCHANGED <<main, mounted, sdStatus, rowCount, startVars,
                 server, nodeVars>>

-----------------------------------------------------------------------------
(* got_ip_event_handler, in the event task, as often as an address arrives *)
(* after the drivers are started.                                          *)

\* Mutant: the flag is set by the server when it is up.
NotYetRunning == server \in {"none", "new", "startup", "ended"}

NotYetStarted == ~taskStarted

\* The server task is created.  When that fails nothing changes, and the next
\* address tries again.
GotIp ==
  /\ main # "setup" /\ handler = "idle"
  /\ NotYetStarted
  /\ created' = created + 1
  /\ server' = "new"
  /\ handler' = "created"
  /\ UNCHANGED <<main, cardVars, taskStarted, nodeVars>>

GotIpReturns ==
  /\ handler = "created"
  /\ taskStarted' = TRUE
  /\ handler' = "idle"
  /\ UNCHANGED <<main, cardVars, created, server, nodeVars>>

-----------------------------------------------------------------------------
(* opcua_server_task.  No client is served before the first iteration, so  *)
(* the nodes are added in one step.                                        *)

AddNodes ==
  /\ server = "new"
  /\ nodeStatus' = sdStatus /\ nodeCount' = rowCount
  /\ server' = "startup"
  /\ UNCHANGED <<main, cardVars, startVars, commandVars>>

StartUp ==
  /\ server = "startup"
  /\ server' = "status"
  /\ UNCHANGED <<main, cardVars, startVars, nodeVars>>

\* UA_Server_new or UA_Server_run_startup fails and the task ends.
ServerFails ==
  /\ server \in {"new", "startup"}
  /\ server' = "ended"
  /\ UNCHANGED <<main, cardVars, startVars, nodeVars>>

PublishStatus ==
  /\ server = "status"
  /\ nodeStatus' = sdStatus
  /\ server' = "count"
  /\ UNCHANGED <<main, cardVars, startVars, nodeCount, commandVars>>

\* Mutant: the count is written once, with the nodes.
PublishNothing ==
  /\ server = "count"
  /\ server' = "command"
  /\ UNCHANGED <<main, cardVars, startVars, nodeVars>>

\* Mutant: commands are not looked at in an iteration without news of the card.
CommandAfterNews ==
  /\ server = "count"
  /\ nodeCount' = rowCount
  /\ server' = IF nodeCount = rowCount THEN "iterate" ELSE "command"
  /\ UNCHANGED <<main, cardVars, startVars, nodeStatus, commandVars>>

PublishCount ==
  /\ server = "count"
  /\ nodeCount' = rowCount
  /\ server' = "command"
  /\ UNCHANGED <<main, cardVars, startVars, nodeStatus, commandVars>>

\* write_int32_node fails, which is not noticed: the node keeps its value.
PublishFails ==
  /\ \/ server = "status" /\ server' = "count"
     \/ server = "count" /\ server' = "command"
  /\ UNCHANGED <<main, cardVars, startVars, nodeVars>>

\* Mutant: the command is not taken back.
CommandStays == command

CommandAfterReset == 0

\* process_command_nodes with a command.  Each of its writes may fail: done are
\* the nodes that are written (that of last_command_status, which may be left
\* behind, makes no difference to the server).  When reset_command is not, the
\* command is carried out again.  Clients see the nodes together: the same task
\* serves them.
ProcessCommand(done) ==
  /\ server = "command" /\ readable /\ command = 1
  /\ resets' = (resets + 1) % MaxResets
  /\ simulated' = IF "simulated_value" \in done THEN "initial" ELSE simulated
  /\ command' = IF "reset_command" \in done THEN CommandAfterReset ELSE command
  /\ asked' = IF "reset_command" \in done THEN {} ELSE asked
  /\ server' = "iterate"
  /\ UNCHANGED <<main, cardVars, startVars, nodeStatus, nodeCount, readable>>

CommandNodes == {"simulated_value", "reset_command"}

\* It cannot read the node, for want of memory or because of what a client has
\* written there, or there is no command.
NoCommand ==
  /\ server = "command"
  /\ server' = "iterate"
  /\ UNCHANGED <<main, cardVars, startVars, nodeVars>>

\* In UA_Server_run_iterate a client writes to reset_command: any number, which
\* may have a bad status or be an array and cannot be read then.  A number other
\* than 1, here 0, withdraws the commands of others.
WriteCommand(c, v, good) ==
  /\ server = "iterate"
  /\ command' = v
  /\ readable' = good
  /\ asked' = IF v = 1 THEN asked \cup {c} ELSE {}
  /\ UNCHANGED <<main, cardVars, startVars, server, nodeStatus, nodeCount, simulated,
                 resets>>

WriteSimulated ==
  /\ server = "iterate"
  /\ simulated' = "written"
  /\ UNCHANGED <<main, cardVars, startVars, server, nodeStatus, nodeCount, command,
                 readable, resets, asked>>

IterateReturns ==
  /\ server = "iterate"
  /\ server' = "status"
  /\ UNCHANGED <<main, cardVars, startVars, nodeVars>>

-----------------------------------------------------------------------------
MainTask == SetUp \/ MountFails \/ Mount \/ MountReturns \/ CreateLogger
AppendStep == OpenFails \/ WriteRow \/ CountRow \/ NextRow
EventTask == GotIp \/ GotIpReturns
ServerStep ==
  \/ AddNodes \/ StartUp \/ ServerFails
  \/ PublishStatus \/ PublishCount \/ PublishFails
  \/ NoCommand \/ \E done \in SUBSET CommandNodes : ProcessCommand(done)
  \/ IterateReturns
Clients ==
  \/ \E c \in UaClients, v \in {0, 1}, good \in BOOLEAN : WriteCommand(c, v, good)
  \/ WriteSimulated

OpcuaNext == MainTask \/ AppendStep \/ EventTask \/ ServerStep \/ Clients

OpcuaSpec == OpcuaInit /\ [][OpcuaNext]_opcuaVars

-----------------------------------------------------------------------------
(* Properties.                                                             *)

Loop == {"status", "count", "command", "iterate"}

OpcuaTypeOK ==
  /\ main \in {"setup", "mount", "mounted", "append", "logger", "beat"}
  /\ mounted \in BOOLEAN /\ taskStarted \in BOOLEAN /\ readable \in BOOLEAN
  /\ {sdStatus, nodeStatus} \subseteq -3..1
  /\ appender \in {"none", "open", "reported", "delay"}
  /\ handler \in {"idle", "created"}
  /\ server \in {"none", "new", "startup", "ended"} \cup Loop
  /\ {rowCount, nodeCount, resets, created} \subseteq Nat
  /\ command \in {0, 1} /\ simulated \in Simulated /\ asked \subseteq UaClients

\* However often an address arrives, and whatever became of the server, there
\* is never a second server task on port 4840.
OneServerTask == created <= 1

\* A reset is carried out only while the command of a client is in its node, and
\* one that was taken back is not carried out again: SimulatedValue does not fall
\* back by itself (README.md:295-296), however many writes of nodes have failed.
ResetsAreAsked ==
  [][resets' # resets \/ (simulated # simulated' /\ simulated' = "initial") =>
       asked # {} /\ resets' = (resets + 1) % MaxResets]_opcuaVars

\* A reset command is carried out and taken back, or a client overwrites it, with
\* another number or with a value that cannot be read.
ResetIsAnswered == \A c \in UaClients : c \in asked ~> c \notin asked \/ ~readable

\* Rows are appended for ever, and fail and succeed as they like.  Every row that
\* is counted gets to the clients in the end, and a status that lasts as well.
CardIsPublished ==
  /\ \A n \in 1..MaxRows : (server \in Loop /\ rowCount >= n) ~> nodeCount >= n
  /\ \A s \in -3..1 :
       <>[](server \in Loop /\ sdStatus = s) => <>[](server \in Loop /\ nodeStatus = s)
=============================================================================
