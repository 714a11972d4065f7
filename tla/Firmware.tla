------------------------------ MODULE Firmware ------------------------------
(***************************************************************************)
(* The board with one of the three programs of the repository in its       *)
(* flash: the OPC UA probe, the Modbus TCP probe or the status page; or    *)
(* with another program that uses their Ethernet component in any way that *)
(* it allows.  The three call example_eth_init once when they start, and   *)
(* restart when it fails.                                                  *)
(***************************************************************************)
EXTENDS OpcuaProbe, ModbusProbe, StatusPage, EthernetInit

CONSTANT Images  \* the programs: "opcua", "modbus", "status", "other"

ASSUME ImagesAssumption == Images \subseteq {"opcua", "modbus", "status", "other"}

VARIABLE image  \* the program in the flash

vars == <<image, opcuaVars, modbusVars, statusVars, ethVars>>

\* The cable is of no concern to the other programs.
Init ==
  /\ image \in Images /\ OpcuaInit /\ ModbusInit /\ StatusInit /\ EthInit
  /\ image # "status" => cable

Opcua(A) == image = "opcua" /\ A /\ UNCHANGED <<image, modbusVars, statusVars, ethVars>>
Modbus(A) == image = "modbus" /\ A /\ UNCHANGED <<image, opcuaVars, statusVars, ethVars>>
Page(A) == image = "status" /\ A /\ UNCHANGED <<image, opcuaVars, modbusVars, ethVars>>
Ethernet(A) == image = "other" /\ A /\ UNCHANGED <<image, opcuaVars, modbusVars, statusVars>>

Next == Opcua(OpcuaNext) \/ Modbus(ModbusNext) \/ Page(StatusNext) \/ Ethernet(EthNext)

Spec == Init /\ [][Next]_vars

(***************************************************************************)
(* FreeRTOS runs every task: each blocks or delays in its loop, and select *)
(* and the delays end.  The memory that reading or writing a node takes is *)
(* not always short, at whichever of them: what is tried for ever succeeds *)
(* in the end.  Clients and masters need not do anything.  The cable,      *)
(* addresses and failures come as they like.                               *)
(***************************************************************************)
Fairness ==
  /\ WF_vars(Opcua(ServerStep))
  /\ SF_vars(Opcua(PublishStatus)) /\ SF_vars(Opcua(PublishCount))
  /\ SF_vars(Opcua(\E done \in SUBSET CommandNodes :
                     "reset_command" \in done /\ ProcessCommand(done)))
  /\ WF_vars(Opcua(AppendStep))
  /\ WF_vars(Modbus(ServeStep)) /\ WF_vars(Modbus(ListenStep))
  /\ WF_vars(Page(EventStep))

LiveSpec == Spec /\ Fairness
=============================================================================
