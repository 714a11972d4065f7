---------------------------- MODULE EthernetInit ----------------------------
(***************************************************************************)
(* Acquisition and release of the Ethernet drivers                         *)
(* (components/ethernet_init/ethernet_init.c, the same file in the three   *)
(* programs), with a failure of every call that can fail.  A program calls *)
(* example_eth_init and example_eth_deinit as often as it likes, also      *)
(* after one of them has failed.  The drivers, the SPI bus and the GPIO    *)
(* interrupt service are external; another component of the program may    *)
(* install the interrupt service as well.                                  *)
(*                                                                         *)
(* The firmware has one W5500 on SPI and no internal interface.            *)
(***************************************************************************)
EXTENDS Integers, FiniteSets

CONSTANTS
  Internal,   \* INTERNAL_ETHERNETS_NUM
  SpiModules  \* SPI_ETHERNETS_NUM

ASSUME EthernetAssumption == Internal \in {0, 1} /\ SpiModules \in {1, 2}

\* The interfaces, in the order of the array eth_handles.
Count == Internal + SpiModules
Interfaces == 1..Count

VARIABLES
  service,   \* who has installed the GPIO interrupt service
  byEth,     \* gpio_isr_svc_init_by_eth
  bus,       \* whether the SPI bus is initialised
  macs,      \* interfaces with a MAC instance, those of lost drivers left out
  phys,      \* interfaces with a PHY instance, likewise
  drivers,   \* interfaces whose installed driver is in eth_handles
  lost,      \* interfaces with installed drivers that no handle reaches
  running,   \* interfaces whose driver is started or has an interface attached
  made,      \* the instances that the present eth_init_* has made
  array,     \* whether eth_handles is allocated
  at,        \* where the call of the program is
  count,     \* eth_cnt, or the index i of example_eth_deinit
  handles    \* whether the program holds the handles of a successful call

ethVars == <<service, byEth, bus, macs, phys, drivers, lost, running, made, array,
             at, count, handles>>

Resources == <<macs, phys, drivers, lost>>

EthInit ==
  /\ service = "none" /\ byEth = FALSE /\ bus = FALSE
  /\ macs = {} /\ phys = {} /\ drivers = {} /\ lost = {} /\ running = {}
  /\ made = {} /\ array = FALSE /\ at = "out" /\ count = 0 /\ handles = FALSE

-----------------------------------------------------------------------------
(* example_eth_init                                                        *)

\* The array is allocated.  Without memory nothing has happened.
BeginInit ==
  /\ at = "out" /\ ~handles
  /\ array' = TRUE
  /\ count' = 0
  /\ at' = IF Internal = 1 THEN "interface" ELSE "service"
  /\ UNCHANGED <<service, byEth, bus, Resources, running, made, handles>>

\* The label err: the array is freed, and nothing else.  The drivers that are in
\* it are lost, with their instances; m and p are the instances there are.
FailInit(m, p) ==
  /\ at' = "out"
  /\ array' = FALSE
  /\ count' = 0
  /\ lost' = lost \cup drivers
  /\ drivers' = {}
  /\ macs' = m \ drivers /\ phys' = p \ drivers

\* spi_bus_init, the interrupt service
InstallService ==
  /\ at = "service"
  /\ \/ /\ service = "none"
        /\ service' = "eth" /\ byEth' = TRUE
        /\ at' = "bus"
        /\ UNCHANGED <<Resources, array, count>>
     \/ /\ service # "none"   \* ESP_ERR_INVALID_STATE
        /\ at' = "bus"
        /\ UNCHANGED <<service, byEth, Resources, array, count>>
     \/ /\ FailInit(macs, phys)
        /\ UNCHANGED <<service, byEth>>
  /\ UNCHANGED <<bus, running, made, handles>>

\* Mutant: an error of the SPI bus is not looked at.
BusUnchecked ==
  /\ at = "bus"
  /\ \/ ~bus /\ bus' = TRUE
     \/ UNCHANGED bus
  /\ at' = "interface"
  /\ UNCHANGED <<service, byEth, Resources, running, made, array, count, handles>>

\* spi_bus_init, the bus, which must not be initialised; then the MAC address
\* of the chip is read.
InitBus ==
  /\ at = "bus"
  /\ \/ ~bus /\ bus' = TRUE /\ at' = "interface" /\ UNCHANGED <<Resources, array, count>>
     \/ ~bus /\ bus' = TRUE /\ FailInit(macs, phys)
     \/ UNCHANGED bus /\ FailInit(macs, phys)
  /\ UNCHANGED <<service, byEth, running, made, handles>>

\* eth_init_internal, eth_init_spi: the instances of an interface, beside those
\* of lost drivers.  Whether there can be one is not known, so each may be missing.
NewInstances ==
  /\ at = "interface"
  /\ made' \in SUBSET {"mac", "phy"}
  /\ macs' = IF "mac" \in made' THEN macs \cup {count + 1} ELSE macs
  /\ phys' = IF "phy" \in made' THEN phys \cup {count + 1} ELSE phys
  /\ at' = "install"
  /\ UNCHANGED <<service, byEth, bus, drivers, lost, running, array, count, handles>>

\* The next interface, the SPI bus before the first one that needs it, or the
\* end of example_eth_init.
AfterInterface(i) ==
  IF i = Count THEN "done" ELSE IF i = Internal THEN "service" ELSE "interface"

\* esp_eth_driver_install and, on SPI, the MAC address
Install ==
  /\ at = "install"
  /\ made = {"mac", "phy"}
  /\ drivers' = drivers \cup {count + 1}
  /\ count' = count + 1
  /\ at' = AfterInterface(count + 1)
  /\ made' = {}
  /\ UNCHANGED <<service, byEth, bus, macs, phys, lost, running, array, handles>>

\* Mutant: the PHY instance is not deleted.
WithoutMac(kind, instances) ==
  IF kind = "mac" /\ kind \in made THEN instances \ {count + 1} ELSE instances

\* The label err of eth_init_internal and eth_init_spi
WithoutMade(kind, instances) ==
  IF kind \in made THEN instances \ {count + 1} ELSE instances

\* One of the two calls fails; a driver that was installed is uninstalled, and
\* example_eth_init fails.
InstallFails ==
  /\ at = "install"
  /\ made' = {}
  /\ FailInit(WithoutMade("mac", macs), WithoutMade("phy", phys))
  /\ UNCHANGED <<service, byEth, bus, running, handles>>

EndInit ==
  /\ at = "done"
  /\ at' = "out"
  /\ count' = 0
  /\ handles' = TRUE
  /\ UNCHANGED <<service, byEth, bus, Resources, running, made, array>>

-----------------------------------------------------------------------------
(* example_eth_deinit, which may be called again when it has returned early. *)

BeginDeinit ==
  /\ at = "out" /\ handles
  /\ at' = "remove"
  /\ UNCHANGED <<service, byEth, bus, Resources, running, made, array, count,
                 handles>>

\* An interface is uninstalled, and its instances are deleted.
RemoveInterface ==
  /\ at = "remove" /\ count < Count
  /\ LET i == count + 1
     IN /\ i \in drivers \ running
        /\ drivers' = drivers \ {i}
        /\ macs' = macs \ {i}
        /\ phys' = phys \ {i}
        /\ count' = i
  /\ UNCHANGED <<service, byEth, bus, lost, running, made, array, at, handles>>

\* An earlier call has uninstalled the driver and returned early after it, and
\* its handle is still in the array: the behaviour is undefined from here on.
UseReleased ==
  /\ at = "remove" /\ count < Count
  /\ count + 1 \notin drivers
  /\ at' = "undefined"
  /\ UNCHANGED <<service, byEth, bus, Resources, running, made, array, count,
                 handles>>

\* A driver that is in use is not uninstalled, and the call returns at once.
UninstallFails ==
  /\ at = "remove" /\ count < Count
  /\ count + 1 \in running
  /\ at' = "out" /\ count' = 0
  /\ UNCHANGED <<service, byEth, bus, Resources, running, made, array, handles>>

\* Mutant: the service is left to others.
NobodysService == service

ServiceAfterDeinit == IF byEth THEN "none" ELSE service

\* The SPI interfaces that have a device on the bus
OnBus == (macs \cup lost) \ 1..Internal

\* The bus is freed, unless there are still devices on it (the result is not
\* looked at), and the service and the array are released.
EndDeinit ==
  /\ at = "remove" /\ count = Count
  /\ bus' = (OnBus # {})
  /\ service' = ServiceAfterDeinit
  /\ array' = FALSE
  /\ handles' = FALSE
  /\ at' = "out" /\ count' = 0
  /\ UNCHANGED <<byEth, Resources, running, made>>

-----------------------------------------------------------------------------
(* The rest of the program.                                                *)

Elsewhere == at = "out" /\ UNCHANGED <<byEth, bus, Resources, made, array, at, count,
                                      handles>>

UseDriver(i) ==
  /\ handles /\ i \in drivers \ running
  /\ running' = running \cup {i}
  /\ Elsewhere /\ UNCHANGED service

LeaveDriver(i) ==
  /\ i \in running
  /\ running' = running \ {i}
  /\ Elsewhere /\ UNCHANGED service

\* Another component installs the interrupt service for itself, and uninstalls
\* it while there is no Ethernet.
OtherInstalls ==
  /\ service = "none" /\ service' = "other"
  /\ Elsewhere /\ UNCHANGED running

OtherUninstalls ==
  /\ service = "other" /\ ~handles /\ service' = "none"
  /\ Elsewhere /\ UNCHANGED running

-----------------------------------------------------------------------------
InitCall ==
  \/ BeginInit \/ InstallService \/ InitBus \/ NewInstances \/ Install
  \/ InstallFails \/ EndInit

DeinitCall ==
  BeginDeinit \/ RemoveInterface \/ UninstallFails \/ UseReleased \/ EndDeinit

Program ==
  \/ \E i \in Interfaces : UseDriver(i) \/ LeaveDriver(i)
  \/ OtherInstalls \/ OtherUninstalls

EthNext == InitCall \/ DeinitCall \/ Program

EthSpec == EthInit /\ [][EthNext]_ethVars

-----------------------------------------------------------------------------
(* Properties.                                                             *)

EthTypeOK ==
  /\ service \in {"none", "eth", "other"}
  /\ byEth \in BOOLEAN /\ bus \in BOOLEAN /\ array \in BOOLEAN /\ handles \in BOOLEAN
  /\ macs \subseteq Interfaces /\ phys \subseteq Interfaces
  /\ drivers \subseteq Interfaces /\ lost \subseteq Interfaces
  /\ running \subseteq Interfaces
  /\ made \subseteq {"mac", "phy"}
  /\ at \in {"out", "service", "bus", "interface", "install", "done", "remove",
            "undefined"}
  /\ count \in 0..Count

\* Whichever call has failed in this or an earlier attempt, every MAC and PHY
\* instance belongs to an installed driver that a handle reaches, or was lost
\* with its driver: none is left over, and none is deleted while its driver is
\* installed.
NoHalfInterface == at # "install" => macs = drivers /\ phys = drivers

\* Although earlier attempts have failed, example_eth_init succeeds only with
\* all interfaces, and a program that holds handles has the bus and the
\* interrupt service, which nobody takes away before the release has ended.
HandlesAreUsable ==
  /\ at = "done" => drivers = Interfaces
  /\ at = "done" \/ handles => array /\ bus /\ service # "none"

\* A release that succeeds gives back all that the last example_eth_init has
\* acquired, and Ethernet's own interrupt service, although earlier attempts have
\* failed and lost drivers for ever: none of these has a device on the SPI bus,
\* which can be initialised again.  (Of the service of another component it says
\* nothing: the code may uninstall that one.)
ReleasedCompletely ==
  [][handles /\ ~handles' =>
       ~array' /\ ~bus' /\ service' # "eth" /\ drivers' = {} /\ macs' = {}
       /\ phys' = {}]_ethVars
=============================================================================
