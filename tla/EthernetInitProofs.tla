------------------------- MODULE EthernetInitProofs -------------------------
(***************************************************************************)
(* Proofs about EthernetInit, for any of the numbers of interfaces that    *)
(* the build can have and any number of calls of the two functions.        *)
(***************************************************************************)
EXTENDS EthernetInit, TLAPS

Places == {"out", "service", "bus", "interface", "install", "done", "remove",
           "undefined"}

FlagTypeOK == byEth \in BOOLEAN /\ bus \in BOOLEAN /\ array \in BOOLEAN /\ handles \in BOOLEAN

SetTypeOK ==
  /\ service \in {"none", "eth", "other"}
  /\ macs \subseteq Interfaces /\ phys \subseteq Interfaces
  /\ drivers \subseteq Interfaces /\ lost \subseteq Interfaces
  /\ running \subseteq Interfaces
  /\ made \subseteq {"mac", "phy"}
  /\ at \in Places
  /\ count \in 0..Count

\* The index stays within the array while it is used.
IndexInArray ==
  /\ at \in {"service", "bus", "interface", "install"} => count < Count
  /\ at \in {"service", "bus"} => count = Internal
  /\ at = "done" => count = Count
  /\ at = "out" => count = 0

\* The instances are those of installed drivers and, between the creation and
\* the installation of a driver, those just made.
InstancesOfDrivers ==
  /\ at # "install" => made = {} /\ macs = drivers /\ phys = drivers
  /\ at = "install" =>
       /\ macs = drivers \cup {k \in {count + 1} : "mac" \in made}
       /\ phys = drivers \cup {k \in {count + 1} : "phy" \in made}

\* What a call of example_eth_init has achieved so far, and what a call of
\* example_eth_deinit has undone.
Progress ==
  /\ at \in {"service", "bus", "interface", "install", "done"} => drivers = 1..count
  /\ at = "remove" => drivers \cap 1..count = {}
  /\ at = "out" /\ ~handles => drivers = {}

\* When the driver of an SPI interface has been lost, the bus stays initialised,
\* and no call succeeds any more.
LostForGood ==
  lost \subseteq 1..Internal \/
    /\ bus /\ ~handles
    /\ at \in {"out", "service", "bus", "interface", "install"}
    /\ at \in {"interface", "install"} => count < Internal

\* The array belongs to a call in progress or to the program; the bus and the
\* interrupt service are there before the first SPI interface.
Held ==
  /\ at \in {"service", "bus", "interface", "install", "done"} => ~handles /\ array
  /\ at \in {"remove", "undefined"} => handles
  /\ handles => array /\ bus /\ service # "none"
  /\ at = "bus" => service # "none"
  /\ at \in {"interface", "install", "done"} /\ count >= Internal => bus /\ service # "none"

\* The interrupt service that Ethernet has installed is known to be its own.
OwnServiceIsKnown == service = "eth" => byEth

IInv ==
  /\ SetTypeOK /\ FlagTypeOK /\ IndexInArray /\ InstancesOfDrivers /\ Progress
  /\ Held /\ LostForGood /\ OwnServiceIsKnown

-----------------------------------------------------------------------------
(* The constants, and that each action preserves the invariant.            *)

LEMMA Numbers == Internal \in {0, 1} /\ Count \in Nat /\ Count > Internal /\ Internal + 1 <= Count
  BY EthernetAssumption DEF Count

LEMMA InitIInv == EthInit => IInv
  <1> SUFFICES ASSUME EthInit PROVE IInv
    OBVIOUS
  <1>1. SetTypeOK
    BY Numbers DEF EthInit, SetTypeOK, Places
  <1>2. FlagTypeOK
    BY DEF EthInit, FlagTypeOK
  <1>3. IndexInArray /\ InstancesOfDrivers /\ Progress /\ LostForGood /\ OwnServiceIsKnown
    BY DEF EthInit, IndexInArray, InstancesOfDrivers, Progress, LostForGood, OwnServiceIsKnown
  <1>4. Held
    BY DEF EthInit, Held
  <1>5. QED
    BY <1>1, <1>2, <1>3, <1>4 DEF IInv

LEMMA FlagsKept ==
  ASSUME FlagTypeOK, [EthNext]_ethVars PROVE FlagTypeOK'
  <1>1. CASE BeginInit
    BY <1>1, Numbers DEF BeginInit, Resources, FlagTypeOK
  <1>2. CASE InstallService
    BY <1>2, Numbers DEF InstallService, Resources, FailInit, FlagTypeOK
  <1>3. CASE InitBus
    BY <1>3, Numbers DEF InitBus, Resources, FailInit, FlagTypeOK
  <1>4. CASE NewInstances
    BY <1>4, Numbers DEF NewInstances, Resources, Interfaces, FlagTypeOK
  <1>5. CASE Install
    BY <1>5, Numbers DEF Install, Resources, AfterInterface, FlagTypeOK
  <1>6. CASE InstallFails
    BY <1>6, Numbers DEF InstallFails, Resources, WithoutMade, FailInit, FlagTypeOK
  <1>7. CASE EndInit
    BY <1>7, Numbers DEF EndInit, Resources, FlagTypeOK
  <1>8. CASE BeginDeinit
    BY <1>8, Numbers DEF BeginDeinit, Resources, FlagTypeOK
  <1>9. CASE RemoveInterface
    BY <1>9, Numbers DEF RemoveInterface, Resources, Interfaces, FlagTypeOK
  <1>10. CASE UninstallFails
    BY <1>10, Numbers DEF UninstallFails, Resources, FlagTypeOK
  <1>11. CASE UseReleased
    BY <1>11, Numbers DEF UseReleased, Resources, FlagTypeOK
  <1>12. CASE EndDeinit
    BY <1>12, Numbers DEF EndDeinit, OnBus, Resources, ServiceAfterDeinit, FlagTypeOK
  <1>13. CASE Program
    BY <1>13, Numbers DEF Program, UseDriver, LeaveDriver, OtherInstalls, OtherUninstalls,
       Elsewhere, Resources, FlagTypeOK
  <1>14. CASE UNCHANGED ethVars
    BY <1>14 DEF ethVars, Resources, FlagTypeOK
  <1>15. QED
    BY <1>1, <1>2, <1>3, <1>4, <1>5, <1>6, <1>7, <1>8, <1>9, <1>10, <1>11, <1>12, <1>13, <1>14
       DEF EthNext, InitCall, DeinitCall

LEMMA FailKeepsSets ==
  ASSUME SetTypeOK, NEW m \in SUBSET Interfaces, NEW p \in SUBSET Interfaces, FailInit(m, p)
  PROVE  /\ macs' \subseteq Interfaces /\ phys' \subseteq Interfaces
         /\ drivers' \subseteq Interfaces /\ lost' \subseteq Interfaces
         /\ at' = "out" /\ count' \in 0..Count
  BY Numbers DEF SetTypeOK, FailInit

LEMMA SetsKept ==
  ASSUME SetTypeOK, IndexInArray, [EthNext]_ethVars PROVE SetTypeOK'
  <1>1. CASE BeginInit
    BY <1>1, Numbers DEF BeginInit, Resources, SetTypeOK, IndexInArray, Places, Interfaces
  <1>2. CASE InstallService
    <2>1. service' \in {"none", "eth", "other"} /\ UNCHANGED <<running, made>>
      BY <1>2 DEF InstallService, SetTypeOK
    <2>2. CASE FailInit(macs, phys)
      BY <2>1, <2>2, FailKeepsSets DEF SetTypeOK, Places
    <2>3. CASE at' = "bus" /\ UNCHANGED <<Resources, count>>
      BY <2>1, <2>3 DEF Resources, SetTypeOK, Places
    <2>4. QED
      BY <1>2, <2>2, <2>3 DEF InstallService, Resources
  <1>3. CASE InitBus
    <2>1. UNCHANGED <<service, running, made>>
      BY <1>3 DEF InitBus
    <2>2. CASE FailInit(macs, phys)
      BY <2>1, <2>2, FailKeepsSets DEF SetTypeOK, Places
    <2>3. CASE at' = "interface" /\ UNCHANGED <<Resources, count>>
      BY <2>1, <2>3 DEF Resources, SetTypeOK, Places
    <2>4. QED
      BY <1>3, <2>2, <2>3 DEF InitBus, Resources
  <1>4. CASE NewInstances
    BY <1>4, Numbers DEF NewInstances, Resources, Interfaces, SetTypeOK, IndexInArray, Places
  <1>5. CASE Install
    BY <1>5, Numbers DEF Install, Resources, AfterInterface, SetTypeOK, IndexInArray, Places, Interfaces
  <1>6. CASE InstallFails
    BY <1>6, Numbers DEF InstallFails, Resources, WithoutMade, FailInit, SetTypeOK, IndexInArray, Places, Interfaces
  <1>7. CASE EndInit
    BY <1>7, Numbers DEF EndInit, Resources, SetTypeOK, IndexInArray, Places, Interfaces
  <1>8. CASE BeginDeinit
    BY <1>8, Numbers DEF BeginDeinit, Resources, SetTypeOK, IndexInArray, Places, Interfaces
  <1>9. CASE RemoveInterface
    BY <1>9, Numbers DEF RemoveInterface, Resources, Interfaces, SetTypeOK, IndexInArray, Places
  <1>10. CASE UninstallFails
    BY <1>10, Numbers DEF UninstallFails, Resources, SetTypeOK, IndexInArray, Places, Interfaces
  <1>11. CASE UseReleased
    BY <1>11, Numbers DEF UseReleased, Resources, SetTypeOK, IndexInArray, Places, Interfaces
  <1>12. CASE EndDeinit
    BY <1>12, Numbers DEF EndDeinit, OnBus, Resources, ServiceAfterDeinit, SetTypeOK, IndexInArray, Places, Interfaces
  <1>13. CASE Program
    BY <1>13, Numbers DEF Program, UseDriver, LeaveDriver, OtherInstalls, OtherUninstalls,
       Elsewhere, Resources, SetTypeOK, IndexInArray, Places, Interfaces
  <1>14. CASE UNCHANGED ethVars
    BY <1>14 DEF ethVars, Resources, SetTypeOK, IndexInArray, Places, Interfaces
  <1>15. QED
    BY <1>1, <1>2, <1>3, <1>4, <1>5, <1>6, <1>7, <1>8, <1>9, <1>10, <1>11, <1>12, <1>13, <1>14
       DEF EthNext, InitCall, DeinitCall

LEMMA IndexKept ==
  ASSUME SetTypeOK, IndexInArray, [EthNext]_ethVars PROVE IndexInArray'
  <1>1. CASE BeginInit
    BY <1>1, Numbers DEF BeginInit, Resources, SetTypeOK, IndexInArray
  <1>2. CASE InstallService
    BY <1>2, Numbers DEF InstallService, Resources, FailInit, SetTypeOK, IndexInArray
  <1>3. CASE InitBus
    BY <1>3, Numbers DEF InitBus, Resources, FailInit, SetTypeOK, IndexInArray
  <1>4. CASE NewInstances
    BY <1>4, Numbers DEF NewInstances, Resources, Interfaces, SetTypeOK, IndexInArray
  <1>5. CASE Install
    BY <1>5, Numbers DEF Install, Resources, AfterInterface, SetTypeOK, IndexInArray
  <1>6. CASE InstallFails
    BY <1>6, Numbers DEF InstallFails, Resources, WithoutMade, FailInit, SetTypeOK, IndexInArray
  <1>7. CASE EndInit
    BY <1>7, Numbers DEF EndInit, Resources, SetTypeOK, IndexInArray
  <1>8. CASE BeginDeinit
    BY <1>8, Numbers DEF BeginDeinit, Resources, SetTypeOK, IndexInArray
  <1>9. CASE RemoveInterface
    BY <1>9, Numbers DEF RemoveInterface, Resources, Interfaces, SetTypeOK, IndexInArray
  <1>10. CASE UninstallFails
    BY <1>10, Numbers DEF UninstallFails, Resources, SetTypeOK, IndexInArray
  <1>11. CASE UseReleased
    BY <1>11, Numbers DEF UseReleased, Resources, SetTypeOK, IndexInArray
  <1>12. CASE EndDeinit
    BY <1>12, Numbers DEF EndDeinit, OnBus, Resources, ServiceAfterDeinit, SetTypeOK, IndexInArray
  <1>13. CASE Program
    BY <1>13, Numbers DEF Program, UseDriver, LeaveDriver, OtherInstalls, OtherUninstalls,
       Elsewhere, Resources, SetTypeOK, IndexInArray
  <1>14. CASE UNCHANGED ethVars
    BY <1>14 DEF ethVars, Resources, SetTypeOK, IndexInArray
  <1>15. QED
    BY <1>1, <1>2, <1>3, <1>4, <1>5, <1>6, <1>7, <1>8, <1>9, <1>10, <1>11, <1>12, <1>13, <1>14
       DEF EthNext, InitCall, DeinitCall

LEMMA InstancesKept ==
  ASSUME SetTypeOK, Progress, InstancesOfDrivers, [EthNext]_ethVars PROVE InstancesOfDrivers'
  <1>1. CASE BeginInit
    BY <1>1, Numbers DEF BeginInit, Resources, SetTypeOK, InstancesOfDrivers
  <1>2. CASE InstallService
    BY <1>2, Numbers DEF InstallService, Resources, FailInit, SetTypeOK, InstancesOfDrivers
  <1>3. CASE InitBus
    BY <1>3, Numbers DEF InitBus, Resources, FailInit, SetTypeOK, InstancesOfDrivers
  <1>4. CASE NewInstances
    <2>1. at # "install" /\ macs = drivers /\ phys = drivers /\ drivers' = drivers /\ count' = count
      BY <1>4 DEF NewInstances, InstancesOfDrivers
    <2>2. macs' = drivers' \cup {k \in {count' + 1} : "mac" \in made'}
      BY <1>4, <2>1 DEF NewInstances
    <2>3. phys' = drivers' \cup {k \in {count' + 1} : "phy" \in made'}
      BY <1>4, <2>1 DEF NewInstances
    <2>4. at' = "install"
      BY <1>4 DEF NewInstances
    <2>5. QED
      BY <2>2, <2>3, <2>4 DEF InstancesOfDrivers
  <1>5. CASE Install
    BY <1>5, Numbers DEF Install, Resources, AfterInterface, SetTypeOK, InstancesOfDrivers
  <1>6. CASE InstallFails
    BY <1>6, Numbers DEF InstallFails, Resources, WithoutMade, FailInit, SetTypeOK, InstancesOfDrivers
  <1>7. CASE EndInit
    BY <1>7, Numbers DEF EndInit, Resources, SetTypeOK, InstancesOfDrivers
  <1>8. CASE BeginDeinit
    BY <1>8, Numbers DEF BeginDeinit, Resources, SetTypeOK, InstancesOfDrivers
  <1>9. CASE RemoveInterface
    BY <1>9, Numbers DEF RemoveInterface, Resources, Interfaces, SetTypeOK, InstancesOfDrivers
  <1>10. CASE UninstallFails
    BY <1>10, Numbers DEF UninstallFails, Resources, SetTypeOK, InstancesOfDrivers
  <1>11. CASE UseReleased
    BY <1>11, Numbers DEF UseReleased, Resources, SetTypeOK, InstancesOfDrivers
  <1>12. CASE EndDeinit
    BY <1>12, Numbers DEF EndDeinit, OnBus, Resources, ServiceAfterDeinit, SetTypeOK, InstancesOfDrivers
  <1>13. CASE Program
    BY <1>13, Numbers DEF Program, UseDriver, LeaveDriver, OtherInstalls, OtherUninstalls,
       Elsewhere, Resources, SetTypeOK, InstancesOfDrivers
  <1>14. CASE UNCHANGED ethVars
    BY <1>14 DEF ethVars, Resources, SetTypeOK, InstancesOfDrivers
  <1>15. QED
    BY <1>1, <1>2, <1>3, <1>4, <1>5, <1>6, <1>7, <1>8, <1>9, <1>10, <1>11, <1>12, <1>13, <1>14
       DEF EthNext, InitCall, DeinitCall

LEMMA ProgressKept ==
  ASSUME SetTypeOK, IndexInArray, Progress, InstancesOfDrivers, Held, [EthNext]_ethVars PROVE Progress'
  <1>1. CASE BeginInit
    BY <1>1, Numbers DEF BeginInit, Resources, SetTypeOK, Progress, InstancesOfDrivers
  <1>2. CASE InstallService
    BY <1>2, Numbers DEF InstallService, Resources, FailInit, SetTypeOK, Progress, InstancesOfDrivers
  <1>3. CASE InitBus
    BY <1>3, Numbers DEF InitBus, Resources, FailInit, SetTypeOK, Progress, InstancesOfDrivers
  <1>4. CASE NewInstances
    BY <1>4, Numbers DEF NewInstances, Resources, Interfaces, SetTypeOK, Progress, InstancesOfDrivers
  <1>5. CASE Install
    BY <1>5, Numbers DEF Install, Resources, AfterInterface, SetTypeOK, Progress, InstancesOfDrivers
  <1>6. CASE InstallFails
    BY <1>6, Numbers DEF InstallFails, Resources, WithoutMade, FailInit, SetTypeOK, Progress, InstancesOfDrivers
  <1>7. CASE EndInit
    BY <1>7, Numbers DEF EndInit, Resources, SetTypeOK, Progress, InstancesOfDrivers
  <1>8. CASE BeginDeinit
    <2>1. count = 0 /\ count' = 0 /\ at' = "remove" /\ drivers' = drivers
      BY <1>8 DEF BeginDeinit, Resources, IndexInArray
    <2>2. QED
      BY <2>1 DEF Progress
  <1>9. CASE RemoveInterface
    BY <1>9, Numbers DEF RemoveInterface, Resources, Interfaces, SetTypeOK, Progress, InstancesOfDrivers
  <1>10. CASE UninstallFails
    BY <1>10 DEF UninstallFails, Resources, Progress, Held
  <1>11. CASE UseReleased
    BY <1>11, Numbers DEF UseReleased, Resources, SetTypeOK, Progress, InstancesOfDrivers
  <1>12. CASE EndDeinit
    <2>1. drivers = {} /\ drivers' = drivers /\ at' = "out"
      BY <1>12 DEF EndDeinit, Resources, SetTypeOK, Progress, Interfaces
    <2>2. QED
      BY <2>1 DEF Progress
  <1>13. CASE Program
    BY <1>13, Numbers DEF Program, UseDriver, LeaveDriver, OtherInstalls, OtherUninstalls,
       Elsewhere, Resources, SetTypeOK, Progress, InstancesOfDrivers
  <1>14. CASE UNCHANGED ethVars
    BY <1>14 DEF ethVars, Resources, SetTypeOK, Progress, InstancesOfDrivers
  <1>15. QED
    BY <1>1, <1>2, <1>3, <1>4, <1>5, <1>6, <1>7, <1>8, <1>9, <1>10, <1>11, <1>12, <1>13, <1>14
       DEF EthNext, InitCall, DeinitCall

LEMMA HeldKept ==
  ASSUME SetTypeOK, IndexInArray, Held, [EthNext]_ethVars PROVE Held'
  <1>1. CASE BeginInit
    BY <1>1, Numbers DEF BeginInit, Resources, SetTypeOK, IndexInArray, Held
  <1>2. CASE InstallService
    BY <1>2, Numbers DEF InstallService, Resources, FailInit, SetTypeOK, IndexInArray, Held
  <1>3. CASE InitBus
    BY <1>3, Numbers DEF InitBus, Resources, FailInit, SetTypeOK, IndexInArray, Held
  <1>4. CASE NewInstances
    BY <1>4, Numbers DEF NewInstances, Resources, Interfaces, SetTypeOK, IndexInArray, Held
  <1>5. CASE Install
    BY <1>5, Numbers DEF Install, Resources, AfterInterface, SetTypeOK, IndexInArray, Held
  <1>6. CASE InstallFails
    BY <1>6, Numbers DEF InstallFails, Resources, WithoutMade, FailInit, SetTypeOK, IndexInArray, Held
  <1>7. CASE EndInit
    BY <1>7, Numbers DEF EndInit, Resources, SetTypeOK, IndexInArray, Held
  <1>8. CASE BeginDeinit
    BY <1>8, Numbers DEF BeginDeinit, Resources, SetTypeOK, IndexInArray, Held
  <1>9. CASE RemoveInterface
    BY <1>9, Numbers DEF RemoveInterface, Resources, Interfaces, SetTypeOK, IndexInArray, Held
  <1>10. CASE UninstallFails
    BY <1>10, Numbers DEF UninstallFails, Resources, SetTypeOK, IndexInArray, Held
  <1>11. CASE UseReleased
    BY <1>11, Numbers DEF UseReleased, Resources, SetTypeOK, IndexInArray, Held
  <1>12. CASE EndDeinit
    BY <1>12, Numbers DEF EndDeinit, OnBus, Resources, ServiceAfterDeinit, SetTypeOK, IndexInArray, Held
  <1>13. CASE Program
    BY <1>13, Numbers DEF Program, UseDriver, LeaveDriver, OtherInstalls, OtherUninstalls,
       Elsewhere, Resources, SetTypeOK, IndexInArray, Held
  <1>14. CASE UNCHANGED ethVars
    BY <1>14 DEF ethVars, Resources, SetTypeOK, IndexInArray, Held
  <1>15. QED
    BY <1>1, <1>2, <1>3, <1>4, <1>5, <1>6, <1>7, <1>8, <1>9, <1>10, <1>11, <1>12, <1>13, <1>14
       DEF EthNext, InitCall, DeinitCall

LEMMA LostKept ==
  ASSUME SetTypeOK, IndexInArray, Progress, Held, LostForGood, [EthNext]_ethVars
  PROVE  LostForGood'
  <1>1. CASE BeginInit
    BY <1>1, Numbers DEF BeginInit, Resources, LostForGood
  <1>2. CASE InstallService
    <2>1. drivers = 1..Internal
      BY <1>2 DEF InstallService, Progress, IndexInArray
    <2>2. CASE FailInit(macs, phys)
      BY <1>2, <2>1, <2>2 DEF InstallService, FailInit, Held, LostForGood
    <2>3. CASE at' = "bus" /\ UNCHANGED <<Resources, count>>
      BY <1>2, <2>3 DEF InstallService, Resources, LostForGood
    <2>4. QED
      BY <1>2, <2>2, <2>3 DEF InstallService, Resources
  <1>3. CASE InitBus
    <2>1. drivers = 1..Internal
      BY <1>3 DEF InitBus, Progress, IndexInArray
    <2>2. CASE FailInit(macs, phys)
      BY <1>3, <2>1, <2>2 DEF InitBus, FailInit, Held, LostForGood
    <2>3. CASE at' = "interface" /\ ~bus /\ UNCHANGED <<Resources, count>>
      BY <1>3, <2>3 DEF InitBus, Resources, LostForGood
    <2>4. QED
      BY <1>3, <2>2, <2>3 DEF InitBus, Resources
  <1>4. CASE NewInstances
    BY <1>4 DEF NewInstances, LostForGood
  <1>5. CASE Install
    <2>1. CASE lost \subseteq 1..Internal
      BY <1>5, <2>1 DEF Install, LostForGood
    <2>2. CASE ~(lost \subseteq 1..Internal)
      <3>1. bus /\ ~handles /\ count < Internal
        BY <1>5, <2>2 DEF Install, LostForGood
      <3>2. count + 1 = Internal /\ Internal # Count
        BY <3>1, Numbers DEF SetTypeOK
      <3>3. at' = "service"
        BY <1>5, <3>2 DEF Install, AfterInterface
      <3>4. QED
        BY <1>5, <3>1, <3>3 DEF Install, LostForGood
    <2>3. QED
      BY <2>1, <2>2
  <1>6. CASE InstallFails
    <2>1. drivers = 1..count /\ ~handles
      BY <1>6 DEF InstallFails, Progress, Held
    <2>2. CASE count < Internal
      <3>1. drivers \subseteq 1..Internal
        BY <2>1, <2>2, Numbers DEF SetTypeOK
      <3>2. QED
        BY <1>6, <2>1, <3>1 DEF InstallFails, FailInit, LostForGood
    <2>3. CASE count >= Internal
      BY <1>6, <2>1, <2>3 DEF InstallFails, FailInit, Held, LostForGood
    <2>4. QED
      BY <2>2, <2>3, Numbers DEF SetTypeOK
  <1>7. CASE EndInit
    BY <1>7 DEF EndInit, Resources, LostForGood
  <1>8. CASE BeginDeinit
    BY <1>8 DEF BeginDeinit, Resources, LostForGood
  <1>9. CASE RemoveInterface
    BY <1>9 DEF RemoveInterface, LostForGood
  <1>10. CASE UninstallFails
    BY <1>10 DEF UninstallFails, Resources, LostForGood
  <1>11. CASE UseReleased
    BY <1>11 DEF UseReleased, Resources, LostForGood
  <1>12. CASE EndDeinit
    BY <1>12 DEF EndDeinit, Resources, LostForGood
  <1>13. CASE Program
    BY <1>13 DEF Program, UseDriver, LeaveDriver, OtherInstalls, OtherUninstalls, Elsewhere,
       Resources, LostForGood
  <1>14. CASE UNCHANGED ethVars
    BY <1>14 DEF ethVars, Resources, LostForGood
  <1>15. QED
    BY <1>1, <1>2, <1>3, <1>4, <1>5, <1>6, <1>7, <1>8, <1>9, <1>10, <1>11, <1>12, <1>13, <1>14
       DEF EthNext, InitCall, DeinitCall

LEMMA OwnServiceKept ==
  ASSUME OwnServiceIsKnown, [EthNext]_ethVars PROVE OwnServiceIsKnown'
  <1>1. CASE BeginInit
    BY <1>1, Numbers DEF BeginInit, Resources, OwnServiceIsKnown
  <1>2. CASE InstallService
    BY <1>2, Numbers DEF InstallService, Resources, FailInit, OwnServiceIsKnown
  <1>3. CASE InitBus
    BY <1>3, Numbers DEF InitBus, Resources, FailInit, OwnServiceIsKnown
  <1>4. CASE NewInstances
    BY <1>4, Numbers DEF NewInstances, Resources, Interfaces, OwnServiceIsKnown
  <1>5. CASE Install
    BY <1>5, Numbers DEF Install, Resources, AfterInterface, OwnServiceIsKnown
  <1>6. CASE InstallFails
    BY <1>6, Numbers DEF InstallFails, Resources, WithoutMade, FailInit, OwnServiceIsKnown
  <1>7. CASE EndInit
    BY <1>7, Numbers DEF EndInit, Resources, OwnServiceIsKnown
  <1>8. CASE BeginDeinit
    BY <1>8, Numbers DEF BeginDeinit, Resources, OwnServiceIsKnown
  <1>9. CASE RemoveInterface
    BY <1>9, Numbers DEF RemoveInterface, Resources, Interfaces, OwnServiceIsKnown
  <1>10. CASE UninstallFails
    BY <1>10, Numbers DEF UninstallFails, Resources, OwnServiceIsKnown
  <1>11. CASE UseReleased
    BY <1>11, Numbers DEF UseReleased, Resources, OwnServiceIsKnown
  <1>12. CASE EndDeinit
    BY <1>12, Numbers DEF EndDeinit, OnBus, Resources, ServiceAfterDeinit, OwnServiceIsKnown
  <1>13. CASE Program
    BY <1>13, Numbers DEF Program, UseDriver, LeaveDriver, OtherInstalls, OtherUninstalls,
       Elsewhere, Resources, OwnServiceIsKnown
  <1>14. CASE UNCHANGED ethVars
    BY <1>14 DEF ethVars, Resources, OwnServiceIsKnown
  <1>15. QED
    BY <1>1, <1>2, <1>3, <1>4, <1>5, <1>6, <1>7, <1>8, <1>9, <1>10, <1>11, <1>12, <1>13, <1>14
       DEF EthNext, InitCall, DeinitCall

LEMMA Inductive == IInv /\ [EthNext]_ethVars => IInv'
  BY FlagsKept, SetsKept, IndexKept, InstancesKept, ProgressKept, HeldKept, LostKept,
     OwnServiceKept
     DEF IInv

LEMMA Invariance == EthSpec => []IInv
  BY InitIInv, Inductive, PTL DEF EthSpec

-----------------------------------------------------------------------------
\* Types of the model (eth_handles and eth_cnt stay within the array).
THEOREM EthTypeCorrect == EthSpec => []EthTypeOK
  <1>1. IInv => EthTypeOK
    BY DEF IInv, EthTypeOK, SetTypeOK, FlagTypeOK, Places
  <1>2. QED
    BY <1>1, Invariance, PTL

\* After every failure of eth_init_internal, eth_init_spi and
\* example_eth_deinit, the instances are those of the installed drivers.
THEOREM NoHalfInterfaceEver == EthSpec => []NoHalfInterface
  <1>1. IInv => NoHalfInterface
    BY DEF IInv, NoHalfInterface, InstancesOfDrivers
  <1>2. QED
    BY <1>1, Invariance, PTL

\* example_eth_init returns ESP_OK only with all interfaces, the bus and the
\* interrupt service, and they last until the release.
THEOREM HandlesUsable == EthSpec => []HandlesAreUsable
  <1>1. IInv => HandlesAreUsable
    <2> SUFFICES ASSUME IInv PROVE HandlesAreUsable
      OBVIOUS
    <2>1. at = "done" => drivers = Interfaces
      BY Numbers DEF IInv, SetTypeOK, IndexInArray, Progress, Interfaces
    <2>2. handles => array /\ bus /\ service # "none"
      BY DEF IInv, Held
    <2>3. at = "done" => array /\ bus /\ service # "none"
      <3>1. at = "done" => count >= Internal
        BY Numbers DEF IInv, IndexInArray
      <3>2. QED
        BY <3>1 DEF IInv, Held
    <2>4. QED
      BY <2>1, <2>2, <2>3 DEF HandlesAreUsable
  <1>2. QED
    BY <1>1, Invariance, PTL

LEMMA ReleaseStep ==
  ASSUME IInv, [EthNext]_ethVars, handles, ~handles'
  PROVE  ~array' /\ ~bus' /\ service' # "eth" /\ drivers' = {} /\ macs' = {} /\ phys' = {}
  <1>1. EndDeinit
    BY DEF EthNext, InitCall, DeinitCall, Program, ethVars, IInv, Held, BeginInit, InstallService,
       InitBus, NewInstances, Install, InstallFails, EndInit, BeginDeinit, RemoveInterface,
       UninstallFails, UseReleased, UseDriver, LeaveDriver, OtherInstalls, OtherUninstalls,
       Elsewhere
  <1>2. drivers = {} /\ macs = {} /\ phys = {}
    BY <1>1 DEF EndDeinit, IInv, InstancesOfDrivers, Progress, SetTypeOK, Interfaces
  <1>3. OnBus = {}
    <2>1. lost \subseteq 1..Internal
      BY DEF IInv, LostForGood
    <2>2. QED
      BY <1>2, <2>1 DEF OnBus
  <1>4. QED
    BY <1>1, <1>2, <1>3 DEF EndDeinit, Resources, ServiceAfterDeinit, IInv, OwnServiceIsKnown,
       FlagTypeOK

\* A release by example_eth_deinit that returns ESP_OK leaves nothing of the last
\* example_eth_init behind, whatever earlier calls of it have lost.
THEOREM ReleaseIsComplete == EthSpec => ReleasedCompletely
  <1>1. IInv /\ [EthNext]_ethVars =>
          [handles /\ ~handles' =>
             ~array' /\ ~bus' /\ service' # "eth" /\ drivers' = {} /\ macs' = {}
             /\ phys' = {}]_ethVars
    BY ReleaseStep
  <1>2. QED
    BY <1>1, Invariance, PTL DEF EthSpec, ReleasedCompletely
=============================================================================
