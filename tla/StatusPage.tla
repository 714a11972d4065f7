----------------------------- MODULE StatusPage -----------------------------
(***************************************************************************)
(* The Ethernet status page (ethernet_status/main/ethernet_status_main.c): *)
(* app_main sets a static address and starts the HTTP server, then the     *)
(* Ethernet driver.  The task of the HTTP server formats a page from the   *)
(* link flag and the three words of s_ip_info while the event task writes  *)
(* them.  Nothing is locked.                                               *)
(*                                                                         *)
(* The driver, its netif and the event loop are external: events reach the *)
(* handlers in order, and when the link comes up the netif announces its   *)
(* address.                                                                *)
(***************************************************************************)
EXTENDS Integers, Sequences

CONSTANT MaxEvents  \* bound: events that wait for the event task

ASSUME StatusAssumption == MaxEvents \in Nat \ {0, 1}

VARIABLES
  boot,        \* the step that app_main does next
  registered,  \* whether the handlers are registered
  dhcp,        \* whether the DHCP client runs
  netifIp,     \* the address of the netif
  ipInfo,      \* s_ip_info, word by word
  driver,      \* whether the driver is started
  linkUp,      \* s_link_up
  events,      \* the events that wait: of the link, or the address announced
  copying,     \* the words that got_ip_event_handler has still to copy
  announced,   \* the address that it copies
  http,        \* whether the HTTP server runs
  page,        \* the fields formatted so far
  requested,       \* whether a page is requested for
  cable        \* whether the cable is in

ramVars == <<boot, registered, dhcp, netifIp, ipInfo, driver, linkUp, events,
             copying, announced, http, page, requested>>
statusVars == <<ramVars, cable>>

IpWords == <<"ip", "netmask", "gw">>
Addresses == {"unset", "static", "leased"}

StatusStart ==
  /\ boot = "init" /\ registered = FALSE
  /\ dhcp = TRUE /\ netifIp = "unset" /\ ipInfo = [w \in {"ip", "netmask", "gw"} |-> "unset"]
  /\ driver = FALSE /\ linkUp = FALSE
  /\ events = <<>> /\ copying = <<>> /\ announced = "unset"
  /\ http = FALSE /\ page = <<>> /\ requested = FALSE

StatusInit == StatusStart /\ cable \in BOOLEAN

-----------------------------------------------------------------------------
(* app_main.                                                               *)

\* Mutants: the HTTP server, or the driver, is started too early.
HttpFirst ==
  <<"init", "handlers", "http", "dhcp", "ip", "netmask", "gw", "apply", "start", "beat">>
DriverFirst ==
  <<"init", "start", "handlers", "dhcp", "ip", "netmask", "gw", "apply", "http", "beat">>

Order ==
  <<"init", "handlers", "dhcp", "ip", "netmask", "gw", "apply", "http", "start", "beat">>

Step(s) == /\ boot = s
           /\ \E k \in 1..Len(Order) - 1 : Order[k] = s /\ boot' = Order[k + 1]

\* The drivers, the netifs and the event loop are initialised.
InitDrivers ==
  /\ Step("init")
  /\ UNCHANGED <<registered, dhcp, netifIp, ipInfo, driver, linkUp, events, copying,
                 announced, http, page, requested, cable>>

RegisterHandlers ==
  /\ Step("handlers")
  /\ registered' = TRUE
  /\ UNCHANGED <<dhcp, netifIp, ipInfo, driver, linkUp, events, copying, announced,
                 http, page, requested, cable>>

StopDhcp ==
  /\ Step("dhcp")
  /\ dhcp' = FALSE
  /\ UNCHANGED <<registered, netifIp, ipInfo, driver, linkUp, events, copying,
                 announced, http, page, requested, cable>>

\* A word of s_ip_info is set.
SetWord(w) ==
  /\ Step(w)
  /\ ipInfo' = [ipInfo EXCEPT ![w] = "static"]
  /\ UNCHANGED <<registered, dhcp, netifIp, driver, linkUp, events, copying,
                 announced, http, page, requested, cable>>

SetIpInfo ==
  /\ Step("apply")
  /\ netifIp' = ipInfo["ip"]
  /\ UNCHANGED <<registered, dhcp, ipInfo, driver, linkUp, events, copying,
                 announced, http, page, requested, cable>>

StartHttpServer ==
  /\ Step("http")
  /\ http' = TRUE
  /\ UNCHANGED <<registered, dhcp, netifIp, ipInfo, driver, linkUp, events, copying,
                 announced, page, requested, cable>>

StartDriver ==
  /\ Step("start")
  /\ driver' = TRUE
  /\ events' = IF cable THEN Append(events, "connected") ELSE events
  /\ UNCHANGED <<registered, dhcp, netifIp, ipInfo, linkUp, copying, announced,
                 http, page, requested, cable>>

\* ESP_ERROR_CHECK restarts the chip when a call fails.
Restart ==
  /\ boot \in {"init", "handlers", "dhcp", "apply", "http", "start"}
  /\ boot' = "init" /\ registered' = FALSE
  /\ dhcp' = TRUE /\ netifIp' = "unset"
  /\ ipInfo' = [w \in {"ip", "netmask", "gw"} |-> "unset"]
  /\ driver' = FALSE /\ linkUp' = FALSE
  /\ events' = <<>> /\ copying' = <<>> /\ announced' = "unset"
  /\ http' = FALSE /\ page' = <<>> /\ requested' = FALSE
  /\ UNCHANGED cable

-----------------------------------------------------------------------------
(* The event task.                                                         *)

\* The address that the netif announces when the link is up, if it has one
Announcement ==
  IF dhcp THEN <<"leased">> ELSE IF netifIp # "unset" THEN <<netifIp>> ELSE <<>>

\* eth_event_handler and the handler of the netif
LinkEvent ==
  /\ copying = <<>> /\ events # <<>>
  /\ Head(events) \in {"connected", "disconnected"}
  /\ linkUp' = IF registered THEN Head(events) = "connected" ELSE linkUp
  /\ events' = Tail(events)
                 \o (IF Head(events) = "connected" THEN Announcement ELSE <<>>)
  /\ UNCHANGED <<boot, registered, dhcp, netifIp, ipInfo, driver, copying, announced,
                 http, page, requested, cable>>

\* got_ip_event_handler
GotIpEvent ==
  /\ copying = <<>> /\ events # <<>>
  /\ Head(events) \in Addresses
  /\ announced' = Head(events)
  /\ copying' = IF registered THEN IpWords ELSE <<>>
  /\ events' = Tail(events)
  /\ UNCHANGED <<boot, registered, dhcp, netifIp, ipInfo, driver, linkUp, http, page,
                 requested, cable>>

\* It copies the address word by word.
CopyWord ==
  /\ copying # <<>>
  /\ ipInfo' = [ipInfo EXCEPT ![Head(copying)] = announced]
  /\ copying' = Tail(copying)
  /\ UNCHANGED <<boot, registered, dhcp, netifIp, driver, linkUp, events, announced,
                 http, page, requested, cable>>

\* The cable is pulled or plugged in, which the driver announces.
MoveCable ==
  /\ Len(events) < MaxEvents
  /\ cable' = ~cable
  /\ events' = IF driver
               THEN Append(events, IF cable THEN "disconnected" ELSE "connected")
               ELSE events
  /\ UNCHANGED <<boot, registered, dhcp, netifIp, ipInfo, driver, linkUp, copying,
                 announced, http, page, requested>>

-----------------------------------------------------------------------------
(* The task of the HTTP server.                                            *)

AskForPage ==
  /\ http /\ ~requested
  /\ requested' = TRUE
  /\ UNCHANGED <<boot, registered, dhcp, netifIp, ipInfo, driver, linkUp, events,
                 copying, announced, http, page, cable>>

\* status_get_handler reads the variables one after the other.
FormatField ==
  /\ requested /\ Len(page) < 4
  /\ page' = Append(page, IF page # <<>> THEN ipInfo[IpWords[Len(page)]]
                          ELSE IF linkUp THEN "true" ELSE "false")
  /\ UNCHANGED <<boot, registered, dhcp, netifIp, ipInfo, driver, linkUp, events,
                 copying, announced, http, requested, cable>>

SendPage ==
  /\ Len(page) = 4
  /\ page' = <<>> /\ requested' = FALSE
  /\ UNCHANGED <<boot, registered, dhcp, netifIp, ipInfo, driver, linkUp, events,
                 copying, announced, http, cable>>

-----------------------------------------------------------------------------
Boot ==
  \/ InitDrivers \/ RegisterHandlers \/ StopDhcp \/ SetIpInfo \/ StartHttpServer
  \/ StartDriver \/ Restart
  \/ \E w \in {"ip", "netmask", "gw"} : SetWord(w)
EventStep == LinkEvent \/ GotIpEvent \/ CopyWord
HttpStep == AskForPage \/ FormatField \/ SendPage

StatusNext == Boot \/ EventStep \/ MoveCable \/ HttpStep

StatusSpec == StatusInit /\ [][StatusNext]_statusVars

-----------------------------------------------------------------------------
(* Properties.                                                             *)

\* A page never shows an address other than the one that app_main configures,
\* although the event task may be writing the words that it reads: not an empty
\* one from before, not a leased one, not a mixture.
PageShowsAddress == \A k \in 2..Len(page) : page[k] = "static"

\* When the cable is left alone, the link flag is right in the end: no event is
\* missed, neither while the driver is being started nor by a restart.
LinkSettles ==
  \A c \in BOOLEAN : <>[](driver /\ cable = c) => <>[](linkUp = c)
=============================================================================
