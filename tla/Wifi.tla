-------------------------------- MODULE Wifi --------------------------------
(***************************************************************************)
(* The Wifi class (core/network/Wifi.cpp) and the NetworkStatus events     *)
(* that it publishes: the application's thread configures the driver, the  *)
(* event task of ESP-IDF calls wifi_event_callback() with the events of    *)
(* the driver, and the socket dispatcher takes the published status out of *)
(* its queue.  The driver, its event loop, the access point and the DHCP   *)
(* server are external.  Without ESP_PLATFORM the class publishes that it  *)
(* is connected and nothing else ever happens; modelled is the other case. *)
(*                                                                         *)
(* connect_to_ap() is not called for a station that is connected, nor      *)
(* start_softap() for an access point that runs: what the driver makes of  *)
(* a new interface for a running link is not for this model to say.        *)
(***************************************************************************)
EXTENDS Naturals, Sequences

CONSTANTS
    Addresses,      \* the addresses that the DHCP server gives
    SoftApAddress,  \* 192.168.4.1
    NoAddress,      \* 0.0.0.0
    StatusQueue,    \* the size of the subscriber's queue
    MaxCalls,       \* bound: calls of the application
    MaxRadioTrouble \* bound: failures of the radio and of DHCP

VARIABLES
    alive,              \* the Wifi object exists
    mode,               \* esp_wifi_set_mode()
    link,               \* what the driver is doing, see Links
    lease,              \* the address that the DHCP server gave
    interface,          \* the esp_netif: of a station, of an access point, or none
    auto_connect_to_ap, connected_to_ap,
    ip_info,            \* Wifi::ip_info.ip.addr, static
    events,             \* the event loop
    handling,           \* what is left to do of the event being handled
    statuses,           \* the published status that the subscriber has not seen:
                        \*   TRUE for GOT_IP, FALSE for DISCONNECTED
    believes_ip,        \* what the subscriber believes
    missed,             \* history: a full queue refused a status
    given_up,           \* history: a connection ended without auto_connect_to_ap
    calls, radioTrouble

memberVars == <<auto_connect_to_ap, connected_to_ap, ip_info>>
driverVars == <<mode, link, lease, interface>>
statusVars == <<statuses, missed>>
bounds == <<calls, radioTrouble>>
wifiVars == <<alive, driverVars, memberVars, events, handling, statusVars, believes_ip,
              given_up, bounds>>

\* "off": stopped; "idle", "joining", "joined" (to an access point) and
\* "addressed" (by DHCP): of a station; "ap": of a running access point.
Links == {"off", "idle", "joining", "joined", "addressed", "ap"}

Event(id, ip) == [id |-> id, ip |-> ip]
Posted(id) == <<Event(id, NoAddress)>>
Idle == [at |-> "none", ip |-> NoAddress]

\* The constructor registers the handlers.
WifiInit ==
    /\ alive = TRUE
    /\ mode = "none" /\ link = "off" /\ lease = NoAddress /\ interface = "none"
    /\ auto_connect_to_ap = FALSE /\ connected_to_ap = FALSE /\ ip_info = NoAddress
    /\ events = <<>> /\ handling = Idle
    /\ statuses = <<>> /\ missed = FALSE /\ believes_ip = FALSE
    /\ given_up = FALSE
    /\ calls = 0 /\ radioTrouble = 0

-----------------------------------------------------------------------------
(* The calls into the driver: the link after the call and the events posted. *)

\* esp_wifi_stop() and esp_wifi_set_mode() away from the mode of the link.
StopEvents(l) ==
    CASE l \in {"joined", "addressed"} -> Posted("STA_DISCONNECTED")
      [] l = "ap" -> Posted("AP_STOP")
      [] OTHER -> <<>>

\* esp_wifi_start() of a stopped driver in mode m.
StartEvents(m) == Posted(IF m = "sta" THEN "STA_START" ELSE "AP_START")

-----------------------------------------------------------------------------
(* The application.                                                        *)

Call == alive /\ calls < MaxCalls /\ calls' = calls + 1

SetAutoConnect(auto) ==
    /\ Call
    /\ auto_connect_to_ap' = auto
    /\ UNCHANGED <<alive, driverVars, connected_to_ap, ip_info, events, handling, statusVars,
                   believes_ip, given_up, radioTrouble>>

\* connect_to_ap(): the mode, the interface, esp_wifi_start() and
\* esp_wifi_connect().
ConnectToAp ==
    /\ Call
    /\ link \notin {"joined", "addressed"}
    /\ mode' = "sta"
    /\ events' = events \o (IF link = "ap" THEN StopEvents(link) ELSE <<>>)
                        \o (IF link \in {"off", "ap"} THEN StartEvents("sta") ELSE <<>>)
    /\ link' = "joining"
    /\ interface' = "sta"
    /\ given_up' = FALSE
    /\ UNCHANGED <<alive, lease, memberVars, handling, statusVars, believes_ip, radioTrouble>>

StartSoftap ==
    /\ Call
    /\ link # "ap"
    /\ mode' = "ap"
    /\ events' = events \o StopEvents(link) \o StartEvents("ap")
    /\ link' = "ap"
    /\ lease' = NoAddress
    /\ interface' = "ap"
    /\ UNCHANGED <<alive, memberVars, handling, statusVars, believes_ip, given_up, radioTrouble>>

\* ~Wifi(): the handlers are unregistered, which waits for one that runs, and
\* the driver is taken down.
Destroy ==
    /\ Call
    /\ handling = Idle
    /\ alive' = FALSE
    /\ events' = <<>>
    /\ mode' = "none" /\ link' = "off" /\ lease' = NoAddress
    /\ UNCHANGED <<interface, memberVars, handling, statusVars, believes_ip, given_up,
                   radioTrouble>>

-----------------------------------------------------------------------------
(* wifi_event_callback(), by the event task.                               *)

\* publish_status(): a full queue refuses the status, which nobody looks at.
PublishStatus(connected) ==
    IF Len(statuses) < StatusQueue
    THEN statuses' = Append(statuses, connected) /\ UNCHANGED missed
    ELSE missed' = TRUE /\ UNCHANGED statuses

Dispatch(id) ==
    /\ handling = Idle
    /\ events # <<>>
    /\ Head(events).id = id
    /\ events' = Tail(events)

\* STA_START: the host name of the interface is set.
StaStart ==
    /\ Dispatch("STA_START")
    /\ UNCHANGED <<alive, driverVars, memberVars, handling, statusVars, believes_ip, given_up,
                   bounds>>

StaConnected ==
    /\ Dispatch("STA_CONNECTED")
    /\ connected_to_ap' = TRUE
    /\ UNCHANGED <<alive, driverVars, auto_connect_to_ap, ip_info, handling, statusVars,
                   believes_ip,
                   given_up, bounds>>

\* STA_DISCONNECTED, up to the look at auto_connect_to_ap.
StaDisconnected ==
    /\ Dispatch("STA_DISCONNECTED")
    /\ ip_info' = NoAddress
    /\ connected_to_ap' = FALSE
    /\ PublishStatus(FALSE)
    /\ handling' = [at |-> "reconnect", ip |-> NoAddress]
    /\ UNCHANGED <<alive, driverVars, auto_connect_to_ap, believes_ip, given_up, bounds>>

\* Mutant of Reconnect: the driver is stopped and not started.
ReconnectStopsOnly ==
    /\ handling.at = "reconnect"
    /\ handling' = Idle
    /\ IF auto_connect_to_ap
       THEN /\ events' = events \o StopEvents(link)
            /\ link' = "off"
            /\ lease' = NoAddress
            /\ UNCHANGED given_up
       ELSE given_up' = TRUE /\ UNCHANGED <<events, link, lease>>
    /\ UNCHANGED <<alive, mode, interface, memberVars, statusVars, believes_ip, bounds>>

\* The rest: esp_wifi_stop(), esp_wifi_start() in whatever mode the driver is by
\* now, and esp_wifi_connect(), which an access point refuses.
Reconnect ==
    /\ handling.at = "reconnect"
    /\ handling' = Idle
    /\ IF auto_connect_to_ap
       THEN /\ events' = events \o StopEvents(link) \o StartEvents(mode)
            /\ link' = IF mode = "sta" THEN "joining" ELSE "ap"
            /\ lease' = NoAddress
            /\ UNCHANGED given_up
       ELSE given_up' = TRUE /\ UNCHANGED <<events, link, lease>>
    /\ UNCHANGED <<alive, mode, interface, memberVars, statusVars, believes_ip, bounds>>

ApStart ==
    /\ Dispatch("AP_START")
    /\ ip_info' = SoftApAddress
    /\ PublishStatus(TRUE)
    /\ UNCHANGED <<alive, driverVars, auto_connect_to_ap, connected_to_ap, handling, believes_ip,
                   given_up, bounds>>

\* Mutant of AddressLost: the address stays.
AddressKept(id) ==
    /\ Dispatch(id)
    /\ PublishStatus(FALSE)
    /\ UNCHANGED <<alive, driverVars, memberVars, handling, believes_ip, given_up, bounds>>

\* AP_STOP and STA_LOST_IP
AddressLost(id) ==
    /\ Dispatch(id)
    /\ ip_info' = NoAddress
    /\ PublishStatus(FALSE)
    /\ UNCHANGED <<alive, driverVars, auto_connect_to_ap, connected_to_ap, handling, believes_ip,
                   given_up, bounds>>

\* STA_GOT_IP: the status is published, ...
GotIp ==
    /\ Dispatch("STA_GOT_IP")
    /\ PublishStatus(TRUE)
    /\ handling' = [at |-> "assign", ip |-> Head(events).ip]
    /\ UNCHANGED <<alive, driverVars, memberVars, believes_ip, given_up, bounds>>

\* ... then the address is stored.
AssignIp ==
    /\ handling.at = "assign"
    /\ ip_info' = handling.ip
    /\ handling' = Idle
    /\ UNCHANGED <<alive, driverVars, auto_connect_to_ap, connected_to_ap, events, statusVars,
                   believes_ip, given_up, bounds>>

EventTask ==
    \/ StaStart \/ StaConnected \/ StaDisconnected \/ Reconnect \/ ApStart
    \/ AddressLost("AP_STOP") \/ AddressLost("STA_LOST_IP") \/ GotIp \/ AssignIp

-----------------------------------------------------------------------------
(* The driver.  To find and join an access point takes it longer than the    *)
(* event task needs for the events that wait.                                *)

Trouble == radioTrouble < MaxRadioTrouble /\ radioTrouble' = radioTrouble + 1

Join ==
    /\ link = "joining"
    /\ events = <<>> /\ handling = Idle
    /\ link' = "joined"
    /\ events' = Posted("STA_CONNECTED")
    /\ UNCHANGED <<alive, mode, lease, interface, memberVars, handling, statusVars, believes_ip,
                   given_up,
                   bounds>>

Dhcp(a) ==
    /\ link = "joined"
    /\ link' = "addressed"
    /\ lease' = a
    /\ events' = Append(events, Event("STA_GOT_IP", a))
    /\ UNCHANGED <<alive, mode, interface, memberVars, handling, statusVars, believes_ip,
                   given_up, bounds>>

\* The access point is not found, refuses, or goes away.
Drop ==
    /\ Trouble
    /\ link \in {"joining", "joined", "addressed"}
    /\ link' = "idle"
    /\ lease' = NoAddress
    /\ events' = events \o Posted("STA_DISCONNECTED")
    /\ UNCHANGED <<alive, mode, interface, memberVars, handling, statusVars, believes_ip,
                   given_up, calls>>

\* The lease ends, or was not renewed for long after a connection was lost.
LoseIp ==
    /\ Trouble
    /\ link \in {"idle", "joining", "joined", "addressed"}
    /\ link' = IF link = "addressed" THEN "joined" ELSE link
    /\ lease' = NoAddress
    /\ events' = events \o Posted("STA_LOST_IP")
    /\ UNCHANGED <<alive, mode, interface, memberVars, handling, statusVars, believes_ip,
                   given_up, calls>>

Driver == Join \/ (\E a \in Addresses : Dhcp(a)) \/ Drop \/ LoseIp

\* The subscriber handles the oldest status.
Receive ==
    /\ statuses # <<>>
    /\ believes_ip' = Head(statuses)
    /\ statuses' = Tail(statuses)
    /\ UNCHANGED <<alive, driverVars, memberVars, events, handling, missed, given_up, bounds>>

WifiNext ==
    \/ \E auto \in BOOLEAN : SetAutoConnect(auto)
    \/ ConnectToAp \/ StartSoftap \/ Destroy
    \/ EventTask \/ Driver \/ Receive

WifiSpec == WifiInit /\ [][WifiNext]_wifiVars

\* The event task and the subscriber go on, and a station that tries joins an
\* access point and gets an address in the end.
WifiFairness ==
    /\ WF_wifiVars(EventTask)
    /\ WF_wifiVars(Receive)
    /\ WF_wifiVars(Join) /\ WF_wifiVars(\E a \in Addresses : Dhcp(a))

-----------------------------------------------------------------------------
(* Properties.                                                             *)

\* The event task has handled everything.
Settled == alive /\ events = <<>> /\ handling = Idle

\* Whatever order disconnections, new leases, lost leases and the calls of the
\* application come in: when the events are handled, get_local_ip() is the
\* address of the link and is_connected_to_ap() tells whether there is one.
AddressFollowsLink ==
    Settled =>
        /\ ip_info = IF link = "ap" THEN SoftApAddress ELSE lease
        /\ connected_to_ap = (link \in {"joined", "addressed"})

\* When the events are handled and the status is received, the socket dispatcher
\* believes that there is a network exactly when there is one, unless its queue
\* was full.
BelievesTheLink ==
    (Settled /\ statuses = <<>> /\ ~missed) => (believes_ip <=> link \in {"addressed", "ap"})

\* "auto reconnect on loss of Wifi connection" (Wifi.h:58): however often the
\* connection is lost, a station that was not told to stay away ends up with an
\* address, and the sockets with it.
Reconnects ==
    <>[](alive /\ mode = "sta" /\ ~given_up => link = "addressed" /\ (believes_ip \/ missed))

\* What the application and the sockets are told follows the link.
StatusFollowsLink == AddressFollowsLink /\ BelievesTheLink
=============================================================================
