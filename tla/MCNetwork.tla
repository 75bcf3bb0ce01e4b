----------------------------- MODULE MCNetwork ------------------------------
(* Four parts of the network, each on its own: the packets of a socket, a    *)
(* TLS socket, a server socket with its pool of clients, and the Wifi.       *)
EXTENDS PacketStream, TlsSocket, ServerSocket, Wifi, TLC

MCPacketLength == Blank :> 1 @@ [p \in 1..6 |-> <<2, 3, 1, 1, 3, 2>>[p]]
\* Sending and receiving share nothing but the calls of clear(), so that most
\* of the traffic goes one way.
MCTraffic == {[out |-> <<1, 2, 3, 1>>, in |-> <<>>], [out |-> <<>>, in |-> <<3, 4, 5, 6>>],
              [out |-> <<2>>, in |-> <<5>>]}

CONSTANTS c1, c2, p1, p2, p3

MCClients == <<c1, c2>>
MCPeers == {p1, p2, p3}

MCFlights == "client" :> <<"send", "recv", "send", "recv">>
             @@ "server" :> <<"recv", "send", "recv", "send">>
MCIncoming == <<3, 5>>

VARIABLE part

MCvars == <<part, vars, tlsVars, serverVars, wifiVars>>

\* The state of a part that is not looked at: it can take no step.
StreamRests ==
  /\ traffic = [out |-> <<>>, in |-> <<>>] /\ tx = NewRing /\ current = Blank
  /\ bytes_sent = 0 /\ in_progress = FALSE
  /\ toSend = <<>> /\ wr = [at |-> "idle", pos |-> 0, length |-> 0]
  /\ wire = <<>> /\ written = <<>> /\ txEmpty = 0
  /\ rx = NewRing /\ item = <<>> /\ proto = NewProto /\ peer = <<>>
  /\ rd = [at |-> "idle", wanted |-> 0] /\ dataAvailable = 0 /\ received = <<>>
  /\ clears = MaxClears /\ torn = {}
TlsRests ==
  /\ role = "client" /\ ca = FALSE /\ fails = "none" /\ trusted = TRUE
  /\ tls = [conf |-> Zeroed, state |-> 1] /\ at = "idle" /\ tlsAlive = FALSE
  /\ broken = TRUE /\ tlsWire = <<>> /\ unread = 0 /\ arrived = <<>> /\ sent = 0
  /\ out = Outgoing /\ avail = 0 /\ partly = 0 /\ inRx = 0 /\ delivered = 0 /\ partial = FALSE
ServerRests ==
  /\ has_ip = FALSE /\ trouble = MaxTrouble /\ place = "none" /\ backlog = <<>> /\ backed_off = FALSE
  /\ clients = Clients /\ in_use = <<>> /\ disp = AtRest /\ task = AtRest
  /\ conn = [p \in Peers |-> "away"] /\ client = [p \in Peers |-> Nobody]
  /\ registered = {} /\ ops = <<>> /\ status = <<>> /\ raced = FALSE /\ lostOps = FALSE

WifiRests ==
  /\ alive = FALSE /\ mode = "none" /\ link = "off" /\ lease = NoAddress /\ interface = "none"
  /\ auto_connect_to_ap = FALSE /\ connected_to_ap = FALSE /\ ip_info = NoAddress
  /\ events = <<>> /\ handling = Idle /\ statuses = <<>> /\ believes_ip = FALSE
  /\ missed = FALSE /\ given_up = FALSE /\ calls = MaxCalls /\ radioTrouble = MaxRadioTrouble

MCInit ==
  \/ part = "stream" /\ Init /\ TlsRests /\ ServerRests /\ WifiRests
  \/ part = "tls" /\ StreamRests /\ TlsInit /\ ServerRests /\ WifiRests
  \/ part = "server" /\ StreamRests /\ TlsRests /\ ServerInit /\ WifiRests
  \/ part = "wifi" /\ StreamRests /\ TlsRests /\ ServerRests /\ WifiInit
MCNext ==
  /\ UNCHANGED part
  /\ \/ part = "stream" /\ Next /\ UNCHANGED <<tlsVars, serverVars, wifiVars>>
     \/ part = "tls" /\ TlsNext /\ UNCHANGED <<vars, serverVars, wifiVars>>
     \/ part = "server" /\ ServerNext /\ UNCHANGED <<vars, tlsVars, wifiVars>>
     \/ part = "wifi" /\ WifiNext /\ UNCHANGED <<vars, tlsVars, serverVars>>
\* A part that rests can take no step, so that its fairness asks for none.
MCSpec ==
  MCInit /\ [][MCNext]_MCvars /\ Fairness /\ TlsFairness /\ ServerFairness /\ WifiFairness
=============================================================================
