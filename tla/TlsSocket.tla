----------------------------- MODULE TlsSocket ------------------------------
(* SecureSocket and MBedTLSContext: the configuration of a context, the      *)
(* handshake that is driven by readable() and writable(), and the loops that *)
(* read and write records.  Both loops keep the dispatcher until they are    *)
(* done.  mbedTLS is external: a handshake is a sequence of flights that are *)
(* sent or received, a record that could not be flushed is offered to        *)
(* ssl_send() again from its first byte.                                     *)
EXTENDS Integers, Sequences, FiniteSets, SequencesExt

CONSTANTS Flights,      \* of each role: "send" or "recv", in their order
          Outgoing,     \* number of packets to send, one record each
          Incoming,     \* of each record of the peer: its bytes
          RecordLength, TlsPacketLength,
          Kernel,       \* bytes the stack buffers for sending
          RxSize        \* packets in the receive buffer

ASSUME TlsSizes ==
  /\ RecordLength \in Nat \ {0} /\ TlsPacketLength \in Nat \ {0}
  /\ Kernel \in Nat /\ RxSize \in Nat /\ Outgoing \in Nat
\* A handshake has at least one flight, a record at least one byte.
ASSUME TlsMessages ==
  /\ Flights \in [{"client", "server"} -> Seq({"send", "recv"}) \ {<<>>}]
  /\ Incoming \in Seq(Nat \ {0})

VARIABLES role, ca, fails, trusted,   \* the setting: what is given, what goes wrong
          tls,               \* the context, see TlsInit
          at,                \* where the dispatcher is: idle, writing, reading
          tlsAlive, broken,  \* the socket is active; the connection was reset
          tlsWire, unread,   \* bytes sent, and how many the peer has not read
          arrived, sent,     \* flights and records of the peer: here, sent by it
          out,               \* packets not written yet
          avail, partly,     \* decrypted bytes not read, bytes of a packet
          inRx, delivered,   \* packets in the receive buffer, and handed out
          partial            \* history: a send() took a part of a record

tlsVars == <<role, ca, fails, trusted, tls, at, tlsAlive, broken, tlsWire, unread, arrived,
             sent, out, avail, partly, inRx, delivered, partial>>
setting == <<role, ca, fails, trusted>>

-----------------------------------------------------------------------------
(* MBedTLSContext.  conf: the random generator is there, the certificate of  *)
(* the peer is required, a chain to verify it, an own certificate.           *)

Zeroed == [rng |-> FALSE, mode |-> "none", chain |-> FALSE, own |-> FALSE]

\* common_init(): seed, then the defaults of the role.
CommonInit(r, f) ==
  IF f \in {"seed", "defaults"} THEN Zeroed
  ELSE [Zeroed EXCEPT !.rng = TRUE, !.mode = IF r = "client" THEN "required" ELSE "none"]

InitClientLate(f, given) ==
  LET c == [CommonInit("client", f) EXCEPT !.mode = "none"] IN
  IF c.rng /\ given /\ f # "ca" THEN [c EXCEPT !.chain = TRUE, !.mode = "required"] ELSE c

\* init_client(): without certificates of authorities nothing is verified.
InitClient(f, given) ==
  LET c == CommonInit("client", f) IN
  IF ~c.rng THEN c
  ELSE IF ~given THEN [c EXCEPT !.mode = "none"]
  ELSE [c EXCEPT !.mode = "required", !.chain = (f # "ca")]

\* init_server(): the certificates, the key, then what the context offers.
InitServer(f) ==
  LET c == CommonInit("server", f) IN
  IF c.rng /\ f \notin {"cert", "ca", "key"}
    THEN [c EXCEPT !.chain = TRUE, !.own = (f # "own")] ELSE c

\* What mbedTLS makes of a configuration: the handshake is refused without a
\* random generator, by a server without certificate, by a client that has to
\* verify and has no chain, or whose peer is not in it.
Accepts(c) == /\ c.rng
              /\ role = "server" => c.own
              /\ (role = "client" /\ c.mode = "required") => (c.chain /\ trusted)

TlsInit ==
  /\ role \in {"client", "server"} /\ ca \in BOOLEAN
  /\ fails \in {"none", "seed", "defaults", "cert", "ca", "key", "own"}
  /\ trusted \in BOOLEAN
  /\ tls = [conf |-> IF role = "client" THEN InitClient(fails, ca) ELSE InitServer(fails),
            state |-> 1]
  /\ at = "idle" /\ tlsAlive = TRUE /\ broken = FALSE
  /\ tlsWire = <<>> /\ unread = 0 /\ arrived = <<>> /\ sent = 0
  /\ out = Outgoing /\ avail = 0 /\ partly = 0 /\ inRx = 0 /\ delivered = 0
  /\ partial = FALSE

-----------------------------------------------------------------------------
IsHandshakeComplete == tls.state > Len(Flights[role])

Record(id) == [i \in 1..RecordLength |-> <<id, i>>]

\* ssl_send() with a whole record: n bytes are taken.  Less than all of them is
\* reported as nothing at all.
SslSend(id, n) ==
  /\ n <= RecordLength /\ unread + n <= Kernel
  /\ n < RecordLength => unread + n = Kernel
  /\ tlsWire' = tlsWire \o SubSeq(Record(id), 1, n) /\ unread' = unread + n
  /\ partial' = (partial \/ (n > 0 /\ n < RecordLength))
\* ssl_send() of a connection that was reset.
SslFails == tlsAlive' = FALSE /\ UNCHANGED <<tlsWire, unread, partial>>

\* do_handshake_step(): a flight that is to be sent ...
HandshakeSend ==
  /\ Flights[role][tls.state] = "send"
  /\ \/ broken /\ SslFails /\ UNCHANGED tls
     \/ /\ ~broken
        /\ \E n \in 0..RecordLength :
             /\ SslSend(-(tls.state), n)
             /\ tls' = IF n = RecordLength THEN [tls EXCEPT !.state = @ + 1] ELSE tls
        /\ UNCHANGED tlsAlive
  /\ UNCHANGED arrived

\* ... or received; the last one decides.
HandshakeReceive ==
  /\ Flights[role][tls.state] = "recv"
  /\ IF arrived = <<>>
       THEN tlsAlive' = ~broken /\ UNCHANGED <<tls, arrived>>
       ELSE /\ arrived' = Tail(arrived)
            /\ LET ok == Head(arrived) = "flight" IN
               /\ tlsAlive' = ok
               /\ tls' = IF ok THEN [tls EXCEPT !.state = @ + 1] ELSE tls
  /\ UNCHANGED <<tlsWire, unread, partial>>

HandshakeRefused ==
  /\ tlsAlive' = FALSE /\ UNCHANGED <<tls, arrived, tlsWire, unread, partial>>

DoHandshakeStep ==
  /\ IF ~Accepts(tls.conf) /\ tls.state = Len(Flights[role])
       THEN HandshakeRefused
       ELSE HandshakeSend \/ HandshakeReceive
  /\ UNCHANGED <<setting, at, broken, sent, out, avail, partly, inRx, delivered>>

Writing == at' = "writing" /\ UNCHANGED <<setting, tls, tlsAlive, broken, tlsWire, unread,
                arrived, sent, out, avail, partly, inRx, delivered, partial>>
Reading == at' = "reading" /\ UNCHANGED <<setting, tls, tlsAlive, broken, tlsWire, unread,
                arrived, sent, out, avail, partly, inRx, delivered, partial>>

TlsHasDataToTransmit == ~IsHandshakeComplete \/ out > 0

\* readable() and writable(), when select() says so.
TlsReadable ==
  /\ at = "idle" /\ tlsAlive /\ (arrived # <<>> \/ broken)
  /\ IF ~IsHandshakeComplete THEN DoHandshakeStep ELSE inRx < RxSize /\ Reading
TlsWritable ==
  /\ at = "idle" /\ tlsAlive /\ TlsHasDataToTransmit /\ (unread < Kernel \/ broken)
  /\ IF ~IsHandshakeComplete THEN DoHandshakeStep ELSE Writing

WriteDataWhileBroken ==
  /\ at = "writing"
  /\ UNCHANGED tlsAlive
  /\ \E n \in 0..RecordLength :
       /\ SslSend(out, IF broken THEN 0 ELSE n)
       /\ IF n = RecordLength /\ ~broken THEN at' = "idle" /\ out' = out - 1
          ELSE UNCHANGED <<at, out>>
  /\ UNCHANGED <<setting, tls, broken, arrived, sent, avail, partly, inRx, delivered>>

WriteDataForgets ==
  /\ at = "writing"
  /\ \/ broken /\ SslFails /\ at' = "idle"
     \/ /\ ~broken /\ UNCHANGED tlsAlive
        /\ \E n \in 0..RecordLength :
             SslSend(out, n) /\ at' = IF n = RecordLength THEN "idle" ELSE at
  /\ UNCHANGED <<setting, tls, broken, arrived, sent, out, avail, partly, inRx, delivered>>

\* One turn of the loop of write_data(): it goes on as long as mbedTLS wants
\* to write, and that is until the peer has made room.
TlsWriteData ==
  /\ at = "writing"
  /\ \/ broken /\ SslFails /\ at' = "idle" /\ UNCHANGED out
     \/ /\ ~broken /\ UNCHANGED tlsAlive
        /\ \E n \in 0..RecordLength :
             /\ SslSend(out, n)
             /\ IF n = RecordLength THEN at' = "idle" /\ out' = out - 1
                ELSE UNCHANGED <<at, out>>
  /\ UNCHANGED <<setting, tls, broken, arrived, sent, avail, partly, inRx, delivered>>

ReadBytesOnce(have, n) ==
  /\ avail' = have - n
  /\ partly' = (partly + n) % TlsPacketLength
  /\ inRx' = inRx + ((partly + n) \div TlsPacketLength)
  /\ at' = "idle"

\* mbedtls_ssl_read() of n of the decrypted bytes, and data_received(); the loop
\* goes on if there are more.
ReadBytes(have, n) ==
  /\ avail' = have - n
  /\ partly' = (partly + n) % TlsPacketLength
  /\ inRx' = inRx + ((partly + n) \div TlsPacketLength)
  /\ at' = IF have > n /\ tlsAlive THEN "reading" ELSE "idle"

Smaller(a, b) == IF a < b THEN a ELSE b

\* mbedtls_ssl_read() of what the current packet wants, from the decrypted
\* bytes or from the next record; there may be none, or the end.
ReadTurn ==
  \/ /\ avail > 0
     /\ ReadBytes(avail, Smaller(avail, TlsPacketLength - partly))
     /\ UNCHANGED <<tlsAlive, arrived>>
  \/ /\ avail = 0 /\ arrived # <<>>
     /\ ReadBytes(Head(arrived), Smaller(Head(arrived), TlsPacketLength - partly))
     /\ arrived' = Tail(arrived) /\ UNCHANGED tlsAlive
  \/ /\ avail = 0 /\ arrived = <<>>
     /\ at' = "idle" /\ tlsAlive' = (tlsAlive /\ ~broken)
     /\ UNCHANGED <<arrived, avail, partly, inRx>>

ReadDataUnlessFull ==
  /\ at = "reading"
  /\ IF inRx = RxSize THEN at' = "idle" /\ UNCHANGED <<tlsAlive, arrived, avail, partly, inRx>>
     ELSE ReadTurn
  /\ UNCHANGED <<setting, tls, broken, tlsWire, unread, sent, out, delivered, partial>>

\* One turn of the loop of read_data(): while the receive buffer is full it
\* waits for the application.
ReadData ==
  /\ at = "reading"
  /\ IF inRx = RxSize
       THEN /\ at' = IF tlsAlive THEN "reading" ELSE "idle"
            /\ UNCHANGED <<tlsAlive, arrived, avail, partly, inRx>>
       ELSE ReadTurn
  /\ UNCHANGED <<setting, tls, broken, tlsWire, unread, sent, out, delivered, partial>>

-----------------------------------------------------------------------------
(* The application, the peer and the network.                                *)

TlsGet == /\ inRx > 0 /\ inRx' = inRx - 1 /\ delivered' = delivered + 1
          /\ UNCHANGED <<setting, tls, at, tlsAlive, broken, tlsWire, unread, arrived, sent,
                         out, avail, partly, partial>>

PeerReads == /\ unread > 0 /\ unread' = 0
             /\ UNCHANGED <<setting, tls, at, tlsAlive, broken, tlsWire, arrived, sent, out,
                            avail, partly, inRx, delivered, partial>>

\* The peer answers flight for flight, then sends its records.
PeerSends ==
  /\ ~broken
  /\ \/ /\ ~IsHandshakeComplete /\ arrived = <<>>
        /\ Flights[role][tls.state] = "recv"
        /\ \E x \in {"flight", "alert"} : arrived' = <<x>> /\ UNCHANGED sent
     \/ /\ IsHandshakeComplete /\ sent < Len(Incoming)
        /\ arrived' = Append(arrived, Incoming[sent + 1]) /\ sent' = sent + 1
  /\ UNCHANGED <<setting, tls, at, tlsAlive, broken, tlsWire, unread, out, avail, partly,
                 inRx, delivered, partial>>

\* stop() of the application.
Stop == /\ tlsAlive /\ tlsAlive' = FALSE
        /\ UNCHANGED <<setting, tls, at, broken, tlsWire, unread, arrived, sent, out,
                       avail, partly, inRx, delivered, partial>>

Break == /\ ~broken /\ broken' = TRUE
         /\ UNCHANGED <<setting, tls, at, tlsAlive, tlsWire, unread, arrived, sent, out,
                        avail, partly, inRx, delivered, partial>>

TlsNext == \/ TlsReadable \/ TlsWritable \/ TlsWriteData \/ ReadData
           \/ TlsGet \/ PeerReads \/ PeerSends \/ Stop \/ Break

\* The peer reads and answers, the application takes its packets.
TlsFairness ==
  /\ WF_tlsVars(TlsReadable) /\ WF_tlsVars(TlsWritable) /\ WF_tlsVars(TlsWriteData)
  /\ WF_tlsVars(ReadData) /\ WF_tlsVars(TlsGet) /\ WF_tlsVars(PeerReads) /\ WF_tlsVars(PeerSends)
TlsSpec == TlsInit /\ [][TlsNext]_tlsVars /\ TlsFairness

-----------------------------------------------------------------------------
AppData == {i \in DOMAIN tlsWire : tlsWire[i][1] > 0}

(* Application data goes to a peer that was verified, or that the application *)
(* did not ask to have verified: no failure while the context is configured  *)
(* (init_client() and init_server() go on to be used either way) opens the   *)
(* socket to somebody else.                                                  *)
OnlyVerifiedPeers ==
  (AppData # {} \/ delivered > 0) =>
    /\ role = "client" /\ ca => trusted /\ fails \notin {"seed", "defaults", "ca"}
    /\ role = "server" => fails = "none"

(* Whatever parts of records send() takes: no record is left unfinished for  *)
(* another, none is finished twice, and a packet leaves the send buffer when *)
(* the last byte of its record is out, in order.  What a part costs is that  *)
(* its bytes are sent again: ssl_send() hides it (SecureSocket.h:59) and the *)
(* same record starts anew from its first byte.                              *)
RecordsFinished ==
  /\ \A i \in DOMAIN tlsWire : tlsWire[i][2] > 1 =>
       i > 1 /\ tlsWire[i - 1] = <<tlsWire[i][1], tlsWire[i][2] - 1>>
  /\ \A i \in DOMAIN tlsWire : tlsWire[i][2] = 1 /\ i > 1 =>
       (tlsWire[i - 1][1] = tlsWire[i][1] <=> tlsWire[i - 1][2] # RecordLength)
  /\ \A i, k \in DOMAIN tlsWire :
       tlsWire[i][2] = RecordLength /\ tlsWire[k] = tlsWire[i] => i = k
  /\ \A id \in 1..Outgoing :
       id > out <=> \E i \in DOMAIN tlsWire : tlsWire[i] = <<id, RecordLength>>

(* As long as send() took no part of a record, the peer sees nothing but     *)
(* whole records, each packet once.                                          *)
RecordsIntact ==
  ~partial => /\ Len(tlsWire) % RecordLength = 0
              /\ \A i \in DOMAIN tlsWire : tlsWire[i][2] = ((i - 1) % RecordLength) + 1
              /\ \A i, k \in DOMAIN tlsWire : tlsWire[i] = tlsWire[k] => i = k
              /\ Cardinality(AppData) = RecordLength * (Outgoing - out)

(* The dispatcher never leaves a socket with bytes that are already          *)
(* decrypted: select() would not report them.                                *)
NothingLeftInside == at = "idle" /\ tlsAlive => avail = 0

(* Neither loop keeps the dispatcher for ever, if the peer reads and the     *)
(* application takes its packets.                                            *)
DispatcherReturns == at # "idle" ~> at = "idle"

(* All that is sent to us is handed out, unless the connection ends.         *)
AllDelivered ==
  <>(~tlsAlive \/ broken \/ partial \/ (IsHandshakeComplete
       /\ delivered * TlsPacketLength + partly = FoldLeft(LAMBDA a, b: a + b, 0, Incoming)))

(* Records are written to their end, each once, and read to the last one,    *)
(* and the dispatcher is free again after each turn.                         *)
TlsDelivers ==
  [](RecordsFinished /\ RecordsIntact /\ NothingLeftInside) /\ DispatcherReturns /\ AllDelivered
=============================================================================
