----------------------------- MODULE WifiProofs -----------------------------
(***************************************************************************)
(* What the Wifi class tells the application and the sockets follows the   *)
(* link (StatusFollowsLink), for any DHCP server, any sequence of calls    *)
(* and of events, and any size of the subscriber's queue.                  *)
(*                                                                         *)
(* Before the events are handled, ip_info, connected_to_ap and the status  *)
(* are behind the link.  What holds at every moment is that the events     *)
(* that still wait make up for it: the last of them that touches a value   *)
(* sets it to what the link makes it, and where none of them does, it has  *)
(* that value already.  This is Tells, and the proof is about how it       *)
(* composes: with the events posted by a step (Posting), and with the      *)
(* event that the event task takes from the queue (Handling).              *)
(***************************************************************************)
EXTENDS Wifi, SequenceTheorems, TLAPS

EventIds == {"STA_START", "STA_CONNECTED", "STA_DISCONNECTED", "STA_GOT_IP", "STA_LOST_IP",
             "AP_START", "AP_STOP"}
Ips == Addresses \cup {NoAddress}
WifiEvents == [id : EventIds, ip : Ips]

IsLast(s, ids, k) ==
    /\ k \in DOMAIN s /\ s[k].id \in ids
    /\ \A j \in DOMAIN s : j > k => s[j].id \notin ids
Silent(s, ids) == \A k \in DOMAIN s : s[k].id \notin ids

\* The events s turn a value that was into the true one: an event with an id in
\* ids sets the value to what after says.
Tells(s, ids, after, was, true) ==
    /\ \A k \in DOMAIN s : IsLast(s, ids, k) => after[s[k]] = true
    /\ Silent(s, ids) => was = true

YesNo(b) == IF b THEN "yes" ELSE "no"

\* wifi_event_callback(), by the value that it sets.
AddressIds == {"STA_DISCONNECTED", "STA_GOT_IP", "STA_LOST_IP", "AP_START", "AP_STOP"}
AddressAfter ==
    [e \in WifiEvents |-> IF e.id = "AP_START" THEN SoftApAddress
                          ELSE IF e.id = "STA_GOT_IP" THEN e.ip ELSE NoAddress]
JoinIds == {"STA_CONNECTED", "STA_DISCONNECTED"}
JoinAfter == [e \in WifiEvents |-> YesNo(e.id = "STA_CONNECTED")]
StatusAfter == [e \in WifiEvents |-> YesNo(e.id \in {"STA_GOT_IP", "AP_START"})]

\* The value when the status and the address on their way have arrived.
Address == IF handling.at = "assign" THEN handling.ip ELSE ip_info
Connected == YesNo(connected_to_ap)
Status == YesNo(IF statuses = <<>> THEN believes_ip ELSE statuses[Len(statuses)])

TrueAddress == IF link = "ap" THEN SoftApAddress ELSE lease
Joined == YesNo(link \in {"joined", "addressed"})
Networked == YesNo(link \in {"addressed", "ap"})

TypeInv ==
    /\ alive \in BOOLEAN
    /\ mode \in {"none", "sta", "ap"} /\ link \in Links /\ lease \in Ips
    /\ auto_connect_to_ap \in BOOLEAN /\ connected_to_ap \in BOOLEAN
    /\ events \in Seq(WifiEvents)
    /\ handling \in [at : {"none", "reconnect", "assign"}, ip : Ips]
    /\ statuses \in Seq(BOOLEAN) /\ believes_ip \in BOOLEAN /\ missed \in BOOLEAN

\* The driver runs in the mode that was set last, only a station with a lease has
\* one, and before the first call and after the last nothing happens.
ModeOfLink ==
    /\ link = "off" <=> mode = "none"
    /\ link = "ap" <=> mode = "ap"
    /\ lease # NoAddress => link = "addressed"
    /\ mode = "none" => events = <<>> /\ handling = Idle
    /\ ~alive => mode = "none"
    /\ handling.at = "none" => handling = Idle

AddressTold == alive => Tells(events, AddressIds, AddressAfter, Address, TrueAddress)
JoinTold == alive => Tells(events, JoinIds, JoinAfter, Connected, Joined)
StatusTold == (alive /\ ~missed) => Tells(events, AddressIds, StatusAfter, Status, Networked)

WifiInv == TypeInv /\ ModeOfLink /\ AddressTold /\ JoinTold /\ StatusTold

-----------------------------------------------------------------------------
(* Sequences of events.                                                    *)

(* What the events s lead to, the events p lead on from.                     *)
LEMMA Posting ==
    ASSUME NEW E, NEW s \in Seq(E), NEW p \in Seq(E), NEW ids, NEW after,
           NEW was, NEW true, NEW now,
           Tells(s, ids, after, was, true), Tells(p, ids, after, true, now)
    PROVE  Tells(s \o p, ids, after, was, now)
<1> DEFINE t == s \o p
<1>1. t \in Seq(E) /\ Len(t) = Len(s) + Len(p) /\ DOMAIN t = 1..(Len(s) + Len(p))
      /\ DOMAIN s = 1..Len(s) /\ DOMAIN p = 1..Len(p) /\ Len(s) \in Nat /\ Len(p) \in Nat
  OBVIOUS
<1>0. \A i \in 1..Len(t) : t[i] = IF i <= Len(s) THEN s[i] ELSE p[i - Len(s)]
  BY ConcatProperties
<1>2. \A i \in DOMAIN s : i \in DOMAIN t /\ t[i] = s[i]
  BY <1>0, <1>1
<1>3. \A i \in DOMAIN p : i + Len(s) \in DOMAIN t /\ t[i + Len(s)] = p[i]
  BY <1>0, <1>1
<1>4. \A i \in DOMAIN t : i \in DOMAIN s \/ (i - Len(s) \in DOMAIN p /\ t[i] = p[i - Len(s)])
  BY <1>0, <1>1
<1> HIDE DEF t
<1>5. ASSUME NEW k \in DOMAIN t, IsLast(t, ids, k)
      PROVE  after[t[k]] = now
  <2>1. CASE k \in DOMAIN s
    <3>1. Silent(p, ids)
      BY <1>1, <1>3, <1>5, <2>1 DEF IsLast, Silent
    <3>2. IsLast(s, ids, k)
      BY <1>1, <1>2, <1>5, <2>1 DEF IsLast
    <3> QED BY <1>2, <2>1, <3>1, <3>2 DEF Tells
  <2>2. CASE k \notin DOMAIN s
    <3> DEFINE i == k - Len(s)
    <3>1. i \in DOMAIN p /\ t[k] = p[i]
      BY <1>4, <2>2
    <3>2. \A j \in DOMAIN p : j > i => p[j].id \notin ids
      <4> SUFFICES ASSUME NEW j \in DOMAIN p, j > i PROVE p[j].id \notin ids
        OBVIOUS
      <4>1. j + Len(s) \in DOMAIN t /\ t[j + Len(s)] = p[j]
        BY <1>3
      <4>2. j + Len(s) > k
        BY <1>1
      <4> QED BY <4>1, <4>2, <1>5 DEF IsLast
    <3>3. IsLast(p, ids, i)
      BY <3>1, <3>2, <1>5 DEF IsLast
    <3> QED BY <3>1, <3>3 DEF Tells
  <2> QED BY <2>1, <2>2
<1>6. ASSUME Silent(t, ids)
      PROVE  was = now
  <2>1. Silent(s, ids)
    BY <1>2, <1>6 DEF Silent
  <2>2. Silent(p, ids)
    BY <1>3, <1>6 DEF Silent
  <2> QED BY <2>1, <2>2 DEF Tells
<1> QED BY <1>5, <1>6 DEF Tells, t

(* The event that is handled has had its effect on the value.                *)
LEMMA Handling ==
    ASSUME NEW E, NEW s \in Seq(E), s # <<>>, NEW ids, NEW after, NEW was, NEW true, NEW now,
           Tells(s, ids, after, was, true),
           now = IF Head(s).id \in ids THEN after[Head(s)] ELSE was
    PROVE  Tells(Tail(s), ids, after, now, true)
<1> DEFINE t == Tail(s)
<1>1. t \in Seq(E) /\ Len(t) = Len(s) - 1 /\ DOMAIN t = 1..(Len(s) - 1) /\ DOMAIN s = 1..Len(s)
      /\ Len(s) \in Nat /\ Len(s) > 0 /\ Head(s) = s[1]
  OBVIOUS
<1>2. \A i \in DOMAIN t : i + 1 \in DOMAIN s /\ t[i] = s[i + 1]
  OBVIOUS
<1>3. \A i \in DOMAIN s : i = 1 \/ (i - 1 \in DOMAIN t /\ t[i - 1] = s[i])
  BY <1>1, <1>2
<1> HIDE DEF t
<1>4. ASSUME NEW k \in DOMAIN t, IsLast(t, ids, k)
      PROVE  after[t[k]] = true
  <2>1. \A j \in DOMAIN s : j > k + 1 => s[j].id \notin ids
    <3> SUFFICES ASSUME NEW j \in DOMAIN s, j > k + 1 PROVE s[j].id \notin ids
      OBVIOUS
    <3>1. j - 1 \in DOMAIN t /\ t[j - 1] = s[j] /\ j - 1 > k
      BY <1>1, <1>3
    <3> QED BY <3>1, <1>4 DEF IsLast
  <2>2. IsLast(s, ids, k + 1)
    BY <1>2, <1>4, <2>1 DEF IsLast
  <2> QED BY <1>2, <2>2 DEF Tells
<1>5. ASSUME Silent(t, ids)
      PROVE  now = true
  <2>1. CASE s[1].id \in ids
    <3>1. \A j \in DOMAIN s : j > 1 => s[j].id \notin ids
      <4> SUFFICES ASSUME NEW j \in DOMAIN s, j > 1 PROVE s[j].id \notin ids
        OBVIOUS
      <4>1. j - 1 \in DOMAIN t /\ t[j - 1] = s[j]
        BY <1>3
      <4> QED BY <4>1, <1>5 DEF Silent
    <3>2. IsLast(s, ids, 1)
      BY <1>1, <2>1, <3>1 DEF IsLast
    <3> QED BY <1>1, <2>1, <3>2 DEF Tells
  <2>2. CASE s[1].id \notin ids
    <3>1. Silent(s, ids)
      <4> SUFFICES ASSUME NEW j \in DOMAIN s PROVE s[j].id \notin ids
        BY DEF Silent
      <4>1. j = 1 \/ (j - 1 \in DOMAIN t /\ t[j - 1] = s[j])
        BY <1>3
      <4> QED BY <4>1, <2>2, <1>5 DEF Silent
    <3> QED BY <1>1, <2>2, <3>1 DEF Tells
  <2> QED BY <2>1, <2>2
<1> QED BY <1>4, <1>5 DEF Tells, t
(* One event tells its own effect, if it has one, and nothing else.          *)
LEMMA OneEvent ==
    ASSUME NEW e \in WifiEvents, NEW ids, NEW after, NEW was, NEW now,
           now = IF e.id \in ids THEN after[e] ELSE was
    PROVE  <<e>> \in Seq(WifiEvents) /\ Tells(<<e>>, ids, after, was, now)
<1>1. DOMAIN <<e>> = {1} /\ <<e>>[1] = e
  OBVIOUS
<1> QED BY <1>1 DEF Tells, IsLast, Silent

(* No event tells nothing.                                                   *)
LEMMA NoEvent ==
    ASSUME NEW ids, NEW after, NEW was
    PROVE  <<>> \in Seq(WifiEvents) /\ Tells(<<>>, ids, after, was, was)
<1>1. DOMAIN <<>> = {}
  OBVIOUS
<1> QED BY <1>1 DEF Tells

-----------------------------------------------------------------------------
(* What the events tell of all three values, the address, whether the        *)
(* station has joined, and whether there is a network.                       *)
Informs(p, t, u) ==
    /\ p \in Seq(WifiEvents)
    /\ Tells(p, AddressIds, AddressAfter, t[1], u[1])
    /\ Tells(p, JoinIds, JoinAfter, t[2], u[2])
    /\ Tells(p, AddressIds, StatusAfter, t[3], u[3])

Truth == <<TrueAddress, Joined, Networked>>
Nothing == <<NoAddress, "no", "no">>

LEMMA InformsOn ==
    ASSUME NEW p, NEW q, NEW t, NEW u, NEW v, Informs(p, t, u), Informs(q, u, v)
    PROVE  Informs(p \o q, t, v)
<1>1. p \in Seq(WifiEvents) /\ q \in Seq(WifiEvents)
  BY DEF Informs
<1>2. p \o q \in Seq(WifiEvents)
  BY <1>1
<1>3. Tells(p \o q, AddressIds, AddressAfter, t[1], v[1])
  BY <1>1, Posting DEF Informs
<1>4. Tells(p \o q, JoinIds, JoinAfter, t[2], v[2])
  BY <1>1, Posting DEF Informs
<1>5. Tells(p \o q, AddressIds, StatusAfter, t[3], v[3])
  BY <1>1, Posting DEF Informs
<1> QED BY <1>2, <1>3, <1>4, <1>5 DEF Informs

LEMMA InformsNot ==
    ASSUME NEW t PROVE Informs(<<>>, t, t)
BY NoEvent DEF Informs

LEMMA InformsOne ==
    ASSUME NEW e \in WifiEvents, NEW t, NEW u,
           u[1] = IF e.id \in AddressIds THEN AddressAfter[e] ELSE t[1],
           u[2] = IF e.id \in JoinIds THEN JoinAfter[e] ELSE t[2],
           u[3] = IF e.id \in AddressIds THEN StatusAfter[e] ELSE t[3]
    PROVE  Informs(<<e>>, t, u)
<1>1. <<e>> \in Seq(WifiEvents) /\ Tells(<<e>>, AddressIds, AddressAfter, t[1], u[1])
  BY OneEvent
<1>2. Tells(<<e>>, JoinIds, JoinAfter, t[2], u[2])
  BY OneEvent
<1>3. Tells(<<e>>, AddressIds, StatusAfter, t[3], u[3])
  BY OneEvent
<1> QED BY <1>1, <1>2, <1>3 DEF Informs

(* The events of the driver, one by one.                                     *)
LEMMA DriverInforms ==
    ASSUME NEW t
    PROVE  /\ Informs(Posted("STA_START"), t, t)
           /\ Informs(Posted("STA_CONNECTED"), t, <<t[1], "yes", t[3]>>)
           /\ Informs(Posted("STA_DISCONNECTED"), t, Nothing)
           /\ Informs(Posted("STA_LOST_IP"), t, <<NoAddress, t[2], "no">>)
           /\ Informs(Posted("AP_START"), t, <<SoftApAddress, t[2], "yes">>)
           /\ Informs(Posted("AP_STOP"), t, <<NoAddress, t[2], "no">>)
<1> DEFINE Ev(i) == Event(i, NoAddress)
<1>1. \A i \in EventIds : Ev(i) \in WifiEvents /\ Ev(i).id = i /\ Ev(i).ip = NoAddress
  BY DEF WifiEvents, Event, Ips
<1>3. \A i \in EventIds : Posted(i) = <<Ev(i)>>
  BY DEF Posted
<1> HIDE DEF Ev
<1> USE DEF EventIds, AddressIds, JoinIds, AddressAfter, JoinAfter, StatusAfter, YesNo
<1>4. Informs(<<Ev("STA_START")>>, t, t)
  BY <1>1, InformsOne
<1>5. Informs(<<Ev("STA_CONNECTED")>>, t, <<t[1], "yes", t[3]>>)
  BY <1>1, InformsOne
<1>6. Informs(<<Ev("STA_DISCONNECTED")>>, t, Nothing)
  BY <1>1, InformsOne DEF Nothing
<1>7. Informs(<<Ev("STA_LOST_IP")>>, t, <<NoAddress, t[2], "no">>)
  BY <1>1, InformsOne
<1>8. Informs(<<Ev("AP_START")>>, t, <<SoftApAddress, t[2], "yes">>)
  BY <1>1, InformsOne
<1>9. Informs(<<Ev("AP_STOP")>>, t, <<NoAddress, t[2], "no">>)
  BY <1>1, InformsOne
<1> QED BY <1>3, <1>4, <1>5, <1>6, <1>7, <1>8, <1>9

LEMMA LeaseInforms ==
    ASSUME NEW t, NEW a \in Addresses
    PROVE  Informs(<<Event("STA_GOT_IP", a)>>, t, <<a, t[2], "yes">>)
<1> DEFINE e == Event("STA_GOT_IP", a)
<1>1. e \in WifiEvents /\ e.id = "STA_GOT_IP" /\ e.ip = a
  BY DEF WifiEvents, Event, Ips, EventIds
<1> HIDE DEF e
<1>2. Informs(<<e>>, t, <<a, t[2], "yes">>)
  BY <1>1, InformsOne DEF AddressIds, JoinIds, AddressAfter, JoinAfter, StatusAfter, YesNo
<1> QED BY <1>2 DEF e

-----------------------------------------------------------------------------
(* The inductive invariant.                                                *)

(* Everything starts in agreement: there is no event, no status and no link. *)
LEMMA WifiStart == WifiInit => WifiInv
<1> SUFFICES ASSUME WifiInit PROVE WifiInv
  OBVIOUS
<1>1. TypeInv
  <2>1. alive \in BOOLEAN /\ auto_connect_to_ap \in BOOLEAN /\ connected_to_ap \in BOOLEAN
        /\ believes_ip \in BOOLEAN /\ missed \in BOOLEAN
    BY DEF WifiInit
  <2>2. mode \in {"none", "sta", "ap"} /\ link \in Links /\ lease \in Ips
        /\ handling \in [at : {"none", "reconnect", "assign"}, ip : Ips]
    BY DEF WifiInit, Ips, Links, Idle
  <2>3. events \in Seq(WifiEvents) /\ statuses \in Seq(BOOLEAN)
    BY DEF WifiInit
  <2> QED BY <2>1, <2>2, <2>3 DEF TypeInv
<1>2. ModeOfLink
  BY DEF WifiInit, ModeOfLink, Idle
<1>3. DOMAIN events = {}
  BY DEF WifiInit
<1>4. Address = TrueAddress
  BY DEF WifiInit, Address, TrueAddress, Idle
<1>5. Connected = Joined
  BY DEF WifiInit, Connected, Joined, YesNo
<1>6. Status = Networked
  BY DEF WifiInit, Status, Networked, YesNo
<1> QED BY <1>1, <1>2, <1>3, <1>4, <1>5, <1>6 DEF WifiInv, AddressTold, JoinTold, StatusTold, Tells

(* A step that posts the events p, and handles none, keeps the invariant if  *)
(* p tells what the step does to the link.                                   *)
LEMMA Posts ==
    ASSUME WifiInv, TypeInv', ModeOfLink',
           NEW p, events' = events \o p, alive' = alive,
           Address' = Address, connected_to_ap' = connected_to_ap,
           Status' = Status, missed' = missed,
           Informs(p, Truth, Truth')
    PROVE  WifiInv'
<1>1. /\ events \in Seq(WifiEvents) /\ p \in Seq(WifiEvents)
      /\ Tells(p, AddressIds, AddressAfter, TrueAddress, TrueAddress')
      /\ Tells(p, JoinIds, JoinAfter, Joined, Joined')
      /\ Tells(p, AddressIds, StatusAfter, Networked, Networked')
  BY DEF WifiInv, TypeInv, Informs, Truth
<1>2. AddressTold'
  <2> SUFFICES ASSUME alive PROVE Tells(events \o p, AddressIds, AddressAfter, Address, TrueAddress')
    BY DEF AddressTold
  <2>1. Tells(events, AddressIds, AddressAfter, Address, TrueAddress)
    BY DEF AddressTold, WifiInv
  <2> QED BY <1>1, <2>1, Posting
<1>3. JoinTold'
  <2>1. Connected' = Connected
    BY DEF Connected
  <2> SUFFICES ASSUME alive PROVE Tells(events \o p, JoinIds, JoinAfter, Connected, Joined')
    BY <2>1 DEF JoinTold
  <2>2. Tells(events, JoinIds, JoinAfter, Connected, Joined)
    BY DEF JoinTold, WifiInv
  <2> QED BY <1>1, <2>2, Posting
<1>4. StatusTold'
  <2> SUFFICES ASSUME alive, ~missed
               PROVE  Tells(events \o p, AddressIds, StatusAfter, Status, Networked')
    BY DEF StatusTold
  <2>1. Tells(events, AddressIds, StatusAfter, Status, Networked)
    BY DEF StatusTold, WifiInv
  <2> QED BY <1>1, <2>1, Posting
<1> QED BY <1>2, <1>3, <1>4 DEF WifiInv

(* A step that handles an event keeps it if it does to the values what the   *)
(* event tells.                                                              *)
LEMMA Handles ==
    ASSUME WifiInv, TypeInv', ModeOfLink',
           events # <<>>, events' = Tail(events), UNCHANGED <<alive, driverVars>>,
           NEW e, e = Head(events),
           Address' = IF e.id \in AddressIds THEN AddressAfter[e] ELSE Address,
           Connected' = IF e.id \in JoinIds THEN JoinAfter[e] ELSE Connected,
           ~missed' => ~missed /\ Status' = IF e.id \in AddressIds THEN StatusAfter[e] ELSE Status
    PROVE  WifiInv'
<1>1. events \in Seq(WifiEvents)
  BY DEF WifiInv, TypeInv
<1>2. TrueAddress' = TrueAddress /\ Joined' = Joined /\ Networked' = Networked
  BY DEF driverVars, TrueAddress, Joined, Networked
<1>3. AddressTold'
  <2> SUFFICES ASSUME alive PROVE Tells(Tail(events), AddressIds, AddressAfter, Address', TrueAddress)
    BY <1>2 DEF AddressTold
  <2>1. Tells(events, AddressIds, AddressAfter, Address, TrueAddress)
    BY DEF AddressTold, WifiInv
  <2> QED BY <1>1, <2>1, Handling
<1>4. JoinTold'
  <2> SUFFICES ASSUME alive PROVE Tells(Tail(events), JoinIds, JoinAfter, Connected', Joined)
    BY <1>2 DEF JoinTold
  <2>1. Tells(events, JoinIds, JoinAfter, Connected, Joined)
    BY DEF JoinTold, WifiInv
  <2> QED BY <1>1, <2>1, Handling
<1>5. StatusTold'
  <2> SUFFICES ASSUME alive, ~missed'
               PROVE  Tells(Tail(events), AddressIds, StatusAfter, Status', Networked)
    BY <1>2 DEF StatusTold
  <2>1. Tells(events, AddressIds, StatusAfter, Status, Networked)
    BY DEF StatusTold, WifiInv
  <2> QED BY <1>1, <2>1, Handling
<1> QED BY <1>3, <1>4, <1>5 DEF WifiInv

(* publish_status(): the status that is published is the latest, or lost.    *)
LEMMA Published ==
    ASSUME TypeInv, NEW b \in BOOLEAN, PublishStatus(b), believes_ip' = believes_ip
    PROVE  /\ statuses' \in Seq(BOOLEAN) /\ missed' \in BOOLEAN
           /\ ~missed' => ~missed /\ Status' = YesNo(b)
<1>1. statuses \in Seq(BOOLEAN) /\ missed \in BOOLEAN
  BY DEF TypeInv
<1>2. CASE statuses' = Append(statuses, b) /\ missed' = missed
  <2>1. Len(statuses') = Len(statuses) + 1 /\ statuses' \in Seq(BOOLEAN)
        /\ statuses'[Len(statuses')] = b
    BY <1>1, <1>2
  <2>2. statuses' # <<>>
    BY <1>1, <1>2
  <2> QED BY <1>1, <1>2, <2>1, <2>2 DEF Status, YesNo
<1>3. CASE missed' = TRUE /\ statuses' = statuses
  BY <1>1, <1>3
<1> QED BY <1>2, <1>3 DEF PublishStatus

(* The driver's calls post events; the event task takes one.                 *)
LEMMA PostedTyped ==
    ASSUME TypeInv, NEW i \in EventIds
    PROVE  Posted(i) \in Seq(WifiEvents)
BY DEF Posted, Event, WifiEvents, Ips

LEMMA StopTyped ==
    ASSUME TypeInv
    PROVE  StopEvents(link) \in Seq(WifiEvents) /\ StartEvents(mode) \in Seq(WifiEvents)
<1>1. /\ Posted("STA_DISCONNECTED") \in Seq(WifiEvents) /\ Posted("AP_STOP") \in Seq(WifiEvents)
      /\ Posted("STA_START") \in Seq(WifiEvents) /\ Posted("AP_START") \in Seq(WifiEvents)
  BY PostedTyped DEF EventIds
<1>2. <<>> \in Seq(WifiEvents)
  OBVIOUS
<1> QED BY <1>1, <1>2 DEF StopEvents, StartEvents

LEMMA HeadTyped ==
    ASSUME NEW S, NEW s \in Seq(S), s # <<>>
    PROVE  Head(s) \in S /\ Tail(s) \in Seq(S)
OBVIOUS

LEMMA TailLast ==
    ASSUME NEW S, NEW s \in Seq(S), s # <<>>, Len(s) # 1
    PROVE  Tail(s) # <<>> /\ Tail(s)[Len(Tail(s))] = s[Len(s)]
<1>1. Len(s) \in Nat /\ Len(s) # 0
  OBVIOUS
<1>2. Len(s) > 1
  <2>1. \A n \in Nat : n # 0 /\ n # 1 => n > 1
    OBVIOUS
  <2> QED BY <1>1, <2>1
<1>3. Len(Tail(s)) = Len(s) - 1
  BY HeadTailProperties
<1>4. Tail(s) # <<>>
  <2>1. Len(<<>>) = 0
    OBVIOUS
  <2>2. Len(s) - 1 # 0
    BY <1>1, <1>2
  <2> QED BY ONLY <1>3, <2>1, <2>2
<1>5. Len(s) - 1 \in 1..Len(Tail(s)) /\ (Len(s) - 1) + 1 = Len(s)
  BY <1>1, <1>2, <1>3
<1>6. Tail(s)[Len(s) - 1] = s[(Len(s) - 1) + 1]
  BY <1>5, HeadTailProperties
<1> QED BY <1>3, <1>4, <1>5, <1>6

(* Every step keeps the types, and the driver in its mode.                   *)
LEMMA WifiTypes ==
    ASSUME TypeInv, ModeOfLink, WifiNext
    PROVE  TypeInv' /\ ModeOfLink'
<1> USE DEF TypeInv, ModeOfLink, Idle, Links
<1>0. ASSUME NEW b \in BOOLEAN, PublishStatus(b), believes_ip' = believes_ip
      PROVE  statuses' \in Seq(BOOLEAN) /\ missed' \in BOOLEAN
  BY <1>0, Published
<1>1. ASSUME NEW auto \in BOOLEAN, SetAutoConnect(auto) PROVE TypeInv' /\ ModeOfLink'
  BY <1>1 DEF SetAutoConnect, driverVars, statusVars, Call
<1>2. CASE ConnectToAp
  <2>1. events' \in Seq(WifiEvents)
    BY <1>2, StopTyped, PostedTyped DEF ConnectToAp, StartEvents, EventIds
  <2> QED BY <1>2, <2>1 DEF ConnectToAp, memberVars, statusVars, Call
<1>3. CASE StartSoftap
  <2>1. events' \in Seq(WifiEvents)
    BY <1>3, StopTyped, PostedTyped DEF StartSoftap, StartEvents, EventIds
  <2> QED BY <1>3, <2>1 DEF StartSoftap, memberVars, statusVars, Call, Ips
<1>4. CASE Destroy
  <2>1. <<>> \in Seq(WifiEvents) /\ NoAddress \in Ips
    BY DEF Ips
  <2>2. TypeInv'
    BY <1>4, <2>1 DEF Destroy, memberVars, statusVars, Call
  <2> QED BY <1>4, <2>2 DEF Destroy, Call
<1>5. CASE EventTask
  <2>1. CASE StaStart
    BY <2>1 DEF StaStart, Dispatch, driverVars, memberVars, statusVars
  <2>2. CASE StaConnected
    BY <2>2 DEF StaConnected, Dispatch, driverVars, statusVars
  <2>3. CASE StaDisconnected
    <3>1. statuses' \in Seq(BOOLEAN) /\ missed' \in BOOLEAN
      BY <2>3, <1>0 DEF StaDisconnected
    <3>2. events' \in Seq(WifiEvents)
      BY <2>3, HeadTyped DEF StaDisconnected, Dispatch
    <3> QED BY <2>3, <3>1, <3>2 DEF StaDisconnected, Dispatch, driverVars, Ips
  <2>4. CASE Reconnect
    <3>1. events' \in Seq(WifiEvents)
      <4>1. StopEvents(link) \in Seq(WifiEvents) /\ StartEvents(mode) \in Seq(WifiEvents)
        BY StopTyped
      <4>2. events \o StopEvents(link) \o StartEvents(mode) \in Seq(WifiEvents)
        BY <4>1
      <4> QED BY <2>4, <4>2 DEF Reconnect
    <3> QED BY <2>4, <3>1 DEF Reconnect, memberVars, statusVars, Ips
  <2>5. CASE ApStart
    <3>1. statuses' \in Seq(BOOLEAN) /\ missed' \in BOOLEAN
      BY <2>5, <1>0 DEF ApStart
    <3>2. events' \in Seq(WifiEvents)
      BY <2>5, HeadTyped DEF ApStart, Dispatch
    <3> QED BY <2>5, <3>1, <3>2 DEF ApStart, Dispatch, driverVars
  <2>6. ASSUME NEW id, AddressLost(id) PROVE TypeInv' /\ ModeOfLink'
    <3>1. statuses' \in Seq(BOOLEAN) /\ missed' \in BOOLEAN
      BY <2>6, <1>0 DEF AddressLost
    <3>2. events' \in Seq(WifiEvents)
      BY <2>6, HeadTyped DEF AddressLost, Dispatch
    <3> QED BY <2>6, <3>1, <3>2 DEF AddressLost, Dispatch, driverVars
  <2>7. CASE GotIp
    <3>1. statuses' \in Seq(BOOLEAN) /\ missed' \in BOOLEAN
      BY <2>7, <1>0 DEF GotIp
    <3>2. Head(events) \in WifiEvents /\ events' \in Seq(WifiEvents)
      BY <2>7, HeadTyped DEF GotIp, Dispatch
    <3>3. Head(events).ip \in Ips
      BY <3>2 DEF WifiEvents
    <3> QED BY <2>7, <3>1, <3>2, <3>3 DEF GotIp, Dispatch, driverVars, memberVars
  <2>8. CASE AssignIp
    BY <2>8 DEF AssignIp, driverVars, statusVars, Ips
  <2> QED BY <1>5, <2>1, <2>2, <2>3, <2>4, <2>5, <2>6, <2>7, <2>8 DEF EventTask
<1>6. CASE Driver
  <2>1. CASE Join
    <3>1. events' \in Seq(WifiEvents)
      BY <2>1, PostedTyped DEF Join, EventIds
    <3> QED BY <2>1, <3>1 DEF Join, memberVars, statusVars
  <2>2. ASSUME NEW a \in Addresses, Dhcp(a) PROVE TypeInv' /\ ModeOfLink'
    <3>1. Event("STA_GOT_IP", a) \in WifiEvents
      BY DEF Event, WifiEvents, Ips, EventIds
    <3>2. events' \in Seq(WifiEvents)
      BY <2>2, <3>1 DEF Dhcp
    <3> QED BY <2>2, <3>2 DEF Dhcp, memberVars, statusVars, Ips
  <2>3. CASE Drop
    <3>1. events' \in Seq(WifiEvents)
      BY <2>3, PostedTyped DEF Drop, EventIds
    <3> QED BY <2>3, <3>1 DEF Drop, memberVars, statusVars, Ips
  <2>4. CASE LoseIp
    <3>1. events' \in Seq(WifiEvents)
      BY <2>4, PostedTyped DEF LoseIp, EventIds
    <3> QED BY <2>4, <3>1 DEF LoseIp, memberVars, statusVars, Ips
  <2> QED BY <1>6, <2>1, <2>2, <2>3, <2>4 DEF Driver
<1>7. CASE Receive
  BY <1>7 DEF Receive, driverVars, memberVars
<1> QED BY <1>1, <1>2, <1>3, <1>4, <1>5, <1>6, <1>7 DEF WifiNext

(* StopEvents(): what the link told is taken back.                           *)
LEMMA StopInforms ==
    ASSUME TypeInv, ModeOfLink
    PROVE  Informs(StopEvents(link), Truth, Nothing)
<1>1. CASE Joined = "yes"
  <2>1. StopEvents(link) = Posted("STA_DISCONNECTED")
    BY <1>1 DEF StopEvents, Joined, YesNo
  <2> QED BY <2>1, DriverInforms
<1>2. CASE link = "ap"
  <2>1. StopEvents(link) = Posted("AP_STOP") /\ Truth[2] = "no"
    BY <1>2 DEF StopEvents, Truth, Joined, YesNo
  <2>2. <<NoAddress, Truth[2], "no">> = Nothing
    BY <2>1 DEF Nothing
  <2> QED BY <2>1, <2>2, DriverInforms
<1>3. CASE Joined # "yes" /\ link # "ap"
  <2>1. StopEvents(link) = <<>>
    BY <1>3 DEF StopEvents, Joined, YesNo
  <2>2. Truth = Nothing
    BY <1>3 DEF ModeOfLink, Truth, Nothing, TrueAddress, Joined, Networked, YesNo
  <2> QED BY <2>1, <2>2, InformsNot
<1> QED BY <1>1, <1>2, <1>3

(* StartEvents(): the access point runs, or there is nothing to tell yet.    *)
LEMMA StartInforms ==
    /\ Informs(StartEvents("sta"), Nothing, Nothing)
    /\ Informs(StartEvents("ap"), Nothing, <<SoftApAddress, "no", "yes">>)
<1>1. Nothing[2] = "no"
  BY DEF Nothing
<1> QED BY <1>1, DriverInforms DEF StartEvents

(* Every step keeps the invariant.                                           *)
LEMMA WifiStep ==
    ASSUME WifiInv, [WifiNext]_wifiVars
    PROVE  WifiInv'
<1> USE DEF WifiInv
<1>1. CASE UNCHANGED wifiVars
  <2>1. UNCHANGED <<alive, mode, link, lease, auto_connect_to_ap, connected_to_ap, ip_info, events,
                    handling, statuses, missed, believes_ip>>
    BY <1>1 DEF wifiVars, driverVars, memberVars, statusVars
  <2> QED BY <2>1 DEF TypeInv, ModeOfLink, AddressTold, JoinTold, StatusTold, Address,
                      TrueAddress, Joined, Networked, Connected, Status
<1> SUFFICES ASSUME WifiNext PROVE WifiInv'
  BY <1>1
<1>2. TypeInv' /\ ModeOfLink'
  BY WifiTypes
<1> USE DEF driverVars, memberVars, statusVars
<1>3. ASSUME NEW auto \in BOOLEAN, SetAutoConnect(auto) PROVE WifiInv'
  <2>1. events' = events \o <<>>
    BY <1>3 DEF SetAutoConnect, TypeInv
  <2>2. Truth' = Truth /\ Address' = Address /\ Status' = Status
    BY <1>3 DEF SetAutoConnect, Truth, TrueAddress, Joined, Networked, Address, Status
  <2>3. Informs(<<>>, Truth, Truth')
    BY <2>2, InformsNot
  <2>4. UNCHANGED <<alive, connected_to_ap, missed>>
    BY <1>3 DEF SetAutoConnect
  <2> QED BY <1>2, <2>1, <2>2, <2>3, <2>4, Posts
<1>4. CASE ConnectToAp
  <2>1. Truth' = Nothing
    BY <1>4 DEF ConnectToAp, Truth, Nothing, TrueAddress, Joined, Networked, YesNo, ModeOfLink
  <2>2. Address' = Address /\ Status' = Status /\ UNCHANGED <<alive, connected_to_ap, missed>>
    BY <1>4 DEF ConnectToAp, Address, Status
  <2> DEFINE stop == IF link = "ap" THEN StopEvents(link) ELSE <<>>
             start == IF link \in {"off", "ap"} THEN StartEvents("sta") ELSE <<>>
  <2>3. Informs(stop, Truth, Nothing)
    <3>1. CASE link = "ap"
      BY <3>1, StopInforms
    <3>2. CASE link # "ap"
      <4>1. Truth = Nothing
        BY <1>4, <3>2 DEF ConnectToAp, Truth, Nothing, TrueAddress, Joined, Networked, YesNo,
                          ModeOfLink
      <4> QED BY <3>2, <4>1, InformsNot
    <3> QED BY <3>1, <3>2
  <2>4. Informs(start, Nothing, Nothing)
    BY StartInforms, InformsNot
  <2>5. events' = events \o (stop \o start)
    <3>1. stop \in Seq(WifiEvents) /\ start \in Seq(WifiEvents) /\ events \in Seq(WifiEvents)
      BY <2>3, <2>4 DEF Informs, TypeInv
    <3>2. events' = (events \o stop) \o start
      BY <1>4 DEF ConnectToAp
    <3> HIDE DEF stop, start
    <3>3. (events \o stop) \o start = events \o (stop \o start)
      BY <3>1, ConcatAssociative
    <3> QED BY <3>2, <3>3
  <2> HIDE DEF stop, start
  <2>6. Informs(stop \o start, Truth, Truth')
    BY <2>1, <2>3, <2>4, InformsOn
  <2> QED BY <1>2, <2>2, <2>5, <2>6, Posts
<1>5. CASE StartSoftap
  <2>1. Truth' = <<SoftApAddress, "no", "yes">>
    BY <1>5 DEF StartSoftap, Truth, TrueAddress, Joined, Networked, YesNo
  <2>2. Address' = Address /\ Status' = Status /\ UNCHANGED <<alive, connected_to_ap, missed>>
    BY <1>5 DEF StartSoftap, Address, Status, Call
  <2> DEFINE p == StopEvents(link) \o StartEvents("ap")
  <2>3. Informs(p, Truth, Truth')
    BY <2>1, StopInforms, StartInforms, InformsOn
  <2>4. events' = events \o p
    <3>1. StopEvents(link) \in Seq(WifiEvents) /\ StartEvents("ap") \in Seq(WifiEvents)
          /\ events \in Seq(WifiEvents)
      BY StopInforms, StartInforms DEF Informs, TypeInv
    <3>2. events' = (events \o StopEvents(link)) \o StartEvents("ap")
      BY <1>5 DEF StartSoftap
    <3>3. (events \o StopEvents(link)) \o StartEvents("ap")
            = events \o (StopEvents(link) \o StartEvents("ap"))
      BY <3>1, ConcatAssociative
    <3> QED BY <3>2, <3>3
  <2> HIDE DEF p
  <2> QED BY <1>2, <2>2, <2>3, <2>4, Posts
<1>6. CASE Destroy
  BY <1>2, <1>6 DEF Destroy, AddressTold, JoinTold, StatusTold
<1>7. CASE EventTask
  <2> DEFINE e == Head(events)
  <2>0. events # <<>> => e \in WifiEvents
    BY HeadTyped DEF TypeInv
  <2> HIDE DEF e
  <2> USE DEF AddressIds, JoinIds, AddressAfter, JoinAfter, StatusAfter, YesNo
  <2>1. CASE StaStart
    <3>1. events # <<>> /\ events' = Tail(events) /\ e.id = "STA_START"
          /\ UNCHANGED <<alive, driverVars, missed>>
      BY <2>1 DEF StaStart, Dispatch, e
    <3>2. Address' = Address /\ Connected' = Connected /\ Status' = Status
      BY <2>1 DEF StaStart, Address, Connected, Status
    <3> QED BY <1>2, <2>0, <3>1, <3>2, Handles DEF e
  <2>2. CASE StaConnected
    <3>1. events # <<>> /\ events' = Tail(events) /\ e.id = "STA_CONNECTED"
          /\ UNCHANGED <<alive, driverVars, missed>>
      BY <2>2 DEF StaConnected, Dispatch, e
    <3>2. Address' = Address /\ Connected' = "yes" /\ Status' = Status
      BY <2>2 DEF StaConnected, Address, Connected, Status
    <3> QED BY <1>2, <2>0, <3>1, <3>2, Handles DEF e
  <2>3. CASE StaDisconnected
    <3>1. events # <<>> /\ events' = Tail(events) /\ e.id = "STA_DISCONNECTED"
          /\ UNCHANGED <<alive, driverVars>>
      BY <2>3 DEF StaDisconnected, Dispatch, e
    <3>2. Address' = NoAddress /\ Connected' = "no"
      BY <2>3 DEF StaDisconnected, Address, Connected
    <3>3. ~missed' => ~missed /\ Status' = "no"
      BY <2>3, Published DEF StaDisconnected
    <3> QED BY <1>2, <2>0, <3>1, <3>2, <3>3, Handles DEF e
  <2>4. CASE Reconnect
    <3>1. Address' = Address /\ Status' = Status /\ UNCHANGED <<alive, connected_to_ap, missed>>
      BY <2>4 DEF Reconnect, Address, Status, Idle
    <3>2. CASE ~auto_connect_to_ap
      <4>1. events' = events \o <<>> /\ Truth' = Truth
        BY <2>4, <3>2 DEF Reconnect, TypeInv, Truth, TrueAddress, Joined, Networked
      <4>2. Informs(<<>>, Truth, Truth')
        BY <4>1, InformsNot
      <4> QED BY <1>2, <3>1, <4>1, <4>2, Posts
    <3>3. CASE auto_connect_to_ap
      <4> DEFINE p == StopEvents(link) \o StartEvents(mode)
      <4>1. mode \in {"sta", "ap"}
        BY <2>4 DEF Reconnect, ModeOfLink, TypeInv, Idle
      <4>2. Truth' = IF mode = "sta" THEN Nothing ELSE <<SoftApAddress, "no", "yes">>
        BY <2>4, <3>3 DEF Reconnect, Truth, Nothing, TrueAddress, Joined, Networked
      <4>3. Informs(StartEvents(mode), Nothing, Truth')
        BY <4>1, <4>2, StartInforms
      <4>4. Informs(p, Truth, Truth')
        BY <4>3, StopInforms, InformsOn
      <4>5. events' = events \o p
        <5>1. StopEvents(link) \in Seq(WifiEvents) /\ StartEvents(mode) \in Seq(WifiEvents)
              /\ events \in Seq(WifiEvents)
          BY <4>3, StopInforms DEF Informs, TypeInv
        <5>2. events' = (events \o StopEvents(link)) \o StartEvents(mode)
          BY <2>4, <3>3 DEF Reconnect
        <5>3. (events \o StopEvents(link)) \o StartEvents(mode)
                = events \o (StopEvents(link) \o StartEvents(mode))
          <6>1. PICK a, b, c \in Seq(WifiEvents) :
                  a = events /\ b = StopEvents(link) /\ c = StartEvents(mode)
            BY <5>1
          <6>2. (a \o b) \o c = a \o (b \o c)
            BY ConcatAssociative
          <6> QED BY <6>1, <6>2
        <5> QED BY <5>2, <5>3
      <4> HIDE DEF p
      <4> QED BY <1>2, <3>1, <4>4, <4>5, Posts
    <3> QED BY <3>2, <3>3
  <2>5. CASE ApStart
    <3>1. events # <<>> /\ events' = Tail(events) /\ e.id = "AP_START"
          /\ UNCHANGED <<alive, driverVars>>
      BY <2>5 DEF ApStart, Dispatch, e
    <3>2. Address' = SoftApAddress /\ Connected' = Connected
      BY <2>5 DEF ApStart, Address, Connected, Dispatch, Idle
    <3>3. ~missed' => ~missed /\ Status' = "yes"
      BY <2>5, Published DEF ApStart
    <3> QED BY <1>2, <2>0, <3>1, <3>2, <3>3, Handles DEF e
  <2>6. ASSUME NEW id \in {"AP_STOP", "STA_LOST_IP"}, AddressLost(id) PROVE WifiInv'
    <3>1. events # <<>> /\ events' = Tail(events) /\ e.id \in {"AP_STOP", "STA_LOST_IP"}
          /\ UNCHANGED <<alive, driverVars>>
      BY <2>6 DEF AddressLost, Dispatch, e
    <3>2. Address' = NoAddress /\ Connected' = Connected
      BY <2>6 DEF AddressLost, Address, Connected, Dispatch, Idle
    <3>3. ~missed' => ~missed /\ Status' = "no"
      BY <2>6, Published DEF AddressLost
    <3> QED BY <1>2, <2>0, <3>1, <3>2, <3>3, Handles DEF e
  <2>7. CASE GotIp
    <3>1. events # <<>> /\ events' = Tail(events) /\ e.id = "STA_GOT_IP"
          /\ UNCHANGED <<alive, driverVars>>
      BY <2>7 DEF GotIp, Dispatch, e
    <3>2. Address' = e.ip /\ Connected' = Connected
      BY <2>7 DEF GotIp, Address, Connected, e
    <3>3. ~missed' => ~missed /\ Status' = "yes"
      BY <2>7, Published DEF GotIp
    <3> QED BY <1>2, <2>0, <3>1, <3>2, <3>3, Handles DEF e
  <2>8. CASE AssignIp
    <3>1. events' = events \o <<>> /\ UNCHANGED <<alive, connected_to_ap, missed>>
      BY <2>8 DEF AssignIp, TypeInv
    <3>2. Truth' = Truth /\ Address' = Address /\ Status' = Status
      BY <2>8 DEF AssignIp, Truth, TrueAddress, Joined, Networked, Address, Status, Idle
    <3>3. Informs(<<>>, Truth, Truth')
      BY <3>2, InformsNot
    <3> QED BY <1>2, <3>1, <3>2, <3>3, Posts
  <2> QED BY <1>7, <2>1, <2>2, <2>3, <2>4, <2>5, <2>6, <2>7, <2>8 DEF EventTask
<1>8. CASE Driver
  <2>1. CASE Join
    <3>1. events' = events \o Posted("STA_CONNECTED")
      BY <2>1 DEF Join, Posted
    <3>2. Truth' = <<Truth[1], "yes", Truth[3]>>
      BY <2>1 DEF Join, Truth, TrueAddress, Joined, Networked, YesNo
    <3>3. Address' = Address /\ Status' = Status /\ UNCHANGED <<alive, connected_to_ap, missed>>
      BY <2>1 DEF Join, Address, Status
    <3>4. Informs(Posted("STA_CONNECTED"), Truth, Truth')
      BY <3>2, DriverInforms
    <3> QED BY <1>2, <3>1, <3>3, <3>4, Posts
  <2>2. ASSUME NEW a \in Addresses, Dhcp(a) PROVE WifiInv'
    <3>1. events' = events \o <<Event("STA_GOT_IP", a)>>
      BY <2>2 DEF Dhcp, TypeInv
    <3>2. Truth' = <<a, Truth[2], "yes">>
      BY <2>2 DEF Dhcp, Truth, TrueAddress, Joined, Networked, YesNo
    <3>3. Address' = Address /\ Status' = Status /\ UNCHANGED <<alive, connected_to_ap, missed>>
      BY <2>2 DEF Dhcp, Address, Status
    <3>4. Informs(<<Event("STA_GOT_IP", a)>>, Truth, Truth')
      BY <3>2, LeaseInforms
    <3> QED BY <1>2, <3>1, <3>3, <3>4, Posts
  <2>3. CASE Drop
    <3>1. events' = events \o Posted("STA_DISCONNECTED")
      BY <2>3 DEF Drop
    <3>2. Truth' = Nothing
      BY <2>3 DEF Drop, Truth, Nothing, TrueAddress, Joined, Networked, YesNo
    <3>3. Address' = Address /\ Status' = Status /\ UNCHANGED <<alive, connected_to_ap, missed>>
      BY <2>3 DEF Drop, Address, Status
    <3>4. Informs(Posted("STA_DISCONNECTED"), Truth, Truth')
      BY <3>2, DriverInforms
    <3> QED BY <1>2, <3>1, <3>3, <3>4, Posts
  <2>4. CASE LoseIp
    <3>1. events' = events \o Posted("STA_LOST_IP")
      BY <2>4 DEF LoseIp
    <3>2. Truth' = <<NoAddress, Truth[2], "no">>
      BY <2>4 DEF LoseIp, Truth, TrueAddress, Joined, Networked, YesNo
    <3>3. Address' = Address /\ Status' = Status /\ UNCHANGED <<alive, connected_to_ap, missed>>
      BY <2>4 DEF LoseIp, Address, Status
    <3>4. Informs(Posted("STA_LOST_IP"), Truth, Truth')
      BY <3>2, DriverInforms
    <3> QED BY <1>2, <3>1, <3>3, <3>4, Posts
  <2> QED BY <1>8, <2>1, <2>2, <2>3, <2>4 DEF Driver
<1>9. CASE Receive
  <2>1. Status' = Status
    <3>1. statuses \in Seq(BOOLEAN) /\ statuses # <<>> /\ believes_ip' = statuses[1]
          /\ statuses' = Tail(statuses)
      BY <1>9 DEF Receive, TypeInv
    <3>2. CASE Len(statuses) = 1
      <4>1. statuses' = <<>>
        BY <3>1, <3>2
      <4> QED BY <3>1, <3>2, <4>1 DEF Status
    <3>3. CASE Len(statuses) # 1
      <4>1. statuses' # <<>> /\ statuses'[Len(statuses')] = statuses[Len(statuses)]
        BY <3>1, <3>3, TailLast
      <4> QED BY <3>1, <4>1 DEF Status
    <3> QED BY <3>2, <3>3
  <2>2. events' = events \o <<>> /\ UNCHANGED <<alive, connected_to_ap, missed>>
    BY <1>9 DEF Receive, TypeInv
  <2>3. Truth' = Truth /\ Address' = Address
    BY <1>9 DEF Receive, Truth, TrueAddress, Joined, Networked, Address
  <2>4. Informs(<<>>, Truth, Truth')
    BY <2>3, InformsNot
  <2> QED BY <1>2, <2>1, <2>2, <2>3, <2>4, Posts
<1> QED BY <1>3, <1>4, <1>5, <1>6, <1>7, <1>8, <1>9 DEF WifiNext

(* Whatever the driver, the access point, the DHCP server and the            *)
(* application do, and in whatever order: once its events are handled,       *)
(* get_local_ip() and is_connected_to_ap() are those of the link, and once   *)
(* the status is received, the sockets know whether there is a network,      *)
(* unless their queue was full (wifi_event_callback() of Wifi.cpp).          *)
THEOREM StatusTrue == WifiSpec => []StatusFollowsLink
<1>1. WifiInv => StatusFollowsLink
  <2> SUFFICES ASSUME WifiInv, Settled PROVE StatusFollowsLink
    BY DEF StatusFollowsLink, AddressFollowsLink, BelievesTheLink
  <2>1. DOMAIN events = {} /\ alive /\ handling = Idle
    BY DEF Settled
  <2>2. Address = TrueAddress /\ Connected = Joined
    BY <2>1 DEF WifiInv, AddressTold, JoinTold, Tells, Silent
  <2>3. AddressFollowsLink
    <3>1. ip_info = TrueAddress
      BY <2>1, <2>2 DEF Address, Idle
    <3>2. connected_to_ap \in BOOLEAN /\ (connected_to_ap <=> link \in {"joined", "addressed"})
      BY <2>2 DEF Connected, Joined, YesNo, WifiInv, TypeInv
    <3>3. connected_to_ap = (link \in {"joined", "addressed"})
      BY <3>2
    <3> QED BY <3>1, <3>3 DEF AddressFollowsLink, TrueAddress
  <2>4. BelievesTheLink
    <3> SUFFICES ASSUME statuses = <<>>, ~missed PROVE believes_ip <=> link \in {"addressed", "ap"}
      BY DEF BelievesTheLink
    <3>1. Status = Networked
      BY <2>1 DEF WifiInv, StatusTold, Tells, Silent
    <3> QED BY <3>1 DEF Status, Networked, YesNo
  <2> QED BY <2>3, <2>4 DEF StatusFollowsLink
<1> QED BY <1>1, WifiStart, WifiStep, PTL DEF WifiSpec
=============================================================================
