---------------------------- MODULE LcdSpiProofs ----------------------------
(***************************************************************************)
(* Displays share the bus and the callbacks of its driver                  *)
(* (DisplaysShareBus), for any number of displays that the count of users  *)
(* can hold and of operations on each.                                     *)
(*                                                                         *)
(* What the callbacks index with current_transaction is, for each display, *)
(* lined up with the transactions that wait (Aligned): the arrays are      *)
(* written again only when there are none.  Lines that wait are those that *)
(* their display has put into the array all displays share, and name it as *)
(* their user (Owned); the ones to be queued come next in the arrays and   *)
(* in the pins (Queueing).  A display is selected while its transaction is *)
(* on the bus, or in the middle of a read (Chosen); during a read nobody   *)
(* else has a transaction to send (ReadAlone), which rests on the guard    *)
(* that the reader holds (Guarded).                                        *)
(***************************************************************************)
EXTENDS LcdSpi, SequenceTheorems, FiniteSetTheorems, TLAPS

Kinds == {"cmd", "data"}
Transactions == [kind : Kinds, polled : BOOLEAN, slot : 0..6]
Users == Displays \cup {NoDisplay}
Ops == {"idle", "send", "transmit", "polling", "queueing", "waiting", "reading"}

LcdTypes ==
    /\ displayLife \in [Displays -> {"new", "ready", "removed"}]
    /\ spiGuard \in Displays \cup {NoDisplay}
    /\ lcdOp \in [Displays -> Ops]
    /\ sends \in [Displays -> Seq(Kinds)]
    /\ current_transaction \in [Displays -> Nat]
    /\ dc \in [Displays -> [Slots -> Kinds]]
    /\ cs_post \in [Displays -> [Slots -> {"low", "high"}]]
    /\ queue \in [Displays -> Seq(Transactions)]
    /\ flying \in [Displays -> Users]
    /\ filled \in Users /\ user \in [Slots -> Users]
    /\ finished \in [Displays -> Nat]
    /\ dc_pin \in [Displays -> Kinds]
    /\ selected \subseteq Displays
    /\ crashed = FALSE

\* Transaction i of the queue finds its pins at the current one, plus i - 1;
\* only the first of the two of a read leaves the display selected.
Aligned(d) ==
    \A i \in 1..Len(queue[d]) :
        LET s == (current_transaction[d] + i) - 1
        IN  /\ s \in Slots /\ dc[d][s] = queue[d][i].kind
            /\ \/ cs_post[d][s] = "high"
               \/ lcdOp[d] = "reading" /\ Len(queue[d]) = 2 /\ i = 1

\* A display that is busy is there.
Living(d) == queue[d] # <<>> \/ lcdOp[d] # "idle" => displayLife[d] = "ready"

Flies(d) == flying[d] # NoDisplay
Flight(d) ==
    Flies(d) => flying[d] = d /\ d \in selected /\ queue[d] # <<>> /\ dc_pin[d] = queue[d][1].kind

\* send_cmd() and send_data(): one transaction at a time.
Program(d) ==
    /\ lcdOp[d] \in {"send", "transmit", "polling"} => sends[d] # <<>>
    /\ lcdOp[d] \in {"send", "transmit"} => queue[d] = <<>>
    /\ lcdOp[d] = "transmit" =>
         current_transaction[d] = 0 /\ dc[d][0] = sends[d][1] /\ cs_post[d][0] = "high"

Chosen(d) == d \in selected => Flies(d) \/ (lcdOp[d] = "reading" /\ Len(queue[d]) = 1)

Guarded(d) == lcdOp[d] \in {"polling", "queueing", "waiting", "reading"} => spiGuard = d

Owned(d) ==
    \A i \in 1..Len(queue[d]) :
        queue[d][i].slot \in Slots => filled = d /\ user[queue[d][i].slot] = d

Queueing(d) ==
    lcdOp[d] = "queueing" =>
        /\ filled = d /\ Len(sends[d]) \in 1..6
        /\ (current_transaction[d] + Len(queue[d])) + Len(sends[d]) = 6
        /\ \A j \in 1..Len(sends[d]) :
             LET s == ((6 - Len(sends[d])) + j) - 1
             IN  s \in Slots /\ dc[d][s] = sends[d][j] /\ cs_post[d][s] = "high"

ReadAlone(d) ==
    lcdOp[d] = "reading" =>
        /\ Len(queue[d]) + finished[d] = 2
        /\ \A i \in 1..Len(queue[d]) : queue[d][i].polled = FALSE
        /\ \A e \in Displays : e # d => queue[e] = <<>>

Local(d) == Aligned(d) /\ Living(d) /\ Flight(d) /\ Program(d) /\ Chosen(d)

Lined(d) == Owned(d) /\ Queueing(d)

OneFlies == \A d, e \in Displays : Flies(d) /\ Flies(e) => d = e

\* While the displays take turns.
Patient ==
    /\ LcdTypes /\ OneFlies
    /\ \A d \in Displays : Local(d) /\ Guarded(d) /\ ReadAlone(d) /\ Lined(d)

\* Whatever the tasks do.
Ready == {d \in Displays : displayLife[d] = "ready"}
BusCounted ==
    /\ displayLife \in [Displays -> {"new", "ready", "removed"}]
    /\ initialized_count = Cardinality(Ready)
    /\ bus = IF initialized_count = 0 THEN "free" ELSE "initialized"

LcdInv == BusCounted /\ refused \in Nat /\ (Orderly => Patient)

-----------------------------------------------------------------------------
(* What the steps have in common.                                            *)

LEMMA SixSlots == Slots = 0..5
BY DEF Slots, line_transaction_length

\* A step that leaves a display alone.
LEMMA LocalKept ==
    ASSUME NEW e \in Displays, Local(e),
           queue'[e] = queue[e], current_transaction'[e] = current_transaction[e],
           dc'[e] = dc[e], cs_post'[e] = cs_post[e], lcdOp'[e] = lcdOp[e],
           displayLife'[e] = displayLife[e], flying'[e] = flying[e], dc_pin'[e] = dc_pin[e],
           sends'[e] = sends[e], e \in selected' <=> e \in selected
    PROVE  Local(e)'
<1>1. Aligned(e)'
  BY DEF Local, Aligned
<1>2. Living(e)' /\ Flight(e)' /\ Program(e)' /\ Chosen(e)'
  BY DEF Local, Living, Flight, Flies, Program, Chosen
<1> QED BY <1>1, <1>2 DEF Local

\* One that leaves the lines alone, and one that is not about lines.
LEMMA LinedKept ==
    ASSUME NEW e \in Displays, Lined(e), queue'[e] = queue[e],
           current_transaction'[e] = current_transaction[e], dc'[e] = dc[e], cs_post'[e] = cs_post[e],
           lcdOp'[e] = lcdOp[e], sends'[e] = sends[e], filled' = filled, user' = user
    PROVE  Lined(e)'
<1>1. Owned(e)'
  BY DEF Lined, Owned
<1>2. Queueing(e)'
  BY DEF Lined, Queueing
<1> QED BY <1>1, <1>2 DEF Lined

LEMMA NotLined ==
    ASSUME NEW e \in Displays, lcdOp'[e] # "queueing", Len(queue'[e]) = 0
    PROVE  Lined(e)'
<1>1. 1..Len(queue'[e]) = {}
  OBVIOUS
<1> QED BY <1>1 DEF Lined, Owned, Queueing

LEMMA QueuedTransaction ==
    ASSUME NEW k \in Kinds, NEW t \in 0..6
    PROVE  \E x \in Transactions :
             x = [kind |-> k, polled |-> FALSE, slot |-> t] /\ x.kind = k /\ x.slot = t
<1>1. PICK x : x = [kind |-> k, polled |-> FALSE, slot |-> t]
  OBVIOUS
<1>2. x \in [kind : Kinds, polled : BOOLEAN, slot : 0..6] /\ x.kind = k /\ x.slot = t
  BY <1>1
<1> QED BY <1>1, <1>2 DEF Transactions

LEMMA PolledTransaction ==
    ASSUME NEW k \in Kinds, NEW t \in 0..6
    PROVE  \E x \in Transactions :
             x = [kind |-> k, polled |-> TRUE, slot |-> t] /\ x.kind = k /\ x.slot = t
<1>1. PICK x : x = [kind |-> k, polled |-> TRUE, slot |-> t]
  OBVIOUS
<1>2. x \in [kind : Kinds, polled : BOOLEAN, slot : 0..6] /\ x.kind = k /\ x.slot = t
  BY <1>1
<1> QED BY <1>1, <1>2 DEF Transactions

\* Nobody polls, waits or reads while the guard is free; nobody else while it
\* is held.
LEMMA GuardExcludes ==
    ASSUME Patient, NEW e \in Displays, spiGuard # e
    PROVE  lcdOp[e] \notin {"polling", "queueing", "waiting", "reading"}
BY DEF Patient, Guarded

LEMMA GuardIsNobody ==
    ASSUME NEW e \in Displays
    PROVE  NoDisplay # e
BY LcdConstants

\* The pins of the transactions to come.
LEMMA PinsPrepared ==
    ASSUME LcdTypes, NEW d \in Displays, NEW n \in 1..6,
           NEW kinds \in [1..n -> Kinds], NEW post \in [1..n -> {"low", "high"}],
           Len(kinds) = n, PreparePins(d, kinds, post)
    PROVE  /\ dc' \in [Displays -> [Slots -> Kinds]]
           /\ cs_post' \in [Displays -> [Slots -> {"low", "high"}]]
           /\ current_transaction' \in [Displays -> Nat]
           /\ current_transaction'[d] = 0
           /\ \A i \in 1..n : i - 1 \in Slots /\ dc'[d][i - 1] = kinds[i] /\ cs_post'[d][i - 1] = post[i]
           /\ \A e \in Displays : e # d => /\ dc'[e] = dc[e] /\ cs_post'[e] = cs_post[e]
                                           /\ current_transaction'[e] = current_transaction[e]
<1>1. /\ dc \in [Displays -> [Slots -> Kinds]] /\ cs_post \in [Displays -> [Slots -> {"low", "high"}]]
      /\ current_transaction \in [Displays -> Nat]
  BY DEF LcdTypes
<1>2. PICK k : k = [s \in Slots |-> IF s < n THEN kinds[s + 1] ELSE dc[d][s]]
  OBVIOUS
<1>3. PICK p : p = [s \in Slots |-> IF s < n THEN post[s + 1] ELSE cs_post[d][s]]
  OBVIOUS
<1>4. dc' = [dc EXCEPT ![d] = k] /\ cs_post' = [cs_post EXCEPT ![d] = p]
      /\ current_transaction' = [current_transaction EXCEPT ![d] = 0]
  BY <1>1, <1>2, <1>3 DEF PreparePins
<1>5. \A s \in Slots : s < n => s + 1 \in 1..n
  BY SixSlots
<1>6. k \in [Slots -> Kinds]
  BY <1>1, <1>2, <1>5
<1>7. p \in [Slots -> {"low", "high"}]
  BY <1>1, <1>3, <1>5
<1>8. ASSUME NEW i \in 1..n
      PROVE  i - 1 \in Slots /\ k[i - 1] = kinds[i] /\ p[i - 1] = post[i]
  <2>1. i - 1 \in Slots /\ i - 1 < n /\ (i - 1) + 1 = i
    BY SixSlots
  <2> QED BY <2>1, <1>2, <1>3
<1> QED BY <1>1, <1>4, <1>6, <1>7, <1>8

-----------------------------------------------------------------------------
(* The bus.                                                                  *)

LEMMA InitializeKeeps ==
    ASSUME Patient, NEW d \in Displays, Initialize(d)
    PROVE  Patient'
<1>1. /\ LcdTypes /\ displayLife[d] = "new"
      /\ displayLife' = [displayLife EXCEPT ![d] = "ready"]
      /\ UNCHANGED <<filled, user, spiGuard, lcdOp, sends, current_transaction, dc, cs_post, queue, flying,
                     finished, dc_pin, selected, crashed>>
  BY DEF Patient, Initialize, pinVars, lineVars, driverVars
<1>2. LcdTypes' /\ OneFlies'
  BY <1>1 DEF LcdTypes, Ops, Users, Patient, OneFlies, Flies
<1>3. ASSUME NEW e \in Displays PROVE Local(e)' /\ Guarded(e)' /\ ReadAlone(e)' /\ Lined(e)'
  <2>1. Guarded(e)' /\ ReadAlone(e)'
    BY <1>1 DEF Patient, Guarded, ReadAlone
  <2>4. Lined(e)'
    BY <1>1, LinedKept DEF Patient
  <2>2. CASE e # d
    <3>1. displayLife'[e] = displayLife[e]
      BY <1>1, <2>2 DEF LcdTypes
    <3>2. Local(e)'
      BY <1>1, <3>1, LocalKept DEF Patient
    <3> QED BY <2>4, <2>1, <3>2
  <2>3. CASE e = d
    <3>1. Aligned(e)' /\ Flight(e)' /\ Program(e)' /\ Chosen(e)'
      BY <1>1 DEF Patient, Local, Aligned, Flight, Flies, Program, Chosen
    <3>2. Living(e)'
      BY <1>1, <2>3 DEF LcdTypes, Living
    <3> QED BY <2>4, <2>1, <3>1, <3>2 DEF Local
  <2> QED BY <2>2, <2>3
<1> QED BY <1>2, <1>3 DEF Patient

LEMMA DestructKeeps ==
    ASSUME Patient, NEW d \in Displays, Destruct(d), Orderly'
    PROVE  Patient'
<1>1. /\ LcdTypes /\ queue[d] = <<>> /\ lcdOp[d] = "idle" /\ ~(finished[d] > 0)
      /\ displayLife' = [displayLife EXCEPT ![d] = "removed"]
      /\ finished' = [finished EXCEPT ![d] = IF finished[d] > 0 THEN finished[d] - 1 ELSE 0]
      /\ UNCHANGED <<filled, user, spiGuard, lcdOp, sends, current_transaction, dc, cs_post, queue, flying,
                     dc_pin, selected, crashed>>
  BY DEF Patient, Destruct, Busy, Orderly, pinVars, lineVars
<1>2. finished' = [finished EXCEPT ![d] = 0]
  BY <1>1
<1>3. LcdTypes' /\ OneFlies'
  BY <1>1, <1>2 DEF LcdTypes, Patient, OneFlies, Flies
<1>4. ASSUME NEW e \in Displays PROVE Local(e)' /\ Guarded(e)' /\ ReadAlone(e)' /\ Lined(e)'
  <2>1. Guarded(e)'
    BY <1>1 DEF Patient, Guarded
  <2>4. Lined(e)'
    BY <1>1, LinedKept DEF Patient
  <2>2. CASE e # d
    <3>1. displayLife'[e] = displayLife[e] /\ finished'[e] = finished[e]
      BY <1>1, <1>2, <2>2 DEF LcdTypes
    <3>2. Local(e)'
      BY <1>1, <3>1, LocalKept DEF Patient
    <3>3. ReadAlone(e)'
      BY <1>1, <3>1 DEF Patient, ReadAlone
    <3> QED BY <2>4, <2>1, <3>2, <3>3
  <2>3. CASE e = d
    <3>1. Aligned(e)' /\ Flight(e)' /\ Program(e)' /\ Chosen(e)'
      BY <1>1 DEF Patient, Local, Aligned, Flight, Flies, Program, Chosen
    <3>2. Living(e)' /\ ReadAlone(e)'
      BY <1>1, <2>3 DEF Living, ReadAlone
    <3> QED BY <2>4, <2>1, <3>1, <3>2 DEF Local
  <2> QED BY <2>2, <2>3
<1> QED BY <1>3, <1>4 DEF Patient

-----------------------------------------------------------------------------
(* Commands and data.                                                        *)

LEMMA SendKeeps ==
    ASSUME Patient, NEW d \in Displays, Send(d), Orderly'
    PROVE  Patient'
<1>1. /\ LcdTypes /\ queue[d] = <<>> /\ lcdOp[d] = "idle" /\ displayLife[d] = "ready"
      /\ lcdOp' = [lcdOp EXCEPT ![d] = "send"]
      /\ UNCHANGED <<filled, user, spiGuard, displayLife, current_transaction, dc, cs_post, queue, flying,
                     finished, dc_pin, selected, crashed>>
  BY DEF Patient, Send, Start, Busy, Orderly, pinVars, lineVars, driverVars
<1>2. PICK p \in Programs : sends' = [sends EXCEPT ![d] = p]
  BY DEF Send
<1>3. p \in Seq(Kinds) /\ p # <<>>
  <2>1. "cmd" \in Kinds /\ "data" \in Kinds
    BY DEF Kinds
  <2>2. CASE p = <<"cmd", "data">>
    BY <2>1, <2>2
  <2>3. CASE p = <<"data", "cmd">>
    BY <2>1, <2>3
  <2> QED BY <2>2, <2>3 DEF Programs
<1>4. sends' \in [Displays -> Seq(Kinds)] /\ sends'[d] = p
      /\ \A e \in Displays : e # d => sends'[e] = sends[e]
  BY <1>1, <1>2, <1>3 DEF LcdTypes
<1>5. lcdOp'[d] = "send" /\ \A e \in Displays : e # d => lcdOp'[e] = lcdOp[e]
  BY <1>1 DEF LcdTypes
<1>6. LcdTypes' /\ OneFlies'
  BY <1>1, <1>4 DEF LcdTypes, Ops, Users, Patient, OneFlies, Flies
<1>7. ASSUME NEW e \in Displays PROVE Local(e)' /\ Guarded(e)' /\ ReadAlone(e)' /\ Lined(e)'
  <2>1. CASE e # d
    <3>1. Local(e)'
      BY <1>1, <1>4, <1>5, <2>1, LocalKept DEF Patient
    <3>2. Guarded(e)' /\ ReadAlone(e)'
      BY <1>1, <1>5, <2>1 DEF Patient, Guarded, ReadAlone
    <3>3. Lined(e)'
      BY <1>1, <1>4, <1>5, <2>1, LinedKept DEF Patient
    <3> QED BY <3>1, <3>2, <3>3
  <2>2. CASE e = d
    <3>1. Len(queue'[d]) = 0 /\ ~(d \in selected /\ ~Flies(d)) /\ ~Flies(d)
      BY <1>1 DEF Patient, Local, Flight, Flies, Chosen
    <3>2. Aligned(d)' /\ Flight(d)' /\ Chosen(d)'
      BY <1>1, <3>1 DEF Aligned, Flight, Flies, Chosen
    <3>3. Living(d)' /\ Program(d)' /\ Guarded(d)' /\ ReadAlone(d)'
      BY <1>1, <1>3, <1>4, <1>5 DEF Living, Program, Guarded, ReadAlone
    <3>4. Lined(d)'
      BY <1>5, <3>1, NotLined
    <3> QED BY <2>2, <3>2, <3>3, <3>4 DEF Local
  <2> QED BY <2>1, <2>2
<1> QED BY <1>6, <1>7 DEF Patient

LEMMA PrepareKeeps ==
    ASSUME Patient, NEW d \in Displays, Prepare(d)
    PROVE  Patient'
<1>1. /\ LcdTypes /\ lcdOp[d] = "send" /\ queue[d] = <<>> /\ sends[d] # <<>>
      /\ displayLife[d] = "ready"
      /\ lcdOp' = [lcdOp EXCEPT ![d] = "transmit"]
      /\ UNCHANGED <<filled, user, spiGuard, displayLife, sends, queue, flying, finished, dc_pin, selected, crashed>>
  BY DEF Patient, Local, Program, Living, Prepare, lineVars, driverVars
<1>2. PICK k \in Kinds : k = Head(sends[d]) /\ k = sends[d][1]
  BY <1>1, HeadTailProperties DEF LcdTypes
<1>3. PreparePins(d, <<k>>, <<"high">>)
  BY <1>2 DEF Prepare
<1>4. /\ 1 \in 1..6 /\ <<k>> \in [1..1 -> Kinds] /\ <<"high">> \in [1..1 -> {"low", "high"}]
      /\ Len(<<k>>) = 1
  OBVIOUS
<1>5. /\ dc' \in [Displays -> [Slots -> Kinds]]
      /\ cs_post' \in [Displays -> [Slots -> {"low", "high"}]]
      /\ current_transaction' \in [Displays -> Nat]
      /\ current_transaction'[d] = 0
      /\ \A i \in 1..1 : i - 1 \in Slots /\ dc'[d][i - 1] = <<k>>[i] /\ cs_post'[d][i - 1] = <<"high">>[i]
      /\ \A e \in Displays : e # d => /\ dc'[e] = dc[e] /\ cs_post'[e] = cs_post[e]
                                      /\ current_transaction'[e] = current_transaction[e]
  BY <1>1, <1>3, <1>4, PinsPrepared
<1>6. dc'[d][0] = k /\ cs_post'[d][0] = "high"
  <2>1. 1 \in 1..1 /\ 1 - 1 = 0 /\ <<k>>[1] = k /\ <<"high">>[1] = "high"
    OBVIOUS
  <2>2. dc'[d][1 - 1] = <<k>>[1] /\ cs_post'[d][1 - 1] = <<"high">>[1]
    BY <1>5, <2>1
  <2> QED BY <2>1, <2>2
<1>7. lcdOp'[d] = "transmit" /\ \A e \in Displays : e # d => lcdOp'[e] = lcdOp[e]
  BY <1>1 DEF LcdTypes
<1>8. LcdTypes' /\ OneFlies'
  BY <1>1, <1>5 DEF LcdTypes, Ops, Users, Patient, OneFlies, Flies
<1>9. ASSUME NEW e \in Displays PROVE Local(e)' /\ Guarded(e)' /\ ReadAlone(e)' /\ Lined(e)'
  <2>1. CASE e # d
    <3>1. Local(e)'
      BY <1>1, <1>5, <1>7, <2>1, LocalKept DEF Patient
    <3>2. Guarded(e)' /\ ReadAlone(e)'
      BY <1>1, <1>7, <2>1 DEF Patient, Guarded, ReadAlone
    <3>3. Lined(e)'
      BY <1>1, <1>5, <1>7, <2>1, LinedKept DEF Patient
    <3> QED BY <3>1, <3>2, <3>3
  <2>2. CASE e = d
    <3>1. Len(queue'[d]) = 0 /\ d \notin selected /\ ~Flies(d)
      BY <1>1 DEF Patient, Local, Flight, Flies, Chosen
    <3>2. Aligned(d)' /\ Flight(d)' /\ Chosen(d)'
      BY <1>1, <3>1 DEF Aligned, Flight, Flies, Chosen
    <3>3. Living(d)' /\ Program(d)' /\ Guarded(d)' /\ ReadAlone(d)'
      BY <1>1, <1>2, <1>5, <1>6, <1>7 DEF Living, Program, Guarded, ReadAlone
    <3>4. Lined(d)'
      BY <1>7, <3>1, NotLined
    <3> QED BY <2>2, <3>2, <3>3, <3>4 DEF Local
  <2> QED BY <2>1, <2>2
<1> QED BY <1>8, <1>9 DEF Patient

LEMMA TransmitKeeps ==
    ASSUME Patient, NEW d \in Displays, Transmit(d)
    PROVE  Patient'
<1>1. /\ LcdTypes /\ lcdOp[d] = "transmit" /\ spiGuard = NoDisplay
      /\ queue[d] = <<>> /\ sends[d] # <<>> /\ displayLife[d] = "ready"
      /\ current_transaction[d] = 0 /\ dc[d][0] = sends[d][1] /\ cs_post[d][0] = "high"
      /\ lcdOp' = [lcdOp EXCEPT ![d] = "polling"] /\ spiGuard' = d
      /\ UNCHANGED <<filled, user, displayLife, sends, current_transaction, dc, cs_post, flying, finished,
                     dc_pin, selected, crashed>>
  BY DEF Patient, Local, Program, Living, Transmit, pinVars, lineVars
<1>2. PICK k \in Kinds : k = Head(sends[d]) /\ k = sends[d][1]
  BY <1>1, HeadTailProperties DEF LcdTypes
<1>3. PICK x \in Transactions : x = Transaction(k, TRUE, Stack) /\ x.kind = k /\ x.slot = 6
  <2>1. Stack = 6 /\ 6 \in 0..6
    BY DEF Stack, line_transaction_length
  <2> QED BY <2>1, PolledTransaction DEF Transaction
<1>4. queue' = [queue EXCEPT ![d] = <<x>>]
  <2>1. queue' = [queue EXCEPT ![d] = Append(queue[d], x)]
    BY <1>2, <1>3 DEF Transmit
  <2>2. Append(<<>>, x) = <<x>>
    OBVIOUS
  <2> QED BY <1>1, <2>1, <2>2
<1>5. /\ queue' \in [Displays -> Seq(Transactions)] /\ queue'[d] = <<x>>
      /\ \A e \in Displays : e # d => queue'[e] = queue[e]
  BY <1>1, <1>4 DEF LcdTypes
<1>6. lcdOp'[d] = "polling" /\ \A e \in Displays : e # d => lcdOp'[e] = lcdOp[e]
  BY <1>1 DEF LcdTypes
<1>7. LcdTypes' /\ OneFlies'
  BY <1>1, <1>5 DEF LcdTypes, Ops, Users, Patient, OneFlies, Flies
<1>8. ASSUME NEW e \in Displays PROVE Local(e)' /\ Guarded(e)' /\ ReadAlone(e)' /\ Lined(e)'
  <2>1. CASE e # d
    <3>1. Local(e)'
      BY <1>1, <1>5, <1>6, <2>1, LocalKept DEF Patient
    <3>2. lcdOp[e] \notin {"polling", "queueing", "waiting", "reading"}
      BY <1>1, GuardIsNobody, GuardExcludes
    <3>3. Lined(e)'
      BY <1>1, <1>5, <1>6, <2>1, LinedKept DEF Patient
    <3> QED BY <1>6, <2>1, <3>1, <3>2, <3>3 DEF Guarded, ReadAlone
  <2>2. CASE e = d
    <3>1. Len(queue'[d]) = 1 /\ queue'[d][1] = x /\ d \notin selected /\ ~Flies(d)
      BY <1>1, <1>5 DEF Patient, Local, Flight, Flies, Chosen
    <3>2. Aligned(d)'
      <4> SUFFICES ASSUME NEW i \in 1..1
                   PROVE  /\ (0 + i) - 1 \in Slots /\ dc[d][(0 + i) - 1] = <<x>>[i].kind
                          /\ cs_post[d][(0 + i) - 1] = "high"
        BY <1>1, <1>5, <3>1 DEF Aligned
      <4>1. i = 1 /\ (0 + i) - 1 = 0 /\ 0 \in Slots
        BY SixSlots
      <4> QED BY <4>1, <1>1, <1>2, <1>3
    <3>3. Flight(d)' /\ Chosen(d)'
      BY <1>1, <3>1 DEF Flight, Flies, Chosen
    <3>4. Living(d)' /\ Program(d)' /\ Guarded(d)' /\ ReadAlone(d)'
      BY <1>1, <1>6 DEF Living, Program, Guarded, ReadAlone
    <3>5. Lined(d)'
      <4>1. ASSUME NEW i \in 1..Len(queue'[d]) PROVE queue'[d][i].slot \notin Slots
        <5>1. i = 1 /\ 6 \notin 0..5
          BY <3>1
        <5> QED BY <1>3, <3>1, <5>1, SixSlots
      <4> QED BY <1>6, <4>1 DEF Lined, Owned, Queueing
    <3> QED BY <2>2, <3>2, <3>3, <3>4, <3>5 DEF Local
  <2> QED BY <2>1, <2>2
<1> QED BY <1>7, <1>8 DEF Patient

LEMMA TransmittedKeeps ==
    ASSUME Patient, NEW d \in Displays, Transmitted(d)
    PROVE  Patient'
<1>1. /\ LcdTypes /\ lcdOp[d] \in {"polling", "transmit"} /\ spiGuard \in {d, NoDisplay} /\ queue[d] = <<>> /\ sends[d] # <<>>
      /\ displayLife[d] = "ready" /\ spiGuard' = NoDisplay
      /\ sends' = [sends EXCEPT ![d] = Tail(sends[d])]
      /\ lcdOp' = [lcdOp EXCEPT ![d] = IF Len(sends[d]) > 1 THEN "send" ELSE "idle"]
      /\ UNCHANGED <<filled, user, displayLife, current_transaction, dc, cs_post, queue, flying, finished,
                     dc_pin, selected, crashed>>
  BY DEF Patient, Local, Guarded, Program, Living, Transmitted, pinVars, lineVars, driverVars
<1>2. PICK u \in Seq(Kinds) : u = Tail(sends[d]) /\ Len(u) = Len(sends[d]) - 1
  BY <1>1, HeadTailProperties DEF LcdTypes
<1>3. Len(sends[d]) > 1 => u # <<>>
  <2>1. PICK l \in Nat : l = Len(sends[d])
    BY <1>1, LenProperties DEF LcdTypes
  <2>2. l > 1 => l - 1 # 0
    OBVIOUS
  <2> QED BY <1>2, <2>1, <2>2, EmptySeq
<1>4. sends' \in [Displays -> Seq(Kinds)] /\ sends'[d] = u
      /\ \A e \in Displays : e # d => sends'[e] = sends[e]
  BY <1>1, <1>2 DEF LcdTypes
<1>5. /\ lcdOp'[d] = (IF Len(sends[d]) > 1 THEN "send" ELSE "idle")
      /\ \A e \in Displays : e # d => lcdOp'[e] = lcdOp[e]
      /\ lcdOp' \in [Displays -> Ops]
  BY <1>1 DEF LcdTypes, Ops
<1>6. LcdTypes' /\ OneFlies'
  <2>1. spiGuard' \in Displays \cup {NoDisplay}
    BY <1>1
  <2>2. LcdTypes'
    BY <1>1, <1>4, <1>5, <2>1 DEF LcdTypes
  <2>3. OneFlies'
    BY <1>1 DEF Patient, OneFlies, Flies
  <2> QED BY <2>2, <2>3
<1>7. ASSUME NEW e \in Displays PROVE Local(e)' /\ Guarded(e)' /\ ReadAlone(e)' /\ Lined(e)'
  <2>1. CASE e # d
    <3>1. Local(e)'
      BY <1>1, <1>4, <1>5, <2>1, LocalKept DEF Patient
    <3>2. lcdOp[e] \notin {"polling", "queueing", "waiting", "reading"}
      BY <1>1, <2>1, GuardIsNobody, GuardExcludes
    <3>3. Lined(e)'
      BY <1>1, <1>4, <1>5, <2>1, LinedKept DEF Patient
    <3> QED BY <1>5, <2>1, <3>1, <3>2, <3>3 DEF Guarded, ReadAlone
  <2>2. CASE e = d
    <3>1. Len(queue'[d]) = 0 /\ d \notin selected /\ ~Flies(d)
      BY <1>1 DEF Patient, Local, Flight, Flies, Chosen
    <3>2. Aligned(d)' /\ Flight(d)' /\ Chosen(d)'
      BY <1>1, <3>1 DEF Aligned, Flight, Flies, Chosen
    <3>3. Living(d)' /\ Program(d)' /\ Guarded(d)' /\ ReadAlone(d)'
      BY <1>1, <1>3, <1>4, <1>5 DEF Living, Program, Guarded, ReadAlone
    <3>4. Lined(d)'
      BY <1>5, <3>1, NotLined
    <3> QED BY <2>2, <3>2, <3>3, <3>4 DEF Local
  <2> QED BY <2>1, <2>2
<1> QED BY <1>6, <1>7 DEF Patient

-----------------------------------------------------------------------------
(* Lines and reads.                                                          *)

\* The six lines.
LEMMA LinesProperties == Lines \in Seq(Kinds) /\ Lines \in [1..6 -> Kinds] /\ Len(Lines) = 6
<1>1. Lines \in Seq(Kinds) /\ Len(Lines) = 6
  BY DEF Lines, Kinds
<1> QED BY <1>1, LenProperties, ElementOfSeq

LEMMA SendLinesKeeps ==
    ASSUME Patient, NEW d \in Displays, SendLines(d), Orderly'
    PROVE  Patient'
<1>1. /\ LcdTypes /\ lcdOp[d] = "idle" /\ displayLife[d] = "ready" /\ spiGuard = NoDisplay
      /\ \A e \in Displays : queue[e] = <<>>
      /\ lcdOp' = [lcdOp EXCEPT ![d] = "queueing"] /\ spiGuard' = d
      /\ sends' = [sends EXCEPT ![d] = Lines]
      /\ filled' = d /\ user' = [s \in Slots |-> NoDisplay]
      /\ UNCHANGED <<displayLife, queue, flying, finished, dc_pin, selected, crashed>>
  BY DEF Patient, SendLines, Start, Busy, OthersWait, Orderly, driverVars
<1>2. Lines \in Seq(Kinds) /\ Lines \in [1..6 -> Kinds] /\ Len(Lines) = 6
  BY LinesProperties
<1>3. /\ dc' \in [Displays -> [Slots -> Kinds]]
      /\ cs_post' \in [Displays -> [Slots -> {"low", "high"}]]
      /\ current_transaction' \in [Displays -> Nat]
      /\ current_transaction'[d] = 0
      /\ \A i \in 1..6 : i - 1 \in Slots /\ dc'[d][i - 1] = Lines[i] /\ cs_post'[d][i - 1] = "high"
      /\ \A e \in Displays : e # d => /\ dc'[e] = dc[e] /\ cs_post'[e] = cs_post[e]
                                      /\ current_transaction'[e] = current_transaction[e]
  <2>1. PICK post \in [1..6 -> {"low", "high"}] : post = [i \in 1..6 |-> "high"]
    OBVIOUS
  <2>2. PreparePins(d, Lines, post) /\ 6 \in 1..6
    BY <2>1 DEF SendLines
  <2>3. /\ dc' \in [Displays -> [Slots -> Kinds]]
        /\ cs_post' \in [Displays -> [Slots -> {"low", "high"}]]
        /\ current_transaction' \in [Displays -> Nat]
        /\ current_transaction'[d] = 0
        /\ \A i \in 1..6 : i - 1 \in Slots /\ dc'[d][i - 1] = Lines[i] /\ cs_post'[d][i - 1] = post[i]
        /\ \A e \in Displays : e # d => /\ dc'[e] = dc[e] /\ cs_post'[e] = cs_post[e]
                                        /\ current_transaction'[e] = current_transaction[e]
    BY <1>1, <1>2, <2>2, PinsPrepared
  <2>4. \A i \in 1..6 : post[i] = "high"
    BY <2>1
  <2> QED BY <2>3, <2>4
<1>4. /\ lcdOp'[d] = "queueing" /\ sends'[d] = Lines
      /\ \A e \in Displays : e # d => lcdOp'[e] = lcdOp[e] /\ sends'[e] = sends[e]
      /\ lcdOp' \in [Displays -> Ops] /\ sends' \in [Displays -> Seq(Kinds)]
  BY <1>1, <1>2 DEF LcdTypes, Ops
<1>5. LcdTypes' /\ OneFlies'
  <2>1. filled' \in Users /\ user' \in [Slots -> Users] /\ spiGuard' \in Displays \cup {NoDisplay}
    BY <1>1 DEF Users
  <2>2. LcdTypes'
    BY <1>1, <1>3, <1>4, <2>1 DEF LcdTypes
  <2>3. OneFlies'
    BY <1>1 DEF Patient, OneFlies, Flies
  <2> QED BY <2>2, <2>3
<1>6. ASSUME NEW e \in Displays PROVE Local(e)' /\ Guarded(e)' /\ ReadAlone(e)' /\ Lined(e)'
  <2>1. lcdOp[e] \notin {"polling", "queueing", "waiting", "reading"} /\ Len(queue'[e]) = 0
    BY <1>1, GuardIsNobody, GuardExcludes
  <2>2. CASE e # d
    <3>1. Local(e)'
      BY <1>1, <1>3, <1>4, <2>2, LocalKept DEF Patient
    <3>2. Lined(e)'
      BY <1>4, <2>1, <2>2, NotLined
    <3> QED BY <1>4, <2>1, <2>2, <3>1, <3>2 DEF Guarded, ReadAlone
  <2>3. CASE e = d
    <3>1. d \notin selected /\ ~Flies(d)
      BY <1>1 DEF Patient, Local, Flight, Flies, Chosen
    <3>2. Aligned(d)' /\ Flight(d)' /\ Chosen(d)'
      BY <1>1, <2>1, <2>3, <3>1 DEF Aligned, Flight, Flies, Chosen
    <3>3. Living(d)' /\ Program(d)' /\ Guarded(d)' /\ ReadAlone(d)'
      BY <1>1, <1>4 DEF Living, Program, Guarded, ReadAlone
    <3>4. Queueing(d)'
      <4> SUFFICES ASSUME NEW j \in 1..6
                   PROVE  /\ ((6 - 6) + j) - 1 \in Slots /\ dc'[d][((6 - 6) + j) - 1] = Lines[j]
                          /\ cs_post'[d][((6 - 6) + j) - 1] = "high"
        <5>1. /\ Len(sends'[d]) = 6 /\ 6 \in 1..6 /\ sends'[d] = Lines
              /\ current_transaction'[d] = 0 /\ Len(queue'[d]) = 0 /\ (0 + 0) + 6 = 6
          BY <1>2, <1>3, <1>4, <2>1, <2>3
        <5> HIDE DEF Lines
        <5> QED BY <1>1, <5>1 DEF Queueing
      <4>1. ((6 - 6) + j) - 1 = j - 1
        OBVIOUS
      <4> QED BY <1>3, <4>1
    <3>5. Lined(d)'
      BY <2>1, <2>3, <3>4 DEF Lined, Owned
    <3> QED BY <2>3, <3>2, <3>3, <3>5 DEF Local
  <2> QED BY <2>2, <2>3
<1> QED BY <1>5, <1>6 DEF Patient

\* A line is queued, or the last one is refused.
LEMMA QueueLineKeeps ==
    ASSUME Patient, refused \in Nat, NEW d \in Displays, QueueLine(d), Orderly'
    PROVE  Patient'
<1>1. /\ LcdTypes /\ lcdOp[d] = "queueing" /\ spiGuard = d /\ displayLife[d] = "ready" /\ filled = d
      /\ UNCHANGED <<displayLife, current_transaction, dc, cs_post, filled, flying, finished, dc_pin,
                     selected, crashed>>
  BY DEF Patient, Local, Living, Guarded, Lined, Queueing, QueueLine, pinVars
<1>2. PICK n \in 1..6 : n = Len(sends[d])
  BY <1>1 DEF Patient, Lined, Queueing
<1>3. PICK c \in Nat, l \in Nat : c = current_transaction[d] /\ l = Len(queue[d]) /\ (c + l) + n = 6
  <2>1. Len(queue[d]) \in Nat /\ current_transaction[d] \in Nat
    BY <1>1, LenProperties DEF LcdTypes
  <2> QED BY <1>1, <1>2, <2>1 DEF Patient, Lined, Queueing
<1>sum. (c + l) + n = 6
  BY <1>3
<1>4. \A j \in 1..n : /\ ((6 - n) + j) - 1 \in Slots /\ dc[d][((6 - n) + j) - 1] = sends[d][j]
                       /\ cs_post[d][((6 - n) + j) - 1] = "high"
  BY <1>1, <1>2 DEF Patient, Lined, Queueing
<1>5. PICK k \in Kinds, v \in Seq(Kinds) :
         /\ k = Head(sends[d]) /\ k = sends[d][1] /\ v = Tail(sends[d]) /\ Len(v) = n - 1
         /\ \A j \in 1..(n - 1) : v[j] = sends[d][j + 1]
  <2>0. sends[d] \in Seq(Kinds)
    BY <1>1 DEF LcdTypes
  <2>1. sends[d] \in Seq(Kinds) /\ sends[d] # <<>>
    <3>1. n # 0
      OBVIOUS
    <3>2. Len(<<>>) = 0
      OBVIOUS
    <3> QED BY <1>2, <2>0, <3>1, <3>2
  <2>2. /\ Head(sends[d]) \in Kinds /\ Head(sends[d]) = sends[d][1]
        /\ Tail(sends[d]) \in Seq(Kinds) /\ Len(Tail(sends[d])) = Len(sends[d]) - 1
        /\ \A j \in 1..Len(Tail(sends[d])) : Tail(sends[d])[j] = sends[d][j + 1]
    BY <2>1, HeadTailProperties
  <2> QED BY <1>2, <2>2
<1>6. PICK t \in Slots : t = 6 - n /\ t = c + l /\ dc[d][t] = k /\ cs_post[d][t] = "high"
  <2>1. 1 \in 1..n /\ ((6 - n) + 1) - 1 = 6 - n /\ 6 - n = c + l
    BY <1>sum
  <2> QED BY <1>4, <1>5, <2>1
<1>7. PICK x \in Transactions : x = Transaction(k, FALSE, t) /\ x.kind = k /\ x.slot = t
  <2>1. t \in 0..6
    BY SixSlots
  <2> QED BY <2>1, QueuedTransaction DEF Transaction
<1>8. /\ user' = [user EXCEPT ![t] = d] /\ sends' = [sends EXCEPT ![d] = v]
      /\ lcdOp' = [lcdOp EXCEPT ![d] = IF n > 1 THEN "queueing" ELSE "idle"]
      /\ spiGuard' = IF n > 1 THEN d ELSE NoDisplay
      /\ \/ queue' = [queue EXCEPT ![d] = Append(queue[d], x)]
         \/ n = 1 /\ queue' = queue
  <2>1. line_transaction_length - Len(sends[d]) = t
    BY <1>2, <1>6 DEF line_transaction_length
  <2>2. \/ queue' = [queue EXCEPT ![d] = Append(queue[d], x)]
        \/ queue' = queue /\ refused' = (IF n > 1 THEN refused + 1 ELSE refused)
    BY <1>2, <1>5, <1>7, <2>1 DEF QueueLine
  <2>3. refused' = 0
    BY DEF Orderly
  <2>4. ~(n > 1) => n = 1
    OBVIOUS
  <2>5. refused' = (IF n > 1 THEN refused + 1 ELSE refused) => n = 1
    BY <2>3, <2>4
  <2>6. /\ user' = [user EXCEPT ![t] = d] /\ sends' = [sends EXCEPT ![d] = v]
        /\ lcdOp' = [lcdOp EXCEPT ![d] = IF n > 1 THEN "queueing" ELSE "idle"]
        /\ spiGuard' = IF n > 1 THEN d ELSE NoDisplay
    BY <1>2, <1>5, <2>1 DEF QueueLine
  <2> QED BY <2>2, <2>5, <2>6
<1>9. PICK u \in Seq(Transactions), m \in Nat :
         /\ u = queue'[d] /\ m = Len(u) /\ \A i \in 1..l : u[i] = queue[d][i]
         /\ \/ m = l + 1 /\ u[l + 1] = x
            \/ m = l /\ n = 1
  <2>1. queue[d] \in Seq(Transactions) /\ queue \in [Displays -> Seq(Transactions)]
    BY <1>1 DEF LcdTypes
  <2>2. CASE queue' = [queue EXCEPT ![d] = Append(queue[d], x)]
    <3>1. /\ Append(queue[d], x) \in Seq(Transactions) /\ Len(Append(queue[d], x)) = Len(queue[d]) + 1
          /\ \A i \in 1..Len(queue[d]) : Append(queue[d], x)[i] = queue[d][i]
          /\ Append(queue[d], x)[Len(queue[d]) + 1] = x
      BY <2>1, AppendProperties
    <3>2. queue'[d] = Append(queue[d], x)
      BY <2>1, <2>2
    <3>3. PICK w : w = Append(queue[d], x)
      OBVIOUS
    <3>4. w \in Seq(Transactions) /\ Len(w) = l + 1 /\ w[l + 1] = x /\ \A i \in 1..l : w[i] = queue[d][i]
      BY <1>3, <3>1, <3>3
    <3>5. l + 1 \in Nat
      OBVIOUS
    <3> QED BY <3>2, <3>3, <3>4, <3>5
  <2>3. CASE n = 1 /\ queue' = queue
    BY <1>3, <2>1, <2>3
  <2> QED BY <1>8, <2>2, <2>3
<1>10. /\ queue' \in [Displays -> Seq(Transactions)] /\ sends' \in [Displays -> Seq(Kinds)]
       /\ lcdOp' \in [Displays -> Ops] /\ sends'[d] = v
       /\ lcdOp'[d] = (IF n > 1 THEN "queueing" ELSE "idle")
       /\ \A e \in Displays : e # d => queue'[e] = queue[e] /\ sends'[e] = sends[e] /\ lcdOp'[e] = lcdOp[e]
  <2>1. queue' \in [Displays -> Seq(Transactions)] /\ \A e \in Displays : e # d => queue'[e] = queue[e]
    BY <1>1, <1>8, <1>9 DEF LcdTypes
  <2> QED BY <1>1, <1>8, <2>1 DEF LcdTypes, Ops
<1>11. user' \in [Slots -> Users] /\ user'[t] = d /\ \A r \in Slots : r # t => user'[r] = user[r]
  BY <1>1, <1>6, <1>8 DEF LcdTypes, Users
<1>12. LcdTypes' /\ OneFlies'
  <2>1. spiGuard' \in Displays \cup {NoDisplay}
    BY <1>8
  <2> QED BY <1>1, <1>10, <1>11, <2>1 DEF LcdTypes, Patient, OneFlies, Flies
<1>13. ASSUME NEW e \in Displays PROVE Local(e)' /\ Guarded(e)' /\ ReadAlone(e)' /\ Lined(e)'
  <2>1. CASE e # d
    <3>1. Local(e)'
      BY <1>1, <1>10, <2>1, LocalKept DEF Patient
    <3>2. lcdOp[e] \notin {"polling", "queueing", "waiting", "reading"}
      BY <1>1, <2>1, GuardExcludes
    <3>3. \A i \in 1..Len(queue[e]) : queue[e][i].slot \notin Slots
      BY <1>1, <2>1 DEF Patient, Lined, Owned
    <3>4. Lined(e)'
      BY <1>10, <2>1, <3>2, <3>3 DEF Lined, Owned, Queueing
    <3> QED BY <1>10, <2>1, <3>1, <3>2, <3>4 DEF Guarded, ReadAlone
  <2>2. CASE e = d
    <3>1. ASSUME NEW i \in 1..m
          PROVE  /\ (c + i) - 1 \in Slots /\ dc[d][(c + i) - 1] = u[i].kind
                 /\ cs_post[d][(c + i) - 1] = "high"
      <4>1. CASE i \in 1..l
        <5>1. u[i] = queue[d][i]
          BY <1>9, <4>1
        <5>2. /\ (c + i) - 1 \in Slots /\ dc[d][(c + i) - 1] = queue[d][i].kind
              /\ cs_post[d][(c + i) - 1] = "high"
          BY <1>1, <1>3, <4>1 DEF Patient, Local, Aligned
        <5> QED BY <5>1, <5>2
      <4>2. CASE i = l + 1 /\ u[i] = x
        <5>1. t = c + l /\ i = l + 1
          BY <1>6, <4>2
        <5>3. (c + i) - 1 = t
          BY <5>1
        <5> QED BY <1>6, <1>7, <4>2, <5>3
      <4> QED BY <1>3, <1>9, <4>1, <4>2
    <3>2. Aligned(d)'
      BY <1>1, <1>3, <1>9, <3>1 DEF Aligned
    <3>3. ~(d \in selected /\ ~Flies(d))
      BY <1>1 DEF Patient, Local, Chosen
    <3>4. Flight(d)'
      <4>1. Flies(d) => 1 \in 1..l /\ queue[d] # <<>>
        <5>1. queue[d] # <<>> => 1 \in 1..l
          BY <1>1, <1>3, EmptySeq, LenProperties DEF LcdTypes
        <5> QED BY <5>1 DEF Patient, Local, Flight
      <4>2. Flies(d) => u[1] = queue[d][1] /\ m # 0
        BY <1>3, <1>9, <4>1
      <4>3. Flies(d) => u # <<>>
        BY <1>9, <4>2, EmptySeq
      <4> QED BY <1>1, <1>9, <4>2, <4>3 DEF Patient, Local, Flight, Flies
    <3>5. Chosen(d)' /\ Living(d)' /\ Program(d)' /\ Guarded(d)' /\ ReadAlone(d)'
      BY <1>1, <1>8, <1>10, <3>3 DEF Chosen, Flies, Living, Program, Guarded, ReadAlone
    <3>6. Owned(d)'
      <4> SUFFICES ASSUME NEW i \in 1..m, u[i].slot \in Slots PROVE user'[u[i].slot] = d
        BY <1>1, <1>9 DEF Owned
      <4>1. CASE i \in 1..l
        <5>1. u[i] = queue[d][i]
          BY <1>9, <4>1
        <5>2. user[u[i].slot] = d
          BY <1>3, <4>1, <5>1 DEF Patient, Lined, Owned
        <5>3. PICK r \in Slots : r = u[i].slot
          OBVIOUS
        <5> QED BY <1>11, <5>2, <5>3
      <4>2. CASE i = l + 1 /\ u[i] = x
        <5>1. PICK r \in Slots : r = u[i].slot
          OBVIOUS
        <5>2. r = t
          BY <1>7, <4>2, <5>1
        <5>3. user'[r] = d
          BY <1>11, <5>2
        <5> QED BY <5>1, <5>3
      <4>3. i \in 1..l \/ (i = l + 1 /\ m = l + 1)
        BY <1>3, <1>9
      <4>4. i \in 1..l \/ (i = l + 1 /\ u[i] = x)
        BY <1>9, <4>3
      <4> QED BY <4>1, <4>2, <4>4
    <3>7. Queueing(d)'
      <4> SUFFICES ASSUME n > 1
                   PROVE  /\ n - 1 \in 1..6 /\ (c + m) + (n - 1) = 6
                          /\ \A j \in 1..(n - 1) :
                               /\ ((6 - (n - 1)) + j) - 1 \in Slots
                               /\ dc[d][((6 - (n - 1)) + j) - 1] = v[j]
                               /\ cs_post[d][((6 - (n - 1)) + j) - 1] = "high"
        <5>1. Len(sends'[d]) = n - 1 /\ Len(queue'[d]) = m
          BY <1>5, <1>9, <1>10
        <5> QED BY <1>1, <1>3, <1>10, <5>1 DEF Queueing
      <4>0. m = l + 1
        BY <1>9
      <4>1. n - 1 \in 1..6 /\ m = l + 1 /\ (c + m) + (n - 1) = 6
        BY <1>sum, <4>0
      <4>2. ASSUME NEW j \in 1..(n - 1)
            PROVE  /\ ((6 - (n - 1)) + j) - 1 \in Slots
                   /\ dc[d][((6 - (n - 1)) + j) - 1] = v[j]
                   /\ cs_post[d][((6 - (n - 1)) + j) - 1] = "high"
        <5>1. j + 1 \in 1..n /\ ((6 - (n - 1)) + j) - 1 = ((6 - n) + (j + 1)) - 1
          BY <1>2
        <5> QED BY <1>4, <1>5, <5>1
      <4> QED BY <4>1, <4>2
    <3> QED BY <2>2, <3>2, <3>4, <3>5, <3>6, <3>7 DEF Local, Lined
  <2> QED BY <2>1, <2>2
<1> QED BY <1>12, <1>13 DEF Patient

LEMMA WaitForLinesKeeps ==
    ASSUME Patient, NEW d \in Displays, WaitForLines(d)
    PROVE  Patient'
<1>1. /\ LcdTypes /\ lcdOp[d] = "idle" /\ spiGuard = NoDisplay /\ displayLife[d] = "ready"
      /\ lcdOp' = [lcdOp EXCEPT ![d] = "waiting"] /\ spiGuard' = d
      /\ UNCHANGED <<filled, user, displayLife, sends, current_transaction, dc, cs_post, queue, flying,
                     finished, dc_pin, selected, crashed>>
  BY DEF Patient, WaitForLines, pinVars, lineVars, driverVars
<1>2. lcdOp'[d] = "waiting" /\ \A e \in Displays : e # d => lcdOp'[e] = lcdOp[e]
  BY <1>1 DEF LcdTypes
<1>3. LcdTypes' /\ OneFlies'
  BY <1>1 DEF LcdTypes, Ops, Users, Patient, OneFlies, Flies
<1>4. ASSUME NEW e \in Displays PROVE Local(e)' /\ Guarded(e)' /\ ReadAlone(e)' /\ Lined(e)'
  <2>1. CASE e # d
    <3>1. Local(e)'
      BY <1>1, <1>2, <2>1, LocalKept DEF Patient
    <3>2. lcdOp[e] \notin {"polling", "queueing", "waiting", "reading"}
      BY <1>1, GuardIsNobody, GuardExcludes
    <3>3. Lined(e)'
      BY <1>1, <1>2, <2>1, LinedKept DEF Patient
    <3> QED BY <1>2, <2>1, <3>1, <3>2, <3>3 DEF Guarded, ReadAlone
  <2>2. CASE e = d
    <3>1. Aligned(d)'
      BY <1>1, <1>2 DEF Patient, Local, Aligned
    <3>2. Flight(d)' /\ Chosen(d)'
      BY <1>1, <1>2 DEF Patient, Local, Flight, Flies, Chosen
    <3>3. Living(d)' /\ Program(d)' /\ Guarded(d)' /\ ReadAlone(d)'
      BY <1>1, <1>2 DEF Living, Program, Guarded, ReadAlone
    <3>4. Lined(d)'
      BY <1>1, <1>2 DEF Patient, Lined, Owned, Queueing
    <3> QED BY <2>2, <3>1, <3>2, <3>3, <3>4 DEF Local
  <2> QED BY <2>1, <2>2
<1> QED BY <1>3, <1>4 DEF Patient

\* The ends of a wait and of a read: all transactions of a read are done.
LEMMA FetchKeeps ==
    ASSUME Patient, NEW d \in Displays, LinesFinished(d) \/ ReadFinished(d)
    PROVE  Patient'
<1>1. PICK n \in {2, 6} :
         /\ LcdTypes /\ lcdOp[d] = (IF n = 6 THEN "waiting" ELSE "reading") /\ spiGuard = d
         /\ finished[d] >= n \/ queue[d] = <<>>
         /\ finished' = [finished EXCEPT ![d] = Fetched(d, n)]
         /\ lcdOp' = [lcdOp EXCEPT ![d] = "idle"] /\ spiGuard' = NoDisplay
         /\ UNCHANGED <<filled, user, displayLife, sends, current_transaction, dc, cs_post, queue, flying,
                        dc_pin, selected, crashed>>
  <2>1. CASE LinesFinished(d)
    BY <2>1 DEF LinesFinished, Patient, Guarded, pinVars, lineVars
  <2>2. CASE ReadFinished(d)
    BY <2>2 DEF ReadFinished, Patient, Guarded, pinVars, lineVars
  <2> QED BY <2>1, <2>2
<1>2. Fetched(d, n) \in Nat /\ finished[d] \in Nat
  BY <1>1 DEF Fetched, LcdTypes
<1>3. /\ lcdOp'[d] = "idle" /\ \A e \in Displays : e # d => lcdOp'[e] = lcdOp[e]
      /\ finished' \in [Displays -> Nat]
  BY <1>1, <1>2 DEF LcdTypes
<1>4. LcdTypes' /\ OneFlies'
  BY <1>1, <1>3 DEF LcdTypes, Ops, Users, Patient, OneFlies, Flies
<1>5. lcdOp[d] = "reading" => queue[d] = <<>>
  <2> SUFFICES ASSUME lcdOp[d] = "reading", finished[d] >= 2 PROVE queue[d] = <<>>
    BY <1>1
  <2>1. PICK l \in Nat : l = Len(queue[d])
    BY <1>1, LenProperties DEF LcdTypes
  <2>2. l + finished[d] = 2
    BY <2>1 DEF Patient, ReadAlone
  <2>3. l = 0
    BY <1>2, <2>2
  <2> QED BY <1>1, <2>1, <2>3, EmptySeq DEF LcdTypes
<1>6. ASSUME NEW e \in Displays PROVE Local(e)' /\ Guarded(e)' /\ ReadAlone(e)' /\ Lined(e)'
  <2>1. CASE e # d
    <3>1. Local(e)'
      BY <1>1, <1>3, <2>1, LocalKept DEF Patient
    <3>2. lcdOp[e] \notin {"polling", "queueing", "waiting", "reading"}
      BY <1>1, <2>1, GuardExcludes
    <3>3. Lined(e)'
      BY <1>1, <1>3, <2>1, LinedKept DEF Patient
    <3> QED BY <1>3, <2>1, <3>1, <3>2, <3>3 DEF Guarded, ReadAlone
  <2>2. CASE e = d
    <3>1. Aligned(d)'
      <4>1. CASE queue[d] = <<>>
        BY <4>1, <1>1 DEF Aligned
      <4>2. CASE lcdOp[d] # "reading"
        BY <4>2, <1>1 DEF Patient, Local, Aligned
      <4> QED BY <4>1, <4>2, <1>5
    <3>2. Flight(d)' /\ Chosen(d)'
      <4>1. lcdOp[d] = "reading" => Len(queue[d]) # 1
        BY <1>5
      <4> QED BY <4>1, <1>1 DEF Patient, Local, Flight, Flies, Chosen
    <3>3. Living(d)' /\ Program(d)' /\ Guarded(d)' /\ ReadAlone(d)'
      BY <1>1, <1>3 DEF Patient, Local, Living, Program, Guarded, ReadAlone
    <3>4. Lined(d)'
      BY <1>1, <1>3 DEF Patient, Lined, Owned, Queueing
    <3> QED BY <2>2, <3>1, <3>2, <3>3, <3>4 DEF Local
  <2> QED BY <2>1, <2>2
<1> QED BY <1>4, <1>6 DEF Patient

LEMMA ReadKeeps ==
    ASSUME Patient, refused \in Nat, NEW d \in Displays, Read(d), Orderly'
    PROVE  Patient'
<1>1. /\ LcdTypes /\ lcdOp[d] = "idle" /\ displayLife[d] = "ready"
      /\ ~(finished[d] > 0) /\ \A e \in Displays : queue[e] = <<>>
      /\ spiGuard = NoDisplay /\ spiGuard' = d /\ lcdOp' = [lcdOp EXCEPT ![d] = "reading"]
      /\ queue' = [queue EXCEPT ![d] = queue[d] \o ReadPair]
      /\ PreparePins(d, <<"cmd", "data">>, <<"low", "high">>)
      /\ UNCHANGED <<filled, user, displayLife, sends, flying, finished, dc_pin, selected, crashed>>
  <2>1. queue' = [queue EXCEPT ![d] = queue[d] \o ReadPair]
    BY DEF Read, Orderly, LcdInv
  <2> QED BY <2>1 DEF Patient, Read, Start, Busy, OthersWait, Orderly, lineVars
<1>2. PICK k \in Seq(Kinds) : k = <<"cmd", "data">> /\ Len(k) = 2 /\ k \in [1..2 -> Kinds]
  <2>1. "cmd" \in Kinds /\ "data" \in Kinds
    BY DEF Kinds
  <2>2. <<"cmd", "data">> \in Seq(Kinds) /\ Len(<<"cmd", "data">>) = 2
    BY <2>1
  <2>3. <<"cmd", "data">> \in [1..2 -> Kinds]
    BY <2>1
  <2> QED BY <2>2, <2>3
<1>3. PICK u \in Seq(Transactions) :
         /\ u = ReadPair /\ Len(u) = 2 /\ <<>> \o u = u
         /\ \A i \in 1..2 : u[i].kind = k[i] /\ u[i].polled = FALSE /\ u[i].slot = 6
  <2>1. PICK x \in Transactions, y \in Transactions :
           /\ ReadPair = <<x, y>>
           /\ x.kind = "cmd" /\ x.polled = FALSE /\ x.slot = 6
           /\ y.kind = "data" /\ y.polled = FALSE /\ y.slot = 6
    <3>1. "cmd" \in Kinds /\ "data" \in Kinds /\ Stack = 6 /\ 6 \in 0..6
      BY DEF Kinds, Stack, line_transaction_length
    <3>2. PICK x : x = [kind |-> "cmd", polled |-> FALSE, slot |-> 6]
      OBVIOUS
    <3>3. PICK y : y = [kind |-> "data", polled |-> FALSE, slot |-> 6]
      OBVIOUS
    <3>4. /\ x \in [kind : Kinds, polled : BOOLEAN, slot : 0..6]
          /\ x.kind = "cmd" /\ x.polled = FALSE /\ x.slot = 6
      BY <3>1, <3>2
    <3>5. /\ y \in [kind : Kinds, polled : BOOLEAN, slot : 0..6]
          /\ y.kind = "data" /\ y.polled = FALSE /\ y.slot = 6
      BY <3>1, <3>3
    <3>6. ReadPair = <<x, y>>
      BY <3>1, <3>2, <3>3 DEF ReadPair, Transaction
    <3> QED BY <3>4, <3>5, <3>6 DEF Transactions
  <2>2. <<x, y>> \in Seq(Transactions) /\ Len(<<x, y>>) = 2
    OBVIOUS
  <2>3. <<>> \o <<x, y>> = <<x, y>>
    BY <2>2, ConcatEmptySeq
  <2>4. k[1] = "cmd" /\ k[2] = "data"
    BY <1>2
  <2>5. PICK w : w = <<x, y>>
    OBVIOUS
  <2>6. w[1] = x /\ w[2] = y
    BY <2>5
  <2>7. \A i \in 1..2 : i = 1 \/ i = 2
    OBVIOUS
  <2>8. \A i \in 1..2 : w[i].kind = k[i] /\ w[i].polled = FALSE /\ w[i].slot = 6
    BY <2>1, <2>4, <2>6, <2>7
  <2> QED BY <2>1, <2>2, <2>3, <2>5, <2>8
<1>4. /\ queue' \in [Displays -> Seq(Transactions)] /\ queue'[d] = u
      /\ \A e \in Displays : e # d => queue'[e] = queue[e] /\ queue'[e] = <<>>
  <2>1. queue' = [queue EXCEPT ![d] = u]
    BY <1>1, <1>3
  <2>2. queue \in [Displays -> Seq(Transactions)]
    BY <1>1 DEF LcdTypes
  <2> QED BY <1>1, <2>1, <2>2
<1>5. PICK post \in [1..2 -> {"low", "high"}] : post = <<"low", "high">> /\ post[2] = "high"
  <2>1. <<"low", "high">> \in [1..2 -> {"low", "high"}] /\ <<"low", "high">>[2] = "high"
    OBVIOUS
  <2> QED BY <2>1
<1>6. /\ dc' \in [Displays -> [Slots -> Kinds]]
      /\ cs_post' \in [Displays -> [Slots -> {"low", "high"}]]
      /\ current_transaction' \in [Displays -> Nat]
      /\ current_transaction'[d] = 0
      /\ \A i \in 1..2 : i - 1 \in Slots /\ dc'[d][i - 1] = k[i] /\ cs_post'[d][i - 1] = post[i]
      /\ \A e \in Displays : e # d => /\ dc'[e] = dc[e] /\ cs_post'[e] = cs_post[e]
                                      /\ current_transaction'[e] = current_transaction[e]
  <2>1. PreparePins(d, k, post) /\ 2 \in 1..6
    BY <1>1, <1>2, <1>5
  <2> QED BY <1>1, <1>2, <2>1, PinsPrepared
<1>7. lcdOp'[d] = "reading" /\ \A e \in Displays : e # d => lcdOp'[e] = lcdOp[e]
  BY <1>1 DEF LcdTypes
<1>8. LcdTypes' /\ OneFlies'
  BY <1>1, <1>4, <1>6 DEF LcdTypes, Ops, Users, Patient, OneFlies, Flies
<1>9. ASSUME NEW e \in Displays PROVE Local(e)' /\ Guarded(e)' /\ ReadAlone(e)' /\ Lined(e)'
  <2>1. CASE e # d
    <3>1. Local(e)'
      BY <1>1, <1>4, <1>6, <1>7, <2>1, LocalKept DEF Patient
    <3>2. lcdOp[e] \notin {"polling", "queueing", "waiting", "reading"}
      BY <1>1, GuardIsNobody, GuardExcludes
    <3>3. Lined(e)'
      BY <1>1, <1>4, <1>6, <1>7, <2>1, LinedKept DEF Patient
    <3> QED BY <1>7, <2>1, <3>1, <3>2, <3>3 DEF Guarded, ReadAlone
  <2>2. CASE e = d
    <3>1. d \notin selected /\ ~Flies(d)
      BY <1>1 DEF Patient, Local, Flight, Flies, Chosen
    <3>2. Aligned(d)'
      <4> SUFFICES ASSUME NEW i \in 1..2
                   PROVE  /\ (0 + i) - 1 \in Slots /\ dc'[d][(0 + i) - 1] = u[i].kind
                          /\ cs_post'[d][(0 + i) - 1] = "high" \/ i = 1
        <5>1. Len(queue'[d]) = 2 /\ queue'[d] = u /\ current_transaction'[d] = 0
          BY <1>3, <1>4, <1>6
        <5> QED BY <1>7, <5>1 DEF Aligned
      <4>1. (0 + i) - 1 = i - 1 /\ (i = 1 \/ i = 2)
        OBVIOUS
      <4> QED BY <4>1, <1>3, <1>5, <1>6
    <3>3. Flight(d)' /\ Chosen(d)'
      BY <1>1, <3>1 DEF Flight, Flies, Chosen
    <3>4. Living(d)' /\ Program(d)' /\ Guarded(d)'
      BY <1>1, <1>7 DEF Living, Program, Guarded
    <3>5. ReadAlone(d)'
      <4>1. finished[d] \in Nat /\ finished'[d] = finished[d]
        BY <1>1 DEF LcdTypes
      <4>2. finished[d] = 0
        BY <1>1, <4>1
      <4>3. Len(queue'[d]) + finished'[d] = 2
        BY <1>3, <1>4, <4>1, <4>2
      <4>4. \A i \in 1..Len(queue'[d]) : queue'[d][i].polled = FALSE
        BY <1>3, <1>4
      <4> QED BY <4>3, <4>4, <1>4 DEF ReadAlone
    <3>6. Lined(d)'
      <4>1. ASSUME NEW i \in 1..Len(queue'[d]) PROVE queue'[d][i].slot \notin Slots
        <5>0. Len(queue'[d]) = 2 /\ 6 \notin 0..5
          BY <1>3, <1>4
        <5>1. i \in 1..2 /\ 6 \notin 0..5
          BY <5>0
        <5>2. queue'[d][i] = u[i] /\ u[i].slot = 6
          BY <1>3, <1>4, <5>1
        <5> QED BY <5>1, <5>2, SixSlots
      <4> QED BY <1>7, <4>1 DEF Lined, Owned, Queueing
    <3> QED BY <2>2, <3>2, <3>3, <3>4, <3>5, <3>6 DEF Local
  <2> QED BY <2>1, <2>2
<1> QED BY <1>8, <1>9 DEF Patient

-----------------------------------------------------------------------------
(* The callbacks of the driver.                                              *)

LEMMA PreTransmissionKeeps ==
    ASSUME Patient, NEW d \in Displays, PreTransmission(d)
    PROVE  Patient'
<1>1. /\ LcdTypes /\ queue[d] # <<>> /\ displayLife[d] = "ready"
      /\ \A e \in Displays : ~Flies(e)
      /\ UNCHANGED <<filled, user, spiGuard, displayLife, lcdOp, sends, current_transaction, dc, cs_post,
                     queue, finished>>
  BY DEF Patient, Local, Living, PreTransmission, Flies, pinVars, lineVars
<1>2. 1 \in 1..Len(queue[d]) /\ current_transaction[d] \in Nat
  BY <1>1, LenProperties, EmptySeq DEF LcdTypes
<1>3. (current_transaction[d] + 1) - 1 = current_transaction[d]
  BY <1>2
<1>4. current_transaction[d] \in Slots /\ dc[d][current_transaction[d]] = queue[d][1].kind
  BY <1>2, <1>3 DEF Patient, Local, Aligned
<1>5. UserOf(d) = d /\ SenderOf(d) = d /\ Callable(d)
  <2>1. Head(queue[d]) = queue[d][1]
    BY <1>1, HeadTailProperties DEF LcdTypes
  <2>2. queue[d][1].slot \in Slots => filled = d /\ user[queue[d][1].slot] = d
    BY <1>2 DEF Patient, Lined, Owned
  <2> QED BY <1>1, <1>4, <2>1, <2>2 DEF UserOf, SenderOf, Callable
<1>6. /\ dc_pin' = [dc_pin EXCEPT ![d] = queue[d][1].kind]
      /\ selected' = selected \cup {d} /\ flying' = [flying EXCEPT ![d] = d]
      /\ crashed' = crashed
  BY <1>4, <1>5, GuardIsNobody DEF PreTransmission
<1>7. queue[d][1].kind \in Kinds
  BY <1>1, <1>4 DEF LcdTypes
<1>8. /\ dc_pin' \in [Displays -> Kinds] /\ dc_pin'[d] = queue[d][1].kind
      /\ \A e \in Displays : e # d => dc_pin'[e] = dc_pin[e] /\ flying'[e] = flying[e]
      /\ flying'[d] = d /\ flying' \in [Displays -> Users]
  BY <1>1, <1>6, <1>7 DEF LcdTypes, Users
<1>9. LcdTypes'
  BY <1>1, <1>6, <1>8 DEF LcdTypes
<1>10. OneFlies'
  BY <1>1, <1>8 DEF OneFlies, Flies
<1>11. ASSUME NEW e \in Displays PROVE Local(e)' /\ Guarded(e)' /\ ReadAlone(e)' /\ Lined(e)'
  <2>1. Guarded(e)' /\ ReadAlone(e)'
    BY <1>1 DEF Patient, Guarded, ReadAlone
  <2>4. Lined(e)'
    BY <1>1, LinedKept DEF Patient
  <2>2. CASE e # d
    <3>1. Local(e)'
      BY <1>1, <1>6, <1>8, <2>2, LocalKept DEF Patient
    <3> QED BY <2>1, <2>4, <3>1
  <2>3. CASE e = d
    <3>1. Aligned(d)' /\ Living(d)' /\ Program(d)'
      BY <1>1 DEF Patient, Local, Aligned, Living, Program
    <3>2. /\ flying'[d] = d /\ d \in selected' /\ queue'[d] # <<>> /\ d # NoDisplay
          /\ dc_pin'[d] = queue'[d][1].kind
      BY <1>1, <1>6, <1>8, GuardIsNobody
    <3>3. Flight(d)' /\ Chosen(d)'
      BY <3>2 DEF Flight, Flies, Chosen
    <3> QED BY <3>3, <2>1, <2>3, <2>4, <3>1, <3>2 DEF Local
  <2> QED BY <2>2, <2>3
<1> QED BY <1>9, <1>10, <1>11 DEF Patient

LEMMA PostTransmissionKeeps ==
    ASSUME Patient, NEW d \in Displays, PostTransmission(d)
    PROVE  Patient'
<1>1. /\ LcdTypes /\ Flies(d) /\ queue[d] # <<>> /\ displayLife[d] = "ready"
      /\ lcdOp[d] \notin {"send", "transmit"}
      /\ flying' = [flying EXCEPT ![d] = NoDisplay]
      /\ finished' = [finished EXCEPT ![d] = IF Head(queue[d]).polled THEN finished[d] ELSE finished[d] + 1]
      /\ queue' = [queue EXCEPT ![d] = Tail(queue[d])]
      /\ UNCHANGED <<filled, user, spiGuard, displayLife, lcdOp, sends, dc, cs_post, dc_pin>>
  BY DEF Patient, Local, Living, Flight, Flies, Program, PostTransmission, lineVars
<1>2. PICK c \in Nat : c = current_transaction[d]
  BY <1>1 DEF LcdTypes
<1>3. PICK l \in Nat : l = Len(queue[d]) /\ l > 0
  BY <1>1, LenProperties, EmptySeq DEF LcdTypes
<1>4. PICK u \in Seq(Transactions) :
         u = Tail(queue[d]) /\ Len(u) = l - 1 /\ \A i \in 1..(l - 1) : u[i] = queue[d][i + 1]
  <2>1. queue[d] \in Seq(Transactions)
    BY <1>1 DEF LcdTypes
  <2>2. /\ Tail(queue[d]) \in Seq(Transactions) /\ Len(Tail(queue[d])) = Len(queue[d]) - 1
        /\ \A i \in 1..Len(Tail(queue[d])) : Tail(queue[d])[i] = queue[d][i + 1]
    BY <1>1, <2>1, HeadTailProperties
  <2> QED BY <1>3, <2>2
<1>5. Head(queue[d]) = queue[d][1]
  BY <1>1, HeadTailProperties DEF LcdTypes
<1>6. \A i \in 1..l : /\ (c + i) - 1 \in Slots /\ dc[d][(c + i) - 1] = queue[d][i].kind
                      /\ cs_post[d][(c + i) - 1] = "high" \/ (lcdOp[d] = "reading" /\ l = 2 /\ i = 1)
  BY <1>2, <1>3 DEF Patient, Local, Aligned
<1>7. 1 \in 1..l /\ (c + 1) - 1 = c
  BY <1>3
<1>8. c \in Slots /\ (cs_post[d][c] = "high" \/ (lcdOp[d] = "reading" /\ l = 2))
  BY <1>6, <1>7
<1>9. /\ selected' = (IF cs_post[d][c] = "high" THEN selected \ {d} ELSE selected)
      /\ current_transaction' = [current_transaction EXCEPT ![d] = current_transaction[d] + 1]
      /\ crashed' = crashed
  <2>1. queue[d][1].slot \in Slots => user[queue[d][1].slot] = d
    BY <1>3, <1>7 DEF Patient, Lined, Owned
  <2>2. UserOf(d) = d /\ Callable(d) /\ d # NoDisplay
    BY <1>1, <1>2, <1>5, <1>8, <2>1, GuardIsNobody DEF UserOf, Callable
  <2> QED BY <1>2, <2>2 DEF PostTransmission
<1>10. PICK f \in Nat : f = (IF Head(queue[d]).polled THEN finished[d] ELSE finished[d] + 1)
  BY <1>1 DEF LcdTypes
<1>11. finished' = [finished EXCEPT ![d] = f]
  BY <1>1, <1>10
<1>12. /\ flying'[d] = NoDisplay /\ current_transaction'[d] = c + 1 /\ finished'[d] = f /\ queue'[d] = u
       /\ \A e \in Displays : e # d =>
            /\ flying'[e] = flying[e] /\ current_transaction'[e] = current_transaction[e]
            /\ finished'[e] = finished[e] /\ queue'[e] = queue[e]
       /\ flying' \in [Displays -> Users] /\ current_transaction' \in [Displays -> Nat]
       /\ finished' \in [Displays -> Nat] /\ queue' \in [Displays -> Seq(Transactions)]
  <2>1. c + 1 \in Nat
    OBVIOUS
  <2>2. current_transaction' = [current_transaction EXCEPT ![d] = c + 1]
    BY <1>2, <1>9
  <2>3. /\ current_transaction'[d] = c + 1 /\ current_transaction' \in [Displays -> Nat]
        /\ \A e \in Displays : e # d => current_transaction'[e] = current_transaction[e]
    BY <2>1, <2>2, <1>1 DEF LcdTypes
  <2>4. /\ flying'[d] = NoDisplay /\ flying' \in [Displays -> Users]
        /\ \A e \in Displays : e # d => flying'[e] = flying[e]
    BY <1>1 DEF LcdTypes, Users
  <2>5. /\ finished'[d] = f /\ finished' \in [Displays -> Nat]
        /\ \A e \in Displays : e # d => finished'[e] = finished[e]
    BY <1>1, <1>11 DEF LcdTypes
  <2>6. /\ queue'[d] = u /\ queue' \in [Displays -> Seq(Transactions)]
        /\ \A e \in Displays : e # d => queue'[e] = queue[e]
    BY <1>1, <1>4 DEF LcdTypes
  <2> QED BY <2>3, <2>4, <2>5, <2>6
<1>13. LcdTypes' /\ OneFlies'
  <2>1. selected' \subseteq Displays
    BY <1>1, <1>9 DEF LcdTypes
  <2>2. LcdTypes'
    BY <1>1, <1>9, <1>12, <2>1 DEF LcdTypes
  <2>3. OneFlies'
    BY <1>12 DEF Patient, OneFlies, Flies
  <2> QED BY <2>2, <2>3
<1>14. ASSUME NEW e \in Displays PROVE Local(e)' /\ Guarded(e)' /\ ReadAlone(e)' /\ Lined(e)'
  <2>1. Guarded(e)'
    BY <1>1 DEF Patient, Guarded
  <2>2. CASE e # d
    <3>1. Local(e)'
      BY <1>1, <1>9, <1>12, <2>2, LocalKept DEF Patient
    <3>2. lcdOp[e] # "reading"
      BY <1>1, <2>2 DEF Patient, ReadAlone
    <3>3. ReadAlone(e)'
      BY <1>1, <3>2 DEF ReadAlone
    <3>4. Lined(e)'
      BY <1>1, <1>12, <2>2, LinedKept DEF Patient
    <3> QED BY <2>1, <3>1, <3>3, <3>4
  <2>3. CASE e = d
    <3>1. Aligned(d)'
      <4> SUFFICES ASSUME NEW i \in 1..(l - 1)
                   PROVE  /\ ((c + 1) + i) - 1 \in Slots /\ dc[d][((c + 1) + i) - 1] = u[i].kind
                          /\ cs_post[d][((c + 1) + i) - 1] = "high"
        <5>1. Len(queue'[d]) = l - 1
          BY <1>4, <1>12
        <5>2. queue'[d] = u /\ current_transaction'[d] = c + 1 /\ dc' = dc /\ cs_post' = cs_post
          BY <1>1, <1>12
        <5> QED BY <5>1, <5>2 DEF Aligned
      <4>1. i + 1 \in 1..l /\ i + 1 # 1 /\ ((c + 1) + i) - 1 = (c + (i + 1)) - 1
        BY <1>3
      <4> QED BY <4>1, <1>4, <1>6
    <3>2. Living(d)' /\ Flight(d)' /\ Program(d)'
      BY <1>1, <1>12 DEF Patient, Local, Living, Flight, Flies, Program
    <3>3. Chosen(d)'
      <4> SUFFICES ASSUME d \in selected' PROVE lcdOp[d] = "reading" /\ Len(u) = 1
        BY <1>1, <1>12 DEF Chosen, Flies
      <4>1. lcdOp[d] = "reading" /\ l = 2
        BY <1>8, <1>9
      <4> QED BY <4>1, <1>4
    <3>4. ReadAlone(d)'
      <4> SUFFICES ASSUME lcdOp[d] = "reading"
                   PROVE  /\ (l - 1) + f = 2 /\ \A i \in 1..(l - 1) : u[i].polled = FALSE
                          /\ \A x \in Displays : x # d => queue[x] = <<>>
        <5>1. /\ Len(queue'[d]) = l - 1 /\ queue'[d] = u /\ finished'[d] = f /\ lcdOp' = lcdOp
              /\ \A x \in Displays : x # d => queue'[x] = queue[x]
          BY <1>1, <1>4, <1>12
        <5> QED BY <5>1 DEF ReadAlone
      <4>1. /\ l + finished[d] = 2 /\ \A i \in 1..l : queue[d][i].polled = FALSE
            /\ \A x \in Displays : x # d => queue[x] = <<>>
        BY <1>3 DEF Patient, ReadAlone
      <4>2. f = finished[d] + 1 /\ finished[d] \in Nat
        BY <4>1, <1>1, <1>5, <1>7, <1>10 DEF LcdTypes
      <4>3. (l - 1) + f = 2
        BY <4>1, <4>2
      <4>4. ASSUME NEW i \in 1..(l - 1) PROVE u[i].polled = FALSE
        <5>1. i + 1 \in 1..l
          BY <1>3
        <5> QED BY <5>1, <4>1, <1>4
      <4> QED BY <4>1, <4>3, <4>4
    <3>5. Owned(d)'
      <4> SUFFICES ASSUME NEW i \in 1..(l - 1), u[i].slot \in Slots
                   PROVE  filled = d /\ user[u[i].slot] = d
        BY <1>1, <1>4, <1>12 DEF Owned
      <4>1. i + 1 \in 1..l /\ u[i] = queue[d][i + 1]
        BY <1>3, <1>4
      <4> QED BY <1>3, <4>1 DEF Patient, Lined, Owned
    <3>6. Queueing(d)'
      <4> SUFFICES ASSUME lcdOp[d] = "queueing"
                   PROVE  ((c + 1) + (l - 1)) + Len(sends[d]) = 6
        <5>1. /\ lcdOp' = lcdOp /\ filled' = filled /\ sends' = sends /\ dc' = dc /\ cs_post' = cs_post
              /\ current_transaction'[d] = c + 1 /\ Len(queue'[d]) = l - 1
          BY <1>1, <1>4, <1>12
        <5>2. Queueing(d)
          BY DEF Patient, Lined
        <5> QED BY <5>1, <5>2 DEF Queueing
      <4>1. (c + l) + Len(sends[d]) = 6
        BY <1>2, <1>3 DEF Patient, Lined, Queueing
      <4>2. (c + 1) + (l - 1) = c + l
        OBVIOUS
      <4> QED BY <4>1, <4>2
    <3> QED BY <2>1, <2>3, <3>1, <3>2, <3>3, <3>4, <3>5, <3>6 DEF Local, Lined
  <2> QED BY <2>2, <2>3
<1> QED BY <1>13, <1>14 DEF Patient

-----------------------------------------------------------------------------
(* The count of users.                                                       *)

LEMMA BusCountKept ==
    ASSUME BusCounted, NEW d \in Displays, Initialize(d) \/ Destruct(d)
    PROVE  BusCounted'
<1>1. IsFiniteSet(Ready) /\ Ready \subseteq Displays
  BY FewDisplays, FS_Subset DEF Ready
<1>2. Cardinality(Ready) \in Nat /\ Cardinality(Ready) <= Cardinality(Displays)
      /\ Cardinality(Displays) \in Nat
  BY <1>1, FewDisplays, FS_Subset, FS_CardinalityType
<1>3. CASE Initialize(d)
  <2>1. /\ displayLife' = [displayLife EXCEPT ![d] = "ready"] /\ displayLife[d] = "new"
        /\ bus' = "initialized" /\ initialized_count' = (initialized_count + 1) % 256
    BY <1>3 DEF Initialize
  <2>2. Ready' = Ready \cup {d} /\ d \notin Ready
    BY <2>1 DEF Ready, BusCounted
  <2>3. Cardinality(Ready') = Cardinality(Ready) + 1 /\ IsFiniteSet(Ready')
    BY <1>1, <2>2, FS_AddElement
  <2>4. Cardinality(Ready') <= Cardinality(Displays)
    BY <2>3, FewDisplays, FS_Subset DEF Ready
  <2>5. initialized_count' = Cardinality(Ready') /\ initialized_count' # 0
    <3>1. PICK n \in Nat : n = Cardinality(Ready) /\ n + 1 < 256
      BY <1>2, <2>3, <2>4, FewDisplays
    <3>2. (n + 1) % 256 = n + 1
      BY <3>1
    <3> QED BY <3>1, <3>2, <2>1, <2>3 DEF BusCounted
  <2>6. displayLife' \in [Displays -> {"new", "ready", "removed"}]
    BY <2>1 DEF BusCounted
  <2> QED BY <2>1, <2>5, <2>6 DEF BusCounted
<1>4. CASE Destruct(d)
  <2>1. /\ displayLife' = [displayLife EXCEPT ![d] = "removed"] /\ displayLife[d] = "ready"
        /\ bus' = (IF initialized_count = 1 THEN "free" ELSE bus)
        /\ initialized_count' = initialized_count - 1
    BY <1>4 DEF Destruct
  <2>2. Ready' = Ready \ {d} /\ d \in Ready
    BY <2>1 DEF Ready, BusCounted
  <2>3. Cardinality(Ready') = Cardinality(Ready) - 1
    BY <1>1, <2>2, FS_RemoveElement
  <2>4. Ready # {}
    BY <2>2
  <2>5. PICK n \in Nat : n = Cardinality(Ready) /\ n # 0
    BY <1>1, <1>2, <2>4, FS_EmptySet
  <2>6. displayLife' \in [Displays -> {"new", "ready", "removed"}]
    BY <2>1 DEF BusCounted
  <2>7. initialized_count = n /\ initialized_count' = n - 1 /\ bus = "initialized"
    BY <2>1, <2>5 DEF BusCounted
  <2>8. bus' = IF n - 1 = 0 THEN "free" ELSE "initialized"
    BY <2>1, <2>5, <2>7
  <2> QED BY <2>3, <2>5, <2>6, <2>7, <2>8 DEF BusCounted
<1> QED BY <1>3, <1>4

-----------------------------------------------------------------------------

LEMMA LcdStart == LcdInit => LcdInv
<1> SUFFICES ASSUME LcdInit PROVE LcdInv
  OBVIOUS
<1>1. Ready = {} /\ displayLife \in [Displays -> {"new", "ready", "removed"}]
  BY DEF LcdInit, Ready
<1>2. Cardinality({}) = 0
  BY FS_EmptySet
<1>3. BusCounted
  BY <1>1, <1>2 DEF LcdInit, BusCounted
<1>4. <<>> \in Seq(Kinds) /\ <<>> \in Seq(Transactions) /\ "cmd" \in Kinds
  BY EmptySeq DEF Kinds
<1>5. LcdTypes
  <2>1. /\ dc \in [Displays -> [Slots -> Kinds]]
        /\ cs_post \in [Displays -> [Slots -> {"low", "high"}]]
    BY <1>4 DEF LcdInit
  <2>2. sends \in [Displays -> Seq(Kinds)] /\ queue \in [Displays -> Seq(Transactions)]
    BY <1>4 DEF LcdInit
  <2> QED BY <1>1, <1>4, <2>1, <2>2 DEF LcdInit, LcdTypes, Users, Ops
<1>6. OneFlies
  BY DEF LcdInit, OneFlies, Flies
<1>7. ASSUME NEW d \in Displays PROVE Local(d) /\ Guarded(d) /\ ReadAlone(d) /\ Lined(d)
  <2>1. /\ queue[d] = <<>> /\ Len(queue[d]) = 0 /\ lcdOp[d] = "idle" /\ ~Flies(d)
        /\ selected = {}
    BY DEF LcdInit, Flies
  <2> QED BY <2>1 DEF Local, Aligned, Living, Flight, Flies, Program, Chosen, Guarded, ReadAlone,
               Lined, Owned, Queueing
<1> QED BY <1>3, <1>5, <1>6, <1>7 DEF LcdInit, LcdInv, Patient

LEMMA LcdStep ==
    ASSUME LcdInv, [LcdNext]_lcdVars
    PROVE  LcdInv'
<1>1. CASE UNCHANGED lcdVars
  <2>1. UNCHANGED <<initialized_count, bus, spiGuard, displayLife, lcdOp, sends,
                    current_transaction, dc, cs_post, queue, flying, finished, dc_pin,
                    selected, crashed, filled, user, impatient, interleaved, refused>>
    BY <1>1 DEF lcdVars, masterVars, pinVars, lineVars, driverVars, pastVars
  <2>2. BusCounted'
    BY <2>1 DEF LcdInv, BusCounted, Ready
  <2>3. ASSUME Patient PROVE Patient'
    <3>1. LcdTypes' /\ OneFlies'
      BY <2>1, <2>3 DEF Patient, LcdTypes, OneFlies, Flies
    <3>2. ASSUME NEW d \in Displays PROVE Local(d)' /\ Guarded(d)' /\ ReadAlone(d)' /\ Lined(d)'
      <4>1. Local(d)'
        BY <2>1, <2>3, LocalKept DEF Patient
      <4>2. Lined(d)'
        BY <2>1, <2>3, LinedKept DEF Patient
      <4> QED BY <4>1, <4>2, <2>1, <2>3 DEF Patient, Guarded, ReadAlone
    <3> QED BY <3>1, <3>2 DEF Patient
  <2> QED BY <2>1, <2>2, <2>3 DEF LcdInv, Orderly
<1>2. CASE LcdNext
  <2>1. PICK d \in Displays :
           \/ Initialize(d) \/ Destruct(d)
           \/ Send(d) \/ SendLines(d) \/ WaitForLines(d) \/ Read(d)
           \/ Task(d) \/ Driver(d)
    BY <1>2 DEF LcdNext
  <2>2. BusCounted'
    <3>1. CASE Initialize(d) \/ Destruct(d)
      BY <3>1, BusCountKept DEF LcdInv
    <3>2. CASE ~(Initialize(d) \/ Destruct(d))
      <4>1. UNCHANGED <<initialized_count, bus, displayLife>>
        BY <2>1, <3>2 DEF Send, SendLines, WaitForLines, Read, Task, Driver, Prepare, Transmit,
           Transmitted, QueueLine, LinesFinished, ReadFinished, PreTransmission, PostTransmission, masterVars
      <4> QED BY <4>1 DEF LcdInv, BusCounted, Ready
    <3> QED BY <3>1, <3>2
  <2>4. /\ (impatient => impatient') /\ (interleaved => interleaved')
        /\ refused' \in Nat /\ refused' >= refused
    <3>1. refused \in Nat
      BY DEF LcdInv
    <3>2. impatient => impatient'
      BY <2>1 DEF Initialize, Destruct, Send, SendLines, Start, WaitForLines, Read, Task, Driver,
         Prepare, Transmit, Transmitted, QueueLine, LinesFinished, ReadFinished, PreTransmission,
         PostTransmission, pastVars
    <3>3. interleaved => interleaved'
      BY <2>1 DEF Initialize, Destruct, Send, SendLines, WaitForLines, Read, Task, Driver, Prepare,
         Transmit, Transmitted, QueueLine, LinesFinished, ReadFinished, PreTransmission,
         PostTransmission, pastVars
    <3>4. refused' = refused \/ refused' = refused + 1
      BY <2>1 DEF Initialize, Destruct, Send, SendLines, WaitForLines, Read, Task, Driver, Prepare,
         Transmit, Transmitted, QueueLine, LinesFinished, ReadFinished, PreTransmission,
         PostTransmission, pastVars
    <3> QED BY <3>1, <3>2, <3>3, <3>4
  <2>3. ASSUME Orderly' PROVE Patient'
    <3>1. refused \in Nat /\ Orderly
      <4>1. refused \in Nat
        BY DEF LcdInv
      <4>2. refused = 0
        BY <2>3, <2>4, <4>1 DEF Orderly
      <4> QED BY <2>3, <2>4, <4>1, <4>2 DEF Orderly
    <3>2. Patient
      BY <3>1 DEF LcdInv
    <3> QED BY <2>1, <2>3, <3>1, <3>2, QueueLineKeeps, InitializeKeeps, DestructKeeps, SendKeeps, SendLinesKeeps,
               WaitForLinesKeeps, ReadKeeps, PrepareKeeps, TransmitKeeps, TransmittedKeeps,
               FetchKeeps, PreTransmissionKeeps, PostTransmissionKeeps DEF Task, Driver
  <2> QED BY <2>2, <2>3, <2>4 DEF LcdInv
<1> QED BY <1>1, <1>2

\* At most one display is selected: a transaction is on the bus alone, and a
\* read has the bus to itself.
LEMMA SelectedAlone ==
    ASSUME Patient
    PROVE  /\ Cardinality(selected) <= 1
           /\ \A x, y \in selected : x = y
<1>1. ASSUME NEW x \in selected, NEW y \in selected PROVE x = y
  <2>1. x \in Displays /\ y \in Displays
    BY DEF Patient, LcdTypes
  <2>2. \A d \in Displays : lcdOp[d] = "reading" => spiGuard = d
    BY DEF Patient, Guarded
  <2>3. \A d \in {x, y} : Flies(d) \/ lcdOp[d] = "reading"
    BY <2>1 DEF Patient, Local, Chosen
  <2>4. \A d \in {x, y} : queue[d] # <<>>
    <3>1. ASSUME NEW d \in {x, y} PROVE queue[d] # <<>>
      <4>1. d \in Displays /\ d \in selected
        BY <2>1
      <4>2. Flies(d) \/ Len(queue[d]) = 1
        BY <4>1 DEF Patient, Local, Chosen
      <4>3. CASE Flies(d)
        BY <4>1, <4>3 DEF Patient, Local, Flight
      <4>4. CASE Len(queue[d]) = 1
        <5>1. queue[d] \in Seq(Transactions)
          BY <4>1 DEF Patient, LcdTypes
        <5>2. queue[d] = <<>> => Len(queue[d]) = 0
          BY <5>1, EmptySeq
        <5> QED BY <4>4, <5>2
      <4> QED BY <4>2, <4>3, <4>4
    <3> QED BY <3>1
  <2>5. CASE Flies(x) /\ Flies(y)
    BY <2>1, <2>5 DEF Patient, OneFlies
  <2>6. CASE lcdOp[x] = "reading"
    BY <2>1, <2>4, <2>6 DEF Patient, ReadAlone
  <2>7. CASE lcdOp[y] = "reading"
    BY <2>1, <2>4, <2>7 DEF Patient, ReadAlone
  <2> QED BY <2>3, <2>5, <2>6, <2>7
<1>2. CASE selected = {}
  BY <1>2, FS_EmptySet
<1>3. CASE selected # {}
  <2>1. PICK x : x \in selected
    BY <1>3
  <2>2. selected = {x}
    BY <1>1, <2>1
  <2>3. Cardinality({x}) = 1
    BY FS_Singleton
  <2> QED BY <2>2, <2>3
<1> QED BY <1>1, <1>2, <1>3

\* Though the array of send_lines() is one for all displays: the callbacks of the
\* driver select the display whose bytes are sent and no other one, with the D/C
\* pin for them, as long as the displays take turns with lines and reads, each
\* task waits for what it has queued, and the driver queues it; GuardSeparates-
\* Displays shows that the guard alone is not enough.  A display that is ready
\* has a bus in any case.
THEOREM BusIsSharedByDisplays == LcdSpec => []DisplaysShareBus
<1>1. LcdInit => LcdInv
  BY LcdStart
<1>2. LcdInv /\ [LcdNext]_lcdVars => LcdInv'
  BY LcdStep
<1>3. LcdInv => DisplaysShareBus
  <2> SUFFICES ASSUME LcdInv PROVE DisplaysShareBus
    OBVIOUS
  <2>1. BusOutlivesDisplays
    <3> SUFFICES ASSUME NEW d \in Displays, displayLife[d] = "ready" PROVE bus = "initialized"
      BY DEF BusOutlivesDisplays
    <3>1. IsFiniteSet(Ready) /\ Ready # {}
      BY FewDisplays, FS_Subset DEF Ready
    <3>2. Cardinality(Ready) # 0
      BY <3>1, FS_EmptySet
    <3> QED BY <3>2 DEF LcdInv, BusCounted
  <2>2. PinsMatchTransaction
    <3> SUFFICES ASSUME Patient PROVE SentAsMeant
      BY DEF LcdInv, PinsMatchTransaction
    <3>1. ~crashed
      BY DEF Patient, LcdTypes
    <3>2. ASSUME NEW d \in Displays, flying[d] # NoDisplay
          PROVE  flying[d] = d /\ selected = {d} /\ dc_pin[d] = Head(queue[d]).kind
      <4>1. /\ queue[d] # <<>> /\ dc_pin[d] = queue[d][1].kind /\ flying[d] = d /\ d \in selected
        BY <3>2 DEF Patient, Local, Flight, Flies
      <4>2. Head(queue[d]) = queue[d][1]
        BY <4>1, HeadTailProperties DEF Patient, LcdTypes
      <4>3. selected = {d}
        BY <4>1, SelectedAlone
      <4> QED BY <4>1, <4>2, <4>3
    <3> QED BY <3>1, <3>2 DEF SentAsMeant
  <2>3. OneSelected
    BY SelectedAlone DEF LcdInv, OneSelected
  <2> QED BY <2>1, <2>2, <2>3 DEF DisplaysShareBus
<1> QED BY <1>1, <1>2, <1>3, PTL DEF LcdSpec
=============================================================================
