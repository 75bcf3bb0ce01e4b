-------------------------- MODULE HumiditySensors --------------------------
(***************************************************************************)
(* The humidity and temperature sensors SHT30 and DHT12 (application/io/   *)
(* i2c).  A reading of the SHT30 is a command and, after a pause, the read *)
(* of what the command has prepared, in two transactions of the bus or, if *)
(* the sensor stretches the clock, in one; each of its words carries a     *)
(* CRC.  The five bytes of the DHT12 end in their sum.  The bus may fail   *)
(* and may flip bits.                                                      *)
(***************************************************************************)
EXTENDS Integers, Sequences

CONSTANTS
    Users,            \* the tasks that use the sensors
    Words,            \* the words of the SHT30: kind |-> the 16 bits
    Flips,            \* the sets of bits of a word that the bus flips
    DhtBytes,         \* the first four bytes of the DHT12
    MaxCalls          \* bound: calls of the tasks

VARIABLES
    chip,             \* prepared: what the SHT30 sends next; heater
    object,           \* use_clock_stretching
    task,             \* task[u]: the call in progress
    log               \* history: calls; got[u]: what the last call has returned

vars == <<chip, object, task, log>>

Idle == [at |-> "idle", crossed |-> FALSE]
Failed == [ok |-> FALSE]

Init ==
    /\ chip = [prepared |-> "nothing", heater |-> FALSE]
    /\ object = FALSE
    /\ task = [u \in Users |-> Idle]
    /\ log = [calls |-> 0, got |-> [u \in Users |-> Failed]]

-----------------------------------------------------------------------------
(* What the checksums tell.                                                *)

Xor(a, b) == [i \in DOMAIN a |-> (a[i] + b[i]) % 2]
Poly == <<0, 0, 1, 1, 0, 0, 0, 1>>
Ones8 == <<1, 1, 1, 1, 1, 1, 1, 1>>

\* One turn of the inner loop of calculate_crc().
CrcShift(crc) ==
    LET s == Append(Tail(crc), 0) IN IF crc[1] = 1 THEN Xor(Poly, s) ELSE s

CrcByte(crc, byte) ==
    LET turns[n \in 0..8] == IF n = 0 THEN Xor(crc, byte) ELSE CrcShift(turns[n - 1]) IN turns[8]

\* Mutant of CalculateCrc: the first byte is not in it.
CalculateCrcLastByte(bits) == CrcByte(Ones8, SubSeq(bits, 9, 16))

CalculateCrc(bits) == CrcByte(CrcByte(Ones8, SubSeq(bits, 1, 8)), SubSeq(bits, 9, 16))

ExecuteCrcChecking(raw) == CalculateCrc(raw) = SubSeq(raw, 17, 24)

Flipped(bits, flips) == [i \in DOMAIN bits |-> IF i \in flips THEN 1 - bits[i] ELSE bits[i]]

\* How the word of a kind can arrive.  The sensor adds the right CRC (external:
\* the data sheet's example is 0x92 for 0xBEEF, as in the comment of the code).
SensorCrc(bits) ==
    LET c[n \in 0..16] ==
            IF n = 0 THEN Ones8
            ELSE LET d == c[n - 1] s == Append(Tail(d), 0)
                 IN  IF d[1] # bits[n] THEN Xor(Poly, s) ELSE s
    IN  c[16]

Arrivals ==
    [k \in DOMAIN Words |->
        {[passes |-> ExecuteCrcChecking(Flipped(Words[k] \o SensorCrc(Words[k]), f)), intact |-> f = {}]
            : f \in Flips}]

IsChecksumValid(bytes) == bytes[5] = (bytes[1] + bytes[2] + bytes[3] + bytes[4]) % 256

DhtSum(bytes) == (bytes[1] + bytes[2] + bytes[3] + bytes[4]) % 256

\* The bus flips a bit of one of the five bytes, or none.
FlipBit(n, b) == IF (n \div 2^b) % 2 = 1 THEN n - 2^b ELSE n + 2^b

DhtArrivals ==
    LET sent == Append(DhtBytes, DhtSum(DhtBytes)) IN
    {[passes |-> IsChecksumValid(sent), intact |-> TRUE]}
    \cup {[passes |-> IsChecksumValid([sent EXCEPT ![i] = FlipBit(@, b)]), intact |-> FALSE]
            : i \in 1..5, b \in 0..7}

-----------------------------------------------------------------------------
(* The calls.                                                              *)

Begin(u, call) ==
    /\ task[u].at = "idle" /\ log.calls < MaxCalls
    /\ task' = [task EXCEPT ![u] = [Idle EXCEPT !.at = call]]
    /\ log' = [log EXCEPT !.calls = @ + 1, !.got[u] = Failed]
    /\ UNCHANGED <<chip, object>>

\* set_repeatability_mode()
SetMode(u, stretching) ==
    /\ task[u].at = "idle" /\ object # stretching
    /\ object' = stretching
    /\ UNCHANGED <<chip, task, log>>

\* The calls of others that wait between their command and their read.
Crossing(u) ==
    [v \in Users |-> IF v # u /\ task[v].at \in {"read_status", "read_measurement"}
                     THEN [task[v] EXCEPT !.crossed = TRUE] ELSE task[v]]

\* write_command() of a call that will read what the command prepares, and the
\* pause; a command that fails ends the call.
Command(u) ==
    /\ \/ task[u].at = "status"
       \/ task[u].at = "measure" /\ ~object
    /\ LET status == task[u].at = "status"
           then == IF status THEN "read_status" ELSE "read_measurement"
       IN  \/ /\ chip' = [chip EXCEPT !.prepared = IF status THEN "status" ELSE "measurement"]
              /\ task' = [Crossing(u) EXCEPT ![u].at = then]
           \/ UNCHANGED chip /\ task' = [task EXCEPT ![u] = Idle]
    /\ UNCHANGED <<object, log>>

\* clear_status(), soft_reset(), turn_heater_on(), turn_heater_off().
WriteCommand(u, heater) ==
    /\ task[u].at = "command"
    /\ \/ /\ chip' = [prepared |-> "nothing", heater |-> heater]
          /\ task' = [Crossing(u) EXCEPT ![u] = Idle]
       \/ UNCHANGED chip /\ task' = [task EXCEPT ![u] = Idle]
    /\ UNCHANGED <<object, log>>

Returns(u, asked, kind, intact) ==
    log' = [log EXCEPT !.got[u] = [ok |-> TRUE, asked |-> asked, kind |-> kind,
                                   intact |-> intact, crossed |-> task[u].crossed]]

\* execute_read_block() and the check of the status.
ReadStatus(u) ==
    /\ task[u].at = "read_status"
    /\ task' = [task EXCEPT ![u] = Idle]
    /\ \/ /\ chip.prepared # "nothing"
          /\ LET word == IF chip.prepared = "status" THEN "status" ELSE "temperature" IN
             \E a \in Arrivals[word] :
                 IF a.passes THEN Returns(u, "status", word, a.intact) ELSE UNCHANGED log
          /\ chip' = [chip EXCEPT !.prepared = "nothing"]
       \/ UNCHANGED <<chip, log>>
    /\ UNCHANGED object

BothPass(t, h) == t.passes /\ h.passes

\* Six bytes: two words, each with its check; after a command without a
\* measurement there are no six bytes to read.
Measured(u) ==
    \E t \in Arrivals["temperature"], h \in Arrivals["humidity"] :
        IF BothPass(t, h) THEN Returns(u, "measurement", "measurement", t.intact /\ h.intact)
                          ELSE UNCHANGED log

\* execute_read_block(), the second of two transactions.
ReadMeasurements(u) ==
    /\ task[u].at = "read_measurement"
    /\ task' = [task EXCEPT ![u] = Idle]
    /\ \/ chip.prepared = "measurement" /\ Measured(u) /\ chip' = [chip EXCEPT !.prepared = "nothing"]
       \/ UNCHANGED <<chip, log>>
    /\ UNCHANGED object

\* execute_read16(): the command and the six bytes in one transaction.
StretchedRead(u) ==
    /\ task[u].at = "measure" /\ object
    /\ task' = [Crossing(u) EXCEPT ![u] = Idle]
    /\ chip' = [chip EXCEPT !.prepared = "nothing"]
    /\ Measured(u) \/ UNCHANGED log
    /\ UNCHANGED object

\* DHT12::read_measurements(): the select, the read and the check.
ReadDht(u) ==
    /\ task[u].at = "dht"
    /\ task' = [task EXCEPT ![u] = Idle]
    /\ \/ \E a \in DhtArrivals : IF a.passes THEN Returns(u, "dht", "dht", a.intact) ELSE UNCHANGED log
       \/ UNCHANGED log
    /\ UNCHANGED <<chip, object>>

Next ==
    \E u \in Users :
        \/ \E call \in {"status", "measure", "command", "dht"} : Begin(u, call)
        \/ \E b \in BOOLEAN : SetMode(u, b) \/ WriteCommand(u, b)
        \/ Command(u) \/ ReadStatus(u) \/ ReadMeasurements(u) \/ StretchedRead(u) \/ ReadDht(u)

Spec == Init /\ [][Next]_vars

-----------------------------------------------------------------------------

\* What a call reports as a success are the bytes the sensor sent: no damage of
\* at most three bits of a word of the SHT30, or of one bit of the DHT12, passes.
NoDamagePasses == \A u \in Users : log.got[u].ok => log.got[u].intact

\* And it is what was asked for, also with two tasks at one sensor, unless a
\* command of the other came between the command of the call and its read.
AnswersTheQuestion ==
    \A u \in Users :
        LET g == log.got[u] IN (g.ok /\ ~g.crossed) => g.kind = g.asked
=============================================================================
