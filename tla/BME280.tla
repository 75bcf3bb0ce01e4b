------------------------------- MODULE BME280 -------------------------------
(***************************************************************************)
(* The weather sensor (application/io/i2c/BME280.cpp and application/io/   *)
(* spi/BME280SPI.cpp over BME280Core.cpp), on either bus.  A task may      *)
(* configure it while another reads the configuration, in three            *)
(* transactions, or its measurements, for which the trimming parameters    *)
(* are read once, in two.  Over SPI the measurements arrive in a member of  *)
(* the driver and are copied from it when the bus is no longer guarded.    *)
(*                                                                         *)
(* The calibration registers hold symbols, their own addresses; the        *)
(* compensation formulas of the data sheet are not modelled.               *)
(***************************************************************************)
EXTENDS Integers, Sequences

CONSTANTS
    Users,            \* the tasks that use the sensor
    Settings,         \* the arguments of configure_sensor()
    Levels,           \* values of the 20 bit converter
    MaxCalls          \* bound: calls

VARIABLES
    chip,             \* the bytes of the three configuration registers, the converter
    object,           \* the bus; trimming_read, trimming, and rx, rx_measurement_data
    task,             \* task[u]: the call in progress
    log               \* history: the settings asked for, what the calls returned

vars == <<chip, object, task, log>>

NoMeasurement == [raced |-> TRUE]
Idle == [at |-> "idle", bytes |-> <<>>, torn |-> FALSE, level |-> 0]
Asleep == [mode |-> 0, humidity |-> 0, pressure |-> 0, temperature |-> 0, standby |-> 0, filter |-> 0, spi |-> 0]

Init ==
    /\ \E level \in Levels : chip = [hum |-> 0, meas |-> 0, config |-> 0, level |-> level]
    /\ \E bus \in {"i2c", "spi"} : object = [bus |-> bus, trimming_read |-> FALSE, trimming |-> <<>>, rx |-> <<>>]
    /\ task = [u \in Users |-> Idle]
    /\ log = [asked |-> Asleep, calls |-> 0, read |-> <<>>, measured |-> NoMeasurement]

-----------------------------------------------------------------------------
(* The registers.                                                          *)

\* get_configure_sensor_datagram()
Datagram(s) ==
    [hum |-> s.humidity, meas |-> s.temperature * 32 + s.pressure * 4 + s.mode,
     config |-> s.standby * 32 + s.filter * 4 + s.spi]

GetBits(byte, low, high) == (byte \div 2^low) % 2^(high - low + 1)

\* get_configuration_settings()
ConfigurationSettings(hum, meas, config) ==
    [humidity |-> GetBits(hum, 0, 2), mode |-> GetBits(meas, 0, 1),
     pressure |-> GetBits(meas, 2, 4), temperature |-> GetBits(meas, 5, 7),
     standby |-> GetBits(config, 5, 7), filter |-> GetBits(config, 2, 4), spi |-> config % 2]

\* The 32 bytes of calibration_data: 0x88..0x9F, 0xA1 and 0xE1..0xE7.  The SPI
\* driver skips the dummy byte of its transfers except at index 25, which for it
\* is 0xA0.
CalibrationData ==
    [i \in 0..31 |->
        IF i < 24 THEN 136 + i
        ELSE IF i = 24 THEN (IF object.bus = "i2c" THEN 161 ELSE 160)
        ELSE 225 + i - 25]

TrimmingWords == <<"T1", "T2", "T3", "P1", "P2", "P3", "P4", "P5", "P6", "P7", "P8", "P9">>
Parameters == {TrimmingWords[i] : i \in DOMAIN TrimmingWords} \cup {"H1", "H2", "H3", "H4", "H5", "H6"}

\* populate_trimming_registers(): the registers a parameter is made of, the high
\* one first.
Trimming(data) ==
    [p \in Parameters |->
        CASE p = "H1" -> <<data[24]>>
          [] p = "H2" -> <<data[26], data[25]>>
          [] p = "H3" -> <<data[27]>>
          [] p = "H4" -> <<data[28], <<data[29], "low">>>>
          [] p = "H5" -> <<data[30], <<data[29], "high">>>>
          [] p = "H6" -> <<data[31]>>
          [] OTHER -> LET i == CHOOSE j \in DOMAIN TrimmingWords : TrimmingWords[j] = p
                      IN  <<data[2 * i - 1], data[2 * i - 2]>>]

\* get_measurements() of the three registers of a 20 bit value, whose last four
\* bits are the upper half of the last register and masked as the lower.
RawValue(msb, lsb, xlsb) == msb * 4096 + lsb * 16 + (xlsb % 16)

-----------------------------------------------------------------------------
(* The calls.  A transaction that fails ends the call.                     *)

Begin(u, call) ==
    /\ task[u].at = "idle" /\ log.calls < MaxCalls
    /\ task' = [task EXCEPT ![u] = [Idle EXCEPT !.at = call]]
    /\ log' = [log EXCEPT !.calls = @ + 1]
    /\ UNCHANGED <<chip, object>>

End(u) == task' = [task EXCEPT ![u] = Idle]
Fails(u) == task[u].at \notin {"idle", "populate", "copy"} /\ End(u) /\ UNCHANGED <<chip, object, log>>

\* The reads of the configuration that are under way see two configurations.
Torn(u) ==
    [v \in Users |-> IF task[v].at = "read_configuration" /\ task[v].bytes # <<>>
                     THEN [task[v] EXCEPT !.torn = TRUE] ELSE task[v]]

\* One transaction writes the registers, over either bus: bit 7 of an address
\* only tells a write from a read on SPI.
Configured(u, s) ==
    /\ LET d == Datagram(s) IN chip' = [chip EXCEPT !.hum = d.hum, !.meas = d.meas, !.config = d.config]
    /\ task' = [Torn(u) EXCEPT ![u] = Idle]
    /\ log' = [log EXCEPT !.asked = s]
    /\ UNCHANGED object

Configure(u, s) == task[u].at = "configure" /\ Configured(u, s)
Reset(u) == task[u].at = "reset" /\ Configured(u, Asleep)

\* The third register has been read: the settings are returned.
ConfigurationRead(u, bytes) ==
    /\ End(u)
    /\ log' = [log EXCEPT !.read = IF task[u].torn THEN <<>>
                                 ELSE <<ConfigurationSettings(bytes[1], bytes[2], bytes[3]), log.asked>>]

ReadConfiguration(u) ==
    /\ task[u].at = "read_configuration"
    /\ LET read == Append(task[u].bytes, <<chip.hum, chip.meas, chip.config>>[Len(task[u].bytes) + 1]) IN
       IF Len(read) < 3
       THEN task' = [task EXCEPT ![u].bytes = read] /\ UNCHANGED log
       ELSE ConfigurationRead(u, read)
    /\ UNCHANGED <<chip, object>>

\* read_trimming_parameters(): the first read; trimming_read is assigned after
\* the second.
ReadTrimming(u) ==
    /\ task[u].at = "measure" /\ ~object.trimming_read
    /\ task' = [task EXCEPT ![u].at = "trimming"]
    /\ UNCHANGED <<chip, object, log>>

ReadTrimmingRest(u) ==
    /\ task[u].at = "trimming"
    /\ object' = [object EXCEPT !.trimming_read = TRUE]
    /\ task' = [task EXCEPT ![u].at = "populate"]
    /\ UNCHANGED <<chip, log>>

Populate(u) ==
    /\ task[u].at = "populate"
    /\ object' = [object EXCEPT !.trimming = Trimming(CalibrationData)]
    /\ task' = [task EXCEPT ![u].at = "measure"]
    /\ UNCHANGED <<chip, log>>

\* The chip converts, unless it sleeps.
Convert ==
    /\ chip.meas % 4 # 0
    /\ \E level \in Levels : chip' = [chip EXCEPT !.level = level]
    /\ UNCHANGED <<object, task, log>>

\* The three bytes of the converter, behind the dummy byte of SPI.
Bytes(l) == <<l \div 4096, (l \div 16) % 256, (l % 16) * 16>>

\* get_measurements(), with the parameters that are there; nothing tells a task
\* that another has not yet populated them.
Measured(u, bytes, level, torn) ==
    /\ log' = [log EXCEPT !.measured =
                  [raw |-> RawValue(bytes[1], bytes[2], bytes[3]), trimming |-> object.trimming,
                   level |-> level, raced |-> torn \/ \E v \in Users : task[v].at = "populate"]]
    /\ End(u)

\* read_measurements(): over SPI into the member, where another task's bytes
\* may still have to be copied.
ReadMeasurements(u) ==
    /\ task[u].at = "measure" /\ object.trimming_read
    /\ \/ /\ object.bus = "i2c"
          /\ Measured(u, Bytes(chip.level), chip.level, FALSE)
          /\ UNCHANGED object
       \/ /\ object.bus = "spi"
          /\ object' = [object EXCEPT !.rx = Bytes(chip.level)]
          /\ task' = [v \in Users |->
                         IF v = u THEN [task[v] EXCEPT !.at = "copy", !.level = chip.level]
                         ELSE [task[v] EXCEPT !.torn = @ \/ task[v].at = "copy"]]
          /\ UNCHANGED log
    /\ UNCHANGED chip

CopyByte(u) ==
    /\ task[u].at = "copy"
    /\ LET copied == Append(task[u].bytes, object.rx[Len(task[u].bytes) + 1]) IN
       IF Len(copied) < 3
       THEN task' = [task EXCEPT ![u].bytes = copied] /\ UNCHANGED log
       ELSE Measured(u, copied, task[u].level, task[u].torn)
    /\ UNCHANGED <<chip, object>>

Next ==
    \/ \E u \in Users :
        \/ \E call \in {"reset", "configure", "read_configuration", "measure"} : Begin(u, call)
        \/ Reset(u) \/ \E s \in Settings : Configure(u, s)
        \/ ReadConfiguration(u) \/ ReadTrimming(u) \/ ReadTrimmingRest(u) \/ Populate(u)
        \/ ReadMeasurements(u) \/ CopyByte(u) \/ Fails(u)
    \/ Convert

Spec == Init /\ [][Next]_vars

-----------------------------------------------------------------------------

\* The configuration that is read is the one that was written, setting by
\* setting, unless it was written while it was read.
ConfigurationReadBack == log.read # <<>> => log.read[1] = log.read[2]

\* The registers of the parameters, from the data sheet that the code quotes.
DataSheet ==
    [p \in Parameters |->
        CASE p = "H1" -> <<161>> [] p = "H2" -> <<226, 225>> [] p = "H3" -> <<227>>
          [] p = "H4" -> <<228, <<229, "low">>>> [] p = "H5" -> <<230, <<229, "high">>>> [] p = "H6" -> <<231>>
          [] OTHER -> LET i == CHOOSE j \in DOMAIN TrimmingWords : TrimmingWords[j] = p IN <<135 + 2 * i, 134 + 2 * i>>]

\* A measurement is computed from trimming parameters that were read, each from
\* its own registers, however the reads of them failed before, and from one value
\* of the converter, but for its last four bits, though it converts while the
\* bytes are copied.  There are two exceptions: H1 over SPI, which is taken from
\* 0xA0 though the code says 0xA1; and tasks that overlap, one before the other
\* has populated the parameters, or has copied its bytes.
MeasuresWithItsTrimming ==
    LET m == log.measured IN
    ~m.raced =>
        /\ m.level - m.raw \in 0..15
        /\ m.trimming # <<>>
        /\ \A p \in Parameters : m.trimming[p] = DataSheet[p] \/ (p = "H1" /\ object.bus = "spi")
=============================================================================
