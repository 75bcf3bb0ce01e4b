------------------------------ MODULE PCF8563 ------------------------------
(***************************************************************************)
(* The real time clock (application/io/i2c/PCF8563.cpp).  The chip counts  *)
(* in BCD and flags with the highest bit of the seconds that it has lost   *)
(* power; its control register holds the alarm flag, which is cleared by   *)
(* reading the register and writing it back.                               *)
(*                                                                         *)
(* The chip is followed up to midnight: the driver numbers the months from *)
(* 0, the chip from 1, and what the chip makes of the last day of a month  *)
(* is not what the driver means by it.                                     *)
(***************************************************************************)
EXTENDS Integers, Sequences

CONSTANTS
    Times, Alarms,    \* the arguments of set_rtc_time() and set_alarm_time()
    MaxCalls,         \* bound: calls and losses of power
    MaxTicks          \* bound: seconds that pass

VARIABLES
    chip,             \* time: the seven bytes; lost: the flag; alarm; control
    task,             \* the call in progress and what it has read
    log               \* history: the time as it should be, what get_rtc_time() returned

vars == <<chip, task, log>>

Idle == [at |-> "idle"]
Flags == {"AF", "TF"}
Enables == {"AIE", "TIE"}
NoTime == [ok |-> FALSE]

Init ==
    /\ \E enabled \in SUBSET Enables :
           /\ chip = [time |-> <<0, 0, 0, 1, 0, 1, 0>>, lost |-> TRUE, alarm |-> <<>>, control |-> enabled]
           /\ log = [want |-> NoTime, got |-> NoTime, enabled |-> enabled, garbage |-> FALSE,
                     calls |-> 0, ticks |-> 0]
    /\ task = Idle

-----------------------------------------------------------------------------
(* Values.                                                                 *)

BcdToDecimal(bcd) == 10 * (bcd \div 16) + (bcd % 16)
DecimalToBcd(n) == (n \div 10) * 16 + (n % 10)

NumberOfDaysInMonth(month, year) ==
    IF month \in {3, 5, 8, 10} THEN 30
    ELSE IF month = 1
         THEN IF (year % 4 = 0 /\ year % 100 # 0) \/ year % 400 = 0 THEN 29 ELSE 28
         ELSE 31

ValidateTime(n, low, high) == IF n \in low..high THEN n ELSE low
ValidateYear(y) == IF y \in 2000..2099 THEN y ELSE 2000

\* The validations of set_rtc_time(), the day last.
Validated(t) ==
    LET y == ValidateYear(t.years) IN
    [seconds |-> ValidateTime(t.seconds, 0, 59), minutes |-> ValidateTime(t.minutes, 0, 59),
     hours24 |-> ValidateTime(t.hours24, 0, 23), years |-> y,
     days |-> ValidateTime(t.days, 1, NumberOfDaysInMonth(t.months, y)),
     weekdays |-> t.weekdays, months |-> t.months]

Encoded(t) ==
    <<DecimalToBcd(t.seconds), DecimalToBcd(t.minutes), DecimalToBcd(t.hours24), DecimalToBcd(t.days),
      t.weekdays, DecimalToBcd(t.months), DecimalToBcd(t.years - 2000)>>

Decoded(b) ==
    [seconds |-> BcdToDecimal(b[1] % 128), minutes |-> BcdToDecimal(b[2] % 128),
     hours24 |-> BcdToDecimal(b[3] % 64), days |-> BcdToDecimal(b[4] % 64),
     weekdays |-> BcdToDecimal(b[5] % 8), months |-> BcdToDecimal(b[6] % 32),
     years |-> 2000 + BcdToDecimal(b[7])]

-----------------------------------------------------------------------------
(* The time.                                                               *)

Calls == log.calls < MaxCalls
Called(l) == [l EXCEPT !.calls = @ + 1]

\* One transaction; what of it arrives when it fails is nothing.
SetRtcTime(t) ==
    /\ task = Idle /\ Calls
    /\ \/ /\ chip' = [chip EXCEPT !.time = Encoded(Validated(t)), !.lost = FALSE]
          /\ log' = Called([log EXCEPT !.want = [ok |-> TRUE, time |-> Validated(t)]])
       \/ UNCHANGED chip /\ log' = Called(log)
    /\ UNCHANGED task

GetRtcTime ==
    /\ task = Idle
    /\ \/ /\ ~chip.lost
          /\ log' = [log EXCEPT !.got = [ok |-> TRUE, time |-> Decoded(chip.time), want |-> log.want]]
       \/ log' = [log EXCEPT !.got = NoTime]
    /\ UNCHANGED <<chip, task>>

\* The chip counts in BCD, here up to midnight.
Count(b) ==
    LET next(x) == IF x % 16 = 9 THEN x + 7 ELSE x + 1 IN
    IF b[1] # 89 THEN [b EXCEPT ![1] = next(@)]
    ELSE IF b[2] # 89 THEN [b EXCEPT ![1] = 0, ![2] = next(@)]
    ELSE [b EXCEPT ![1] = 0, ![2] = 0, ![3] = next(@)]

\* A second later.
Later(t) ==
    LET s == t.hours24 * 3600 + t.minutes * 60 + t.seconds + 1 IN
    [t EXCEPT !.seconds = s % 60, !.minutes = (s \div 60) % 60, !.hours24 = s \div 3600]

Midnight(b) == b[1] = 89 /\ b[2] = 89 /\ b[3] = 35

Tick ==
    /\ ~chip.lost /\ ~Midnight(chip.time) /\ log.ticks < MaxTicks
    /\ chip' = [chip EXCEPT !.time = Count(@)]
    /\ log' = [log EXCEPT !.want.time = Later(@), !.ticks = @ + 1]
    /\ UNCHANGED task

\* The chip was without power: its time is worth nothing.
LosePower ==
    /\ Calls
    /\ chip' = [chip EXCEPT !.lost = TRUE]
    /\ log' = Called([log EXCEPT !.want = NoTime])
    /\ UNCHANGED task

-----------------------------------------------------------------------------
(* The alarm.                                                              *)

\* set_alarm_time() reads the month and the year the alarm is validated against.
SetAlarmRead(a) ==
    /\ task = Idle /\ Calls
    /\ log' = Called(log)
    /\ \/ task' = [at |-> "alarm", alarm |-> a, month |-> BcdToDecimal(chip.time[6] % 32),
                   year |-> 2000 + BcdToDecimal(chip.time[7])]
       \/ UNCHANGED task
    /\ UNCHANGED chip

SetAlarmWrite ==
    /\ task.at = "alarm"
    /\ task' = Idle
    /\ \/ LET a == task.alarm
              day == ValidateTime(a.day, 1, NumberOfDaysInMonth(task.month, task.year))
          IN  chip' = [chip EXCEPT !.alarm =
                  <<DecimalToBcd(ValidateTime(a.minute, 0, 59)) + (IF a.on THEN 0 ELSE 128),
                    DecimalToBcd(ValidateTime(a.hour24, 0, 23)) + (IF a.on THEN 0 ELSE 128),
                    DecimalToBcd(day) + (IF a.on THEN 0 ELSE 128), a.weekday + (IF a.on THEN 0 ELSE 128)>>]
       \/ UNCHANGED chip
    /\ UNCHANGED log

\* The chip raises the flag of the alarm or of its timer.
Raise(f) ==
    /\ f \notin chip.control
    /\ chip' = [chip EXCEPT !.control = @ \cup {f}]
    /\ UNCHANGED <<task, log>>

\* clear_alarm_flag() reads; without an answer the buffer holds whatever it held.
ClearAlarmRead ==
    /\ task = Idle /\ Calls
    /\ \/ task' = [at |-> "clear", control |-> chip.control] /\ log' = Called(log)
       \/ \E garbage \in SUBSET (Flags \cup Enables) :
              /\ task' = [at |-> "clear", control |-> garbage]
              /\ log' = Called([log EXCEPT !.garbage = TRUE])
    /\ UNCHANGED chip

\* rd_data[0] & 0x17
KeptBits(control) == control \ {"AF"}

\* A flag is cleared by a 0 and not set by a 1.
ClearAlarmWrite ==
    /\ task.at = "clear"
    /\ task' = Idle
    /\ \/ LET w == KeptBits(task.control) IN
          chip' = [chip EXCEPT !.control = (@ \cap w \cap Flags) \cup (w \cap Enables)]
       \/ UNCHANGED chip
    /\ UNCHANGED log

Next ==
    \/ \E t \in Times : SetRtcTime(t)
    \/ GetRtcTime \/ Tick \/ LosePower
    \/ \E a \in Alarms : SetAlarmRead(a)
    \/ SetAlarmWrite \/ ClearAlarmRead \/ ClearAlarmWrite
    \/ \E f \in Flags : Raise(f)

Spec == Init /\ [][Next]_vars

-----------------------------------------------------------------------------

\* A time that get_rtc_time() returns is the one that was set, made legal, with
\* the seconds that have passed since; after a loss of power none is returned
\* until the time has been set again.
KeepsTheTime == log.got.ok => log.got.want.ok /\ log.got.time = log.got.want.time

\* Clearing the alarm flag leaves the interrupt enables as they are, unless the
\* read of the register has failed: its value is written back all the same.
EnablesKept == log.garbage \/ chip.control \cap Enables = log.enabled
=============================================================================
