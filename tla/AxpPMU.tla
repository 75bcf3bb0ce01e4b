------------------------------- MODULE AxpPMU -------------------------------
(***************************************************************************)
(* The power management unit (application/io/i2c/AxpPMU.cpp).  Its bits    *)
(* are changed by reading a register and writing it back, two transactions *)
(* on the bus between which another task may do the same; the write is     *)
(* made whether or not the read succeeded.  A register is the set of its   *)
(* bits that are 1.  The two transactions are taken in the order in which  *)
(* they are written; C++ leaves the order of the operands of & open.       *)
(***************************************************************************)
EXTENDS Integers, Sequences, TLC

CONSTANTS
    Users,            \* the tasks that use the chip
    Regs, Bits,       \* the registers that are changed and their bits
    Inputs,           \* what the converters measure: a level, and one for each pin
    MaxCalls,         \* bound: calls
    MaxFaults         \* bound: transactions that fail

VARIABLES
    chip,             \* the registers, the level of the converters and those of
                      \* the four pins
    task,             \* task[u]: the call in progress
    log               \* history: what the calls asked for, which registers were spoiled

vars == <<chip, task, log>>

Pins == 0..3
Idle == [kind |-> "idle"]
Blank == [value |-> {}, good |-> TRUE, crossed |-> FALSE]
Returned == Idle @@ Blank

Init ==
    /\ \E value \in SUBSET Bits, input \in Inputs :
           chip = [reg |-> [r \in Regs |-> value], level |-> input.level, gpio |-> input.gpio]
    /\ task = [u \in Users |-> Returned]
    /\ log = [want |-> chip.reg, spoiled |-> {}, calls |-> 0, faults |-> 0]

-----------------------------------------------------------------------------
(* Registers.                                                              *)

\* write_register_bit() and write_register_bits(): the bits in keep stay.
Changes == [kind : {"bits"}, reg : Regs, keep : SUBSET Bits, set : SUBSET Bits]
Calls ==
    {c \in Changes : c.keep \cap c.set = {}}
    \cup {[kind |-> "init", regs |-> s] : s \in {t \in [1..2 -> Regs] : t[1] # t[2]}}

\* Mutant of Merged: the complement of the mask is kept.
MergedInverted(c, value) == (value \ c.keep) \cup c.set
Merged(c, value) == (value \cap c.keep) \cup c.set

Call(u, c) ==
    /\ task[u].kind = "idle" /\ log.calls < MaxCalls
    /\ task' = [task EXCEPT ![u] = c @@ Blank]
    /\ log' = [log EXCEPT !.calls = @ + 1]
    /\ UNCHANGED chip

Fault == log.faults < MaxFaults

\* read_register(): without an answer the buffer holds whatever it held.
ReadRegister(u) ==
    /\ task[u].kind = "bits"
    /\ \/ /\ task' = [task EXCEPT ![u] = [@ EXCEPT !.kind = "write", !.value = chip.reg[task[u].reg]]]
          /\ UNCHANGED log
       \/ /\ Fault
          /\ \E garbage \in SUBSET Bits :
                 task' = [task EXCEPT ![u] = [@ EXCEPT !.kind = "write", !.value = garbage, !.good = FALSE]]
          /\ log' = [log EXCEPT !.faults = @ + 1]
    /\ UNCHANGED chip

\* The other calls on r that have read and not yet written.
Crossed(u, r) ==
    [v \in Users |-> IF v # u /\ task[v].kind = "write" /\ task[v].reg = r
                     THEN [task[v] EXCEPT !.crossed = TRUE] ELSE task[v]]

\* write_register() of a read register; a transaction that fails may have
\* reached the chip.
WriteRegister(u) ==
    LET c == task[u]
        taken == [chip EXCEPT !.reg[c.reg] = Merged(c, c.value)]
        asked == [log EXCEPT !.want[c.reg] = (@ \cap c.keep) \cup c.set,
                             !.spoiled = IF c.good /\ ~c.crossed THEN @ ELSE @ \cup {c.reg}]
    IN  /\ c.kind = "write"
        /\ \/ chip' = taken /\ log' = asked /\ task' = [Crossed(u, c.reg) EXCEPT ![u] = Returned]
           \/ Fault /\ chip' = taken /\ log' = [asked EXCEPT !.faults = @ + 1]
              /\ task' = [Crossed(u, c.reg) EXCEPT ![u] = Returned]
           \/ Fault /\ UNCHANGED chip /\ log' = [log EXCEPT !.faults = @ + 1]
              /\ task' = [task EXCEPT ![u] = Returned]

\* write_init_regs(): whole registers, up to the first failure.
WriteInitRegs(u) ==
    LET c == task[u] r == Head(c.regs) IN
    /\ c.kind = "init"
    /\ \/ /\ chip' = [chip EXCEPT !.reg[r] = Bits]
          /\ log' = [log EXCEPT !.want[r] = Bits, !.spoiled = @ \ {r}]
          /\ task' = [Crossed(u, r) EXCEPT ![u] =
                          IF Len(c.regs) = 1 THEN Returned ELSE [c EXCEPT !.regs = Tail(@)]]
       \/ /\ Fault /\ UNCHANGED chip
          /\ log' = [log EXCEPT !.faults = @ + 1]
          /\ task' = [task EXCEPT ![u] = Returned]

-----------------------------------------------------------------------------
(* The converters.                                                         *)

\* The getters: the factor in 10^-4 V, 10^-3 mA or 10^-1 C, the offset, and the
\* range that the comment of the function states.
Adc == [
    acin_voltage |-> [step |-> 17, from |-> 0, max |-> 69615],
    acin_current |-> [step |-> 625, from |-> 0, max |-> 2559400],
    vbus_voltage |-> [step |-> 17, from |-> 0, max |-> 69615],
    vbus_current |-> [step |-> 375, from |-> 0, max |-> 1535625],
    device_temperature |-> [step |-> 1, from |-> -1447, max |-> 2648],
    ts_voltage |-> [step |-> 8, from |-> 0, max |-> 32760],
    battery_voltage |-> [step |-> 11, from |-> 0, max |-> 45045],
    aps_voltage |-> [step |-> 14, from |-> 0, max |-> 57330]]

\* read_12_bits(): the high byte and the four bits of the low byte.
Read12Bits(high, low) == high * 16 + low

\* The chip keeps the lowest four bits of a level in the low byte.
StepCount(level) == Read12Bits(level \div 16, level % 16)

Getter(f, level) == Adc[f].from + StepCount(level) * Adc[f].step

\* get_gpio0_voltage() to get_gpio3_voltage(): the pin whose register they name.
GpioRegister(pin) == 0

\* calc_gpio_input_voltage(); upper is the bit of the pin in the input range
\* register.
GpioVoltage(pin, upper) == (IF upper THEN 7000 ELSE 0) + StepCount(chip.gpio[GpioRegister(pin)]) * 5

-----------------------------------------------------------------------------

Next ==
    \E u \in Users :
        \/ \E c \in Calls : Call(u, c)
        \/ ReadRegister(u) \/ WriteRegister(u) \/ WriteInitRegs(u)

Spec == Init /\ [][Next]_vars

-----------------------------------------------------------------------------

\* Every register holds what the calls on it asked for, bit by bit, unless a
\* call went on after its read had failed or two calls on the register crossed.
OnlyNamedBitsChange == \A r \in Regs \ log.spoiled : chip.reg[r] = log.want[r]

\* What a getter returns is within the range its comment states, and reaches
\* the end of that range at full scale of the converter.  Of a pin it is the
\* voltage at that pin, in either range; pins 1 to 3 are the exception, their
\* getters name the register of pin 0.
ReadingsInRange ==
    /\ \A f \in DOMAIN Adc :
           /\ Getter(f, chip.level) \in Adc[f].from..Adc[f].max
           /\ chip.level = 4095 => Getter(f, chip.level) + Adc[f].step > Adc[f].max
    /\ \A pin \in Pins, upper \in BOOLEAN :
           LET from == IF upper THEN 7000 ELSE 0 IN
           /\ GpioVoltage(pin, upper) \in from..(from + 20475)
           /\ chip.gpio[pin] = chip.gpio[0] => GpioVoltage(pin, upper) = from + chip.gpio[pin] * 5
=============================================================================
