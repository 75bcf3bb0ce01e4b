------------------------------- MODULE ADS1115 -------------------------------
(***************************************************************************)
(* The analog converter (application/io/i2c/ADS1115.cpp).  Its object      *)
(* keeps the last configuration that was accepted; set_mux() and           *)
(* trigger_single_read() derive the next one from it.  configure() is four *)
(* transactions, the second of which reads back what the first has         *)
(* written; the first that fails ends it.                                  *)
(***************************************************************************)
EXTENDS Integers, Sequences

CONSTANTS
    Configs,          \* the arguments of configure(): [mux, rate, comp]
    Muxes, Thresholds,
    MaxCalls          \* bound: calls

VARIABLES
    chip,             \* the registers config, low and high
    object,           \* current_config, current_low_thresh_hold, current_high_thresh_hold
    task,             \* the call of configure() in progress, or what it returned
    log               \* history: the call, its number, the last configuration that was
                      \* accepted and whether a single read was triggered since

vars == <<chip, object, task, log>>

\* start is bit 15, which starts a conversion and which the chip changes itself.
Power == [mux |-> 0, rate |-> 4, comp |-> 0, start |-> TRUE]
Nothing == [mux |-> 0, rate |-> 0, comp |-> 0, start |-> FALSE]
Unset == -1

Init ==
    /\ chip = [config |-> Power, low |-> 8000, high |-> 7999]
    /\ object = [config |-> Nothing, low |-> Unset, high |-> Unset]
    /\ task = [at |-> "returned", ok |-> FALSE]
    /\ log = [calls |-> 0, call |-> [kind |-> "none"], base |-> object, triggered |-> FALSE]

-----------------------------------------------------------------------------

\* The private configure() is entered.
Begin(config, low, high, call) ==
    /\ task.at = "returned" /\ log.calls < MaxCalls
    /\ task' = [at |-> "config", config |-> config, low |-> low, high |-> high]
    /\ log' = [log EXCEPT !.calls = @ + 1, !.call = call]
    /\ UNCHANGED <<chip, object>>

\* The public one puts the bits together, with bit 15 clear.
Configure(c, low, high) ==
    Begin([c EXCEPT !.start = FALSE], low, high,
          [kind |-> "configure", config |-> c, low |-> low, high |-> high])

\* (current_config & 0x0FFF) | (mux << 12)
MuxConfig(mux) == [object.config EXCEPT !.start = FALSE, !.mux = mux]

SetMux(mux) == Begin(MuxConfig(mux), object.low, object.high, [kind |-> "mux", mux |-> mux])

\* The low threshold is passed twice.
TriggerSingleRead ==
    Begin([object.config EXCEPT !.start = TRUE], object.low, object.low, [kind |-> "trigger"])

Fails == task' = [at |-> "returned", ok |-> FALSE]
Goes(to) == task' = [task EXCEPT !.at = to]

\* A write arrives or not; one that fails may have arrived.
WriteConfig ==
    /\ task.at = "config"
    /\ \/ chip' = [chip EXCEPT !.config = task.config] /\ (Goes("readback") \/ Fails)
       \/ UNCHANGED chip /\ Fails
    /\ UNCHANGED <<object, log>>

\* Bit 15 is left out of the comparison.
SameConfig(a, b) == [a EXCEPT !.start = FALSE] = [b EXCEPT !.start = FALSE]

Readback ==
    /\ task.at = "readback"
    /\ IF SameConfig(chip.config, task.config) THEN Goes("low") \/ Fails ELSE Fails
    /\ UNCHANGED <<chip, object, log>>

WriteLow ==
    /\ task.at = "low"
    /\ \/ chip' = [chip EXCEPT !.low = task.low] /\ (Goes("high") \/ Fails)
       \/ UNCHANGED chip /\ Fails
    /\ UNCHANGED <<object, log>>

Accepted ==
    LET c == log.call IN
    log' = CASE c.kind = "configure" -> [log EXCEPT !.base = c, !.triggered = FALSE]
             [] c.kind = "mux" -> [log EXCEPT !.base.config.mux = c.mux]
             [] c.kind = "trigger" -> [log EXCEPT !.triggered = TRUE]

Remember == object' = [config |-> task.config, low |-> task.low, high |-> task.high]

\* The last write and the assignments after it.
WriteHigh ==
    /\ task.at = "high"
    /\ \/ /\ chip' = [chip EXCEPT !.high = task.high]
          /\ task' = [at |-> "returned", ok |-> TRUE] /\ Accepted /\ Remember
       \/ chip' \in {chip, [chip EXCEPT !.high = task.high]} /\ Fails /\ UNCHANGED <<log, object>>

\* The chip ends a conversion.
Convert ==
    /\ chip.config.start
    /\ chip' = [chip EXCEPT !.config.start = FALSE]
    /\ UNCHANGED <<object, task, log>>

\* The caller configures the chip first: until then the thresholds of the object
\* are uninitialised.
Next ==
    \/ \E c \in Configs, low, high \in Thresholds : Configure(c, low, high)
    \/ object.low # Unset /\ ((\E mux \in Muxes : SetMux(mux)) \/ TriggerSingleRead)
    \/ WriteConfig \/ Readback \/ WriteLow \/ WriteHigh \/ Convert

Spec == Init /\ [][Next]_vars

-----------------------------------------------------------------------------

\* After a call that reports success the chip has the configuration that the
\* successful calls have asked for, input by input and threshold by threshold:
\* nothing of a call that failed half-way comes back with a later one.  The high
\* threshold is the exception: trigger_single_read() puts the low one in its place.
ConfigurationAsAsked ==
    (task.at = "returned" /\ task.ok) =>
        /\ SameConfig(chip.config, log.base.config)
        /\ chip.low = log.base.low
        /\ chip.high = log.base.high \/ (log.triggered /\ chip.high = log.base.low)
=============================================================================
