------------------------------ MODULE MCP23017 ------------------------------
(***************************************************************************)
(* The port expander (application/io/i2c/MCP23017.cpp).  Bit BANK of its   *)
(* register IOCON decides at which addresses its registers are, so that a  *)
(* driver that does not know BANK does not know what it writes to.  Every  *)
(* transaction may fail, and the caller then may try again.                *)
(***************************************************************************)
EXTENDS Naturals, Sequences

CONSTANTS
    MaxCalls,         \* bound: calls
    MaxFaults         \* bound: transactions that fail

VARIABLES
    chip,             \* the registers: a set of bits, or whose argument it holds
    task,             \* the call in progress: its name and the transactions it has left
    log               \* history: calls and faults; the registers as power-on left them

vars == <<chip, task, log>>

\* The registers at addresses 0, 1, 2 ... for BANK = 0, and by port for BANK = 1.
Bank0 == <<"IODIRA", "IODIRB", "IPOLA", "IPOLB", "GPINTENA", "GPINTENB", "DEFVALA", "DEFVALB",
           "INTCONA", "INTCONB", "IOCON", "IOCON", "GPPUA", "GPPUB", "INTFA", "INTFB",
           "INTCAPA", "INTCAPB", "GPIOA", "GPIOB", "OLATA", "OLATB">>
Bank1 == <<"IODIRA", "IPOLA", "GPINTENA", "DEFVALA", "INTCONA", "IOCON", "GPPUA", "INTFA",
           "INTCAPA", "GPIOA", "OLATA", "none", "none", "none", "none", "none",
           "IODIRB", "IPOLB", "GPINTENB", "DEFVALB", "INTCONB", "IOCON", "GPPUB">>
Names == {Bank0[i] : i \in DOMAIN Bank0}
Bits == {"GPINTENB", "IOCON"}

\* BANK is bit 7, MIRROR bit 6 and INTPOL bit 1 of IOCON.
At(address) == IF 7 \in chip["IOCON"] THEN Bank1[address + 1] ELSE Bank0[address + 1]

Idle == [call |-> "idle", todo |-> <<>>, data |-> {}]

Init ==
    /\ \E bank \in {{}, {7}}, int \in {{0}, {0, 7}} :
           chip = [n \in Names |-> CASE n = "IOCON" -> bank [] n = "GPINTENB" -> int [] OTHER -> "reset"]
    /\ task = Idle
    /\ log = [calls |-> 0, faults |-> 0, known |-> 7 \notin chip["IOCON"], int |-> chip["GPINTENB"],
              ok |-> FALSE, last |-> "idle"]

-----------------------------------------------------------------------------
(* The transactions of the calls: a read of one address, or a write from   *)
(* an address on; minus and plus change the byte that was read last.       *)

Get(a) == [do |-> "read", at |-> a]
Put(a, s) == [do |-> "write", at |-> a, values |-> s]
PutBack(a, minus, plus) == [do |-> "back", at |-> a, minus |-> minus, plus |-> plus]

\* put_device_into_known_state(): 5 is IOCON of BANK 1 and GPINTENB of BANK 0.
KnownState(int7) ==
    <<Get(5), PutBack(5, {7}, {})>> \o (IF int7 THEN <<Get(5), PutBack(5, {}, {7})>> ELSE <<>>)

\* An argument has the name of the register it is meant for.
ConfigurePorts ==
    <<Put(0, <<"IODIRA", "IODIRB", "IPOLA", "IPOLB">>), Put(12, <<"GPPUA", "GPPUB">>)>>

ConfigureDevice(mirror, high, int) ==
    <<Get(10),
      PutBack(10, {6, 1}, (IF mirror THEN {6} ELSE {}) \cup (IF high THEN {1} ELSE {})),
      Put(4, <<"GPINTENA", int, "DEFVALA", "DEFVALB", "INTCONA", "INTCONB">>)>>

SetOutput(port) == <<Put(IF port = "A" THEN 20 ELSE 21, <<IF port = "A" THEN "OLATA" ELSE "OLATB">>)>>

\* read_output(), read_input() and read_interrupt_capture().
ReadBack(address) == <<Get(address)>>

-----------------------------------------------------------------------------

Call(name, todo) ==
    /\ task.call = "idle" /\ log.calls < MaxCalls
    /\ task' = [Idle EXCEPT !.call = name, !.todo = todo]
    /\ log' = [log EXCEPT !.calls = @ + 1, !.ok = FALSE, !.last = name]
    /\ UNCHANGED chip

Left == Tail(task.todo)
Carry(data) ==
    task' = IF Left = <<>> THEN Idle ELSE [task EXCEPT !.todo = Left, !.data = data]

\* A call that has made its last transaction has succeeded.
Done(l) ==
    IF Left # <<>> THEN l
    ELSE [l EXCEPT !.ok = TRUE, !.known = @ \/ task.call \in {"known", "known_int7"}]

ReadTransaction ==
    /\ task.todo # <<>> /\ Head(task.todo).do = "read"
    /\ Carry(chip[At(Head(task.todo).at)])
    /\ log' = Done(log)
    /\ UNCHANGED chip

Stored(n, value) == IF n = "none" THEN chip ELSE [chip EXCEPT ![n] = value]

WriteBack ==
    /\ task.todo # <<>> /\ Head(task.todo).do = "back"
    /\ LET t == Head(task.todo) IN chip' = Stored(At(t.at), (task.data \ t.minus) \cup t.plus)
    /\ Carry({})
    /\ log' = Done(log)

\* With SEQOP = 0 the address counts up with every byte.
WriteTransaction ==
    /\ task.todo # <<>> /\ Head(task.todo).do = "write"
    /\ LET t == Head(task.todo)
           target == [i \in DOMAIN t.values |-> At(t.at + i - 1)]
       IN  /\ chip' = [n \in Names |-> IF \E i \in DOMAIN target : target[i] = n
                                       THEN t.values[CHOOSE i \in DOMAIN target : target[i] = n]
                                       ELSE chip[n]]
           /\ log' = Done(IF task.call = "device" THEN [log EXCEPT !.int = t.values[2]] ELSE log)
    /\ Carry({})

\* res = res && ...: the rest is not done.
Fails ==
    /\ task.todo # <<>> /\ log.faults < MaxFaults
    /\ task' = Idle
    /\ log' = [log EXCEPT !.faults = @ + 1]
    /\ UNCHANGED chip

\* The other calls assume BANK = 0, as the class says.
Next ==
    \/ \E int7 \in BOOLEAN : Call(IF int7 THEN "known_int7" ELSE "known", KnownState(int7))
    \/ /\ log.known
       /\ \/ Call("ports", ConfigurePorts)
          \/ \E mirror, high \in BOOLEAN, int \in {{}, {7}} : Call("device", ConfigureDevice(mirror, high, int))
          \/ \E port \in {"A", "B"} : Call("output", SetOutput(port))
          \/ \E a \in {16, 18, 20} : Call("read", ReadBack(a))
    \/ ReadTransaction \/ WriteBack \/ WriteTransaction \/ Fails

Spec == Init /\ [][Next]_vars

-----------------------------------------------------------------------------

\* Whatever BANK was, and after whichever attempts that failed half-way, a call of
\* put_device_into_known_state() that succeeds leaves BANK = 0, with GPINT7 of
\* port B enabled if that was asked for, and the rest of GPINTENB as it was.
KnownStateReached ==
    (log.ok /\ log.last \in {"known", "known_int7"}) =>
        /\ 7 \notin chip["IOCON"]
        /\ log.last = "known_int7" => 7 \in chip["GPINTENB"]
        /\ chip["GPINTENB"] \ {7} = log.int \ {7}

\* No argument of a call ends up in a register it is not meant for.
ArgumentsArrive == \A n \in Names \ Bits : chip[n] \in {"reset", n}
=============================================================================
