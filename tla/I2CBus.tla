------------------------------- MODULE I2CBus -------------------------------
(***************************************************************************)
(* The I2C bus: core/io/i2c/Master.cpp, which installs the driver and      *)
(* creates the devices, and I2CMasterDevice.cpp, through which the tasks   *)
(* that own a device write to it, read from it and scan the bus.  All      *)
(* devices of a master share one mutex, held by the I2CCommandLink of an   *)
(* operation.                                                              *)
(*                                                                         *)
(* An operation is the sequence of the driver calls it has left.  A call   *)
(* that moves bytes on the bus takes two steps, so that something can come *)
(* in between; every driver call may fail.                                 *)
(***************************************************************************)
EXTENDS Naturals, Sequences, FiniteSets

CONSTANTS
    Threads,          \* the tasks that use the slave, each through a device object
    Registers,        \* the registers of the slave
    MaxCalls,         \* bound: operations of each task
    MaxFaults,        \* bound: driver calls that fail
    NoThread

VARIABLES
    guard,            \* the thread that holds Master::guard
    initialized,      \* Master::initialized
    installed,        \* the I2C driver is installed
    device,           \* device[t]: create_device() has returned a device to t
    timeout,          \* the SCL timeout of the driver, "default" or "stretched"
    saved,            \* saved[t]: orig_scl_timeout
    pointer,          \* the register the slave is set to
    op,               \* op[t]: the operation t performs
    calls,            \* calls[t]: the driver calls that op[t] has left
    moving,           \* moving[t]: the bytes of the call are on the bus
    ok,               \* ok[t]: res == ESP_OK so far
    got,              \* got[t]: the register the bytes were read from
    garbled,          \* garbled[t]: a FIFO was reset during the transfer
    made, faults,     \* operations and failures so far
    unset             \* history: a call to change the timeout has failed

opVars == <<op, calls, moving, ok, got, garbled, saved>>
vars == <<guard, initialized, installed, device, timeout, pointer, opVars, made, faults, unset>>

Nothing == "nothing"
Idle == [kind |-> "idle"]

\* The parameters of read(), read8() and read16().
Reads == [kind : {"read"}, reg : Registers, restart : BOOLEAN, stretch : BOOLEAN]
Ops == Reads \cup [kind : {"write"}, reg : Registers] \cup {[kind |-> "block"], [kind |-> "scan"]}

Init ==
    /\ guard = NoThread
    /\ initialized = FALSE /\ installed = FALSE
    /\ device = [t \in Threads |-> FALSE]
    /\ timeout = "default"
    /\ saved = [t \in Threads |-> "default"]
    /\ pointer \in Registers
    /\ op = [t \in Threads |-> Idle]
    /\ calls = [t \in Threads |-> <<>>]
    /\ moving = [t \in Threads |-> FALSE]
    /\ ok = [t \in Threads |-> TRUE]
    /\ got = [t \in Threads |-> Nothing]
    /\ garbled = [t \in Threads |-> FALSE]
    /\ made = [t \in Threads |-> 0]
    /\ faults = 0
    /\ unset = FALSE

-----------------------------------------------------------------------------
(* The driver calls of an operation.                                       *)

\* Mutant of WriteFollowedByRead: a new command link takes the place of reset().
WriteUnlockRead(o) ==
    (IF o.stretch THEN <<"stretch">> ELSE <<>>)
    \o (IF o.restart THEN <<"point_read">> ELSE <<"point", "unlock", "read">>)
    \o (IF o.stretch THEN <<"restore">> ELSE <<>>)

\* write_followed_by_read(): the register and the data in one transmission, or
\* in two "without releasing the lock we have on the i2c master".
WriteFollowedByRead(o) ==
    (IF o.stretch THEN <<"stretch">> ELSE <<>>)
    \o (IF o.restart THEN <<"point_read">> ELSE <<"point", "read">>)
    \o (IF o.stretch THEN <<"restore">> ELSE <<>>)

\* scan_i2c_bus() has a link for each address, and none for the FIFOs.
CallsOf(o) ==
    CASE o.kind = "read" -> WriteFollowedByRead(o)
      [] o.kind = "write" -> <<"write">>
      [] o.kind = "block" -> <<"read">>
      [] o.kind = "scan" -> <<"probe", "unlock", "probe", "unlock", "reset">>
      [] o.kind = "create" -> <<"install", "unlock", "make">>

Moves(c) == c \in {"point", "read", "point_read", "write", "probe"}

-----------------------------------------------------------------------------

Begin(t, o) ==
    /\ op[t] = Idle /\ made[t] < MaxCalls
    /\ o.kind = "create" <=> ~device[t]
    /\ op' = [op EXCEPT ![t] = o]
    /\ calls' = [calls EXCEPT ![t] = CallsOf(o)]
    /\ made' = [made EXCEPT ![t] = @ + 1]
    /\ ok' = [ok EXCEPT ![t] = TRUE]
    /\ got' = [got EXCEPT ![t] = Nothing]
    /\ garbled' = [garbled EXCEPT ![t] = FALSE]
    /\ UNCHANGED <<guard, initialized, installed, device, timeout, pointer, moving, saved, faults, unset>>

Next1(t) == IF calls[t] = <<>> THEN Nothing ELSE Head(calls[t])
Done(t) == calls' = [calls EXCEPT ![t] = Tail(@)]

\* The constructor of an I2CCommandLink or of a lock_guard.
Lock(t) ==
    /\ op[t] # Idle /\ guard = NoThread /\ Next1(t) \notin {"reset", Nothing}
    /\ guard' = t
    /\ UNCHANGED <<initialized, installed, device, timeout, pointer, opVars, made, faults, unset>>

Unlock(t) ==
    /\ guard = t /\ Next1(t) = "unlock"
    /\ guard' = NoThread /\ Done(t)
    /\ UNCHANGED <<initialized, installed, device, timeout, pointer, op, moving, ok, got, garbled, saved, made, faults, unset>>

Succeeds(t) == UNCHANGED <<ok, faults>>
Fails(t) ==
    /\ faults < MaxFaults
    /\ faults' = faults + 1
    /\ ok' = [ok EXCEPT ![t] = FALSE]

\* Master::initialize(); after a failure create_device() returns nullptr and
\* can be called again.
Install(t) ==
    /\ guard = t /\ Next1(t) = "install"
    /\ \/ Succeeds(t) /\ initialized' = TRUE /\ installed' = TRUE /\ Done(t)
       \/ /\ ~initialized /\ Fails(t) /\ UNCHANGED <<initialized, installed>>
          /\ calls' = [calls EXCEPT ![t] = <<"unlock">>]
    /\ UNCHANGED <<guard, device, timeout, pointer, op, moving, got, garbled, saved, made, unset>>

Make(t) ==
    /\ guard = t /\ Next1(t) = "make"
    /\ device' = [device EXCEPT ![t] = TRUE]
    /\ Done(t)
    /\ UNCHANGED <<guard, initialized, installed, timeout, pointer, op, moving, ok, got, garbled, saved, made, faults, unset>>

\* i2c_get_timeout() and i2c_set_timeout(), whatever the first returns; if one
\* of them fails the rest of the function is skipped.
Stretch(t) ==
    /\ guard = t /\ Next1(t) = "stretch"
    /\ \/ /\ Succeeds(t) /\ Done(t) /\ saved' = [saved EXCEPT ![t] = timeout]
          /\ timeout' = "stretched" /\ UNCHANGED unset
       \/ /\ Fails(t) /\ calls' = [calls EXCEPT ![t] = <<>>] /\ UNCHANGED saved
          /\ timeout' \in {timeout, "stretched"} /\ unset' = TRUE
    /\ UNCHANGED <<guard, initialized, installed, device, pointer, op, moving, got, garbled, made>>

Restore(t) ==
    /\ guard = t /\ Next1(t) = "restore" /\ Done(t)
    /\ \/ Succeeds(t) /\ timeout' = saved[t] /\ UNCHANGED unset
       \/ Fails(t) /\ UNCHANGED timeout /\ unset' = TRUE
    /\ UNCHANGED <<guard, initialized, installed, device, pointer, op, moving, got, garbled, saved, made>>

\* i2c_master_cmd_begin()
StartTransfer(t) ==
    /\ guard = t /\ Moves(Next1(t)) /\ ~moving[t]
    /\ moving' = [moving EXCEPT ![t] = TRUE]
    /\ UNCHANGED <<guard, initialized, installed, device, timeout, pointer, op, calls, ok, got, garbled, saved, made, faults, unset>>

\* The slave acknowledges, or does not: then it may have taken the register or
\* not.  res collects the errors of both transmissions; the second is made even
\* if the first has failed.  The error of a probe is not an error.
EndTransfer(t) ==
    /\ guard = t /\ moving[t] /\ Done(t)
    /\ moving' = [moving EXCEPT ![t] = FALSE]
    /\ LET c == Next1(t)
           at == IF c \in {"point", "point_read", "write"} THEN op[t].reg ELSE pointer
       IN  \/ /\ Succeeds(t)
              /\ pointer' = at
              /\ got' = IF c \in {"read", "point_read"} THEN [got EXCEPT ![t] = at] ELSE got
           \/ Fails(t) /\ UNCHANGED <<pointer, got>>
    /\ UNCHANGED <<guard, initialized, installed, device, timeout, op, garbled, saved, made, unset>>

\* The FIFOs belong to the port: whoever moves bytes at this moment loses them.
ResetFifos(t) == garbled' = [u \in Threads |-> garbled[u] \/ (u # t /\ moving[u])]

\* The end of scan_i2c_bus(), without a link.
ScanCleanup(t) ==
    /\ Next1(t) = "reset"
    /\ ResetFifos(t) /\ Done(t)
    /\ UNCHANGED <<guard, initialized, installed, device, timeout, pointer, op, moving, ok, got, saved, made, faults, unset>>

\* do_cleanup() after an error, then the destructor of the link.
Return(t) ==
    /\ op[t] # Idle /\ calls[t] = <<>>
    /\ op' = [op EXCEPT ![t] = Idle]
    /\ guard' = IF guard = t THEN NoThread ELSE guard
    /\ IF ~ok[t] /\ guard = t THEN ResetFifos(t) ELSE UNCHANGED garbled
    /\ UNCHANGED <<initialized, installed, device, timeout, pointer, calls, moving, ok, got, saved, made, faults, unset>>

Step(t) ==
    \/ Lock(t) \/ Unlock(t) \/ Install(t) \/ Make(t) \/ Stretch(t) \/ Restore(t)
    \/ StartTransfer(t) \/ EndTransfer(t) \/ ScanCleanup(t) \/ Return(t)

Next == \E t \in Threads : (\E o \in Ops \cup {[kind |-> "create"]} : Begin(t, o)) \/ Step(t)

Spec == Init /\ [][Next]_vars

\* A task that is in an operation runs on; every driver call returns.
Fairness == \A t \in Threads : WF_vars(Step(t))

-----------------------------------------------------------------------------
(* Properties.                                                             *)

\* A read that reports success has read the register it was asked for, whatever
\* the other tasks do to the slave between its transmissions, unless the end of
\* a scan has thrown away its bytes.
ReadsItsRegister ==
    \A t \in Threads :
        (op[t].kind = "read" /\ calls[t] = <<>> /\ ok[t] /\ ~garbled[t]) => got[t] = op[t].reg

\* The timeout for a slave that stretches the clock never stays behind for the
\* next operation, unless the driver itself refused to change it.
TimeoutRestored == (guard = NoThread /\ ~unset) => timeout = "default"

\* A device that was handed out has a driver, also after attempts that failed.
DeviceHasDriver == \A t \in Threads : device[t] => installed

\* Every operation returns and with it the mutex, whichever call fails.
OperationsReturn == \A t \in Threads : (op[t] # Idle) ~> (op[t] = Idle)

\* The bus serves several devices: what one task does on it, or fails to do,
\* does not show in the operations of another, and all of them return.
BusIsShared == [](ReadsItsRegister /\ TimeoutRestored /\ DeviceHasDriver) /\ OperationsReturn
=============================================================================
