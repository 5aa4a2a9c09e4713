------------------------------ MODULE I2cPorts ------------------------------
(* i2c_rpi/i2c_rpi.cpp: setPort stores a level in outputs[], and the bus     *)
(* thread brings the levels to the two output registers of a port expander,  *)
(* whose latches are the pins.  A transfer may fail; nobody looks at the     *)
(* result of write_gpios.  The latches keep their levels when the program    *)
(* ends or crashes, so that a new one finds any.                             *)
EXTENDS FiniteSets, Integers

CONSTANTS
    Port,          \* the output ports in use
    RegisterOf,    \* the register, "a" or "b", with the bit of a port
    MaxFaults      \* bound: transfers that fail in one behaviour

Registers == {"a", "b"}
Level == {0, 1}
Image == [Port -> Level]

VARIABLES
    outputs,       \* what setPort stored
    bus,           \* write_gpios: "idle" or "write"
    u1,            \* its snapshot of outputs
    old,           \* old_u1a, old_u1b: what it believes the latches hold
    latch,         \* what they hold
    (* ghost *)
    unsure,        \* registers whose latch no transfer has confirmed since it failed
    faults         \* transfers that failed

busvars == <<bus, u1, old, latch, unsure, faults>>

InitBus ==
    /\ bus = "idle"
    /\ u1 = [p \in Port |-> 0] /\ old = [p \in Port |-> 0]
    /\ latch \in Image
    /\ unsure = Registers /\ faults = 0

setPort(p, onoff) ==
    /\ outputs' = [outputs EXCEPT ![p] = onoff]
    /\ UNCHANGED busvars

Snapshot ==
    /\ bus = "idle"
    /\ bus' = "write" /\ u1' = outputs
    /\ UNCHANGED <<outputs, old, latch, unsure, faults>>

(* Mutant: nothing is sent when nothing has changed.                         *)
SentOnChange == {r \in Registers : \E p \in Port : RegisterOf[p] = r /\ u1[p] # old[p]}

(* One register if only that one has changed, both in every other case.      *)
Sent ==
    LET changed == {r \in Registers : \E p \in Port : RegisterOf[p] = r /\ u1[p] # old[p]}
    IN  IF Cardinality(changed) = 1 THEN changed ELSE Registers

(* image with the registers rs taken from u1.                                *)
Taken(image, rs) == [p \in Port |-> IF RegisterOf[p] \in rs THEN u1[p] ELSE image[p]]

(* Mutant: when both registers are to be sent, only the first one is.        *)
WrittenFirst ==
    /\ bus = "write"
    /\ bus' = "idle"
    /\ latch' = Taken(latch, IF Sent = Registers THEN {"a"} ELSE Sent)
    /\ old' = Taken(old, Sent)
    /\ unsure' = unsure \ Sent
    /\ UNCHANGED <<outputs, u1, faults>>

Written ==
    /\ bus = "write"
    /\ bus' = "idle"
    /\ latch' = Taken(latch, Sent)
    /\ old' = Taken(old, Sent)
    /\ unsure' = unsure \ Sent
    /\ UNCHANGED <<outputs, u1, faults>>

(* The chip may have taken some of the bytes all the same; old changes as if *)
(* it had taken all.                                                         *)
Failed ==
    /\ bus = "write"
    /\ faults < MaxFaults /\ faults' = faults + 1
    /\ bus' = "idle"
    /\ \E rs \in SUBSET Sent : latch' = Taken(latch, rs)
    /\ old' = Taken(old, Sent)
    /\ unsure' = unsure \cup Sent
    /\ UNCHANGED <<outputs, u1>>

write_gpios == Snapshot \/ Written \/ Failed

(* Types of the thread's locals and of the chip.                             *)
BusTypeOK ==
    /\ bus \in {"idle", "write"}
    /\ u1 \in Image /\ old \in Image /\ latch \in Image
    /\ unsure \subseteq Registers /\ faults \in Nat
=============================================================================
