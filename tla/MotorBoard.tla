----------------------------- MODULE MotorBoard -----------------------------
(* A motor whose bridge is wired to three pins of the port expander: motor   *)
(* and bus thread meet in outputs[], which Motor calls left, right and on.   *)
EXTENDS Motor

CONSTANTS RegisterOf, MaxFaults

Port == {"left", "right", "enable"}

ASSUME PortsAssumption ==
    /\ RegisterOf \in [Port -> {"a", "b"}]
    /\ MaxFaults \in Nat

VARIABLES bus, u1, old, latch, unsure, faults

outputs ==
    [left   |-> IF left THEN 1 ELSE 0,
     right  |-> IF right THEN 1 ELSE 0,
     enable |-> IF on THEN 0 ELSE 1]

Bus == INSTANCE I2cPorts

busvars == <<bus, u1, old, latch, unsure, faults>>

InitBoard == Init /\ Bus!InitBus

NextBoard ==
    \/ Next /\ UNCHANGED busvars
    \/ UNCHANGED vars /\ Bus!write_gpios

boardvars == <<vars, busvars>>

SpecBoard == InitBoard /\ [][NextBoard]_boardvars

(* Both threads run when they can.  The bus thread does not end with         *)
(* keeprunning ("some processes need to close ports before exit").           *)
FairSpecBoard ==
    /\ SpecBoard
    /\ WF_boardvars(motorproc /\ UNCHANGED busvars)
    /\ WF_boardvars(UNCHANGED vars /\ Bus!write_gpios)
    /\ \A u \in Users : WF_boardvars(WaitDone(u) /\ UNCHANGED busvars)

-----------------------------------------------------------------------------
(* Properties                                                                *)

(* The pins of the bridge never say both directions, though direction and    *)
(* enable may be in different registers, each written at times of its own:   *)
(* unless a transfer of a register has failed and no later one succeeded.    *)
(* write_gpios (i2c_rpi.cpp 365-409).                                        *)
PinsSafe == unsure = {} => ~(latch.left = 1 /\ latch.right = 1)

(* Whatever failed on the bus, and whatever the latches held when the        *)
(* program started, the pins end up as the program has set them.             *)
PinsFollow == <>[](latch = outputs)
=============================================================================
