------------------------------ MODULE Encoder -------------------------------
(* rotary/encoder.cpp on the inputs of I2cInputs: a wheel with two contacts, *)
(* A on one register and B on the other, the thread that counts the rising   *)
(* edges of A, up or down as B is closed or not, and readers of the count.   *)
EXTENDS I2cInputs

CONSTANTS
    MaxEvents      \* bound: quarter steps of the wheel, and 2 for each question

ASSUME WheelAssumption == MaxEvents \in Nat

VARIABLES
    aval, oldaval, encsteps, at,    \* rotencproc
    wheel, way,                     \* quarter steps from A and B open; +1 or -1
    (* ghost *)
    turned, seen,                   \* quarter steps done; who has seen the last one
    edges, total                    \* rising edges of A; sum of all reads

encvars == <<aval, oldaval, encsteps, at>>
wheelvars == <<wheel, way, turned, edges>>
vars == <<busvars, adcvars, faults, encvars, wheelvars, seen, total>>

WireA == IF wheel % 4 \in {2, 3} THEN 1 ELSE 0
WireB == IF wheel % 4 \in {1, 2} THEN 1 ELSE 0

(* oldaval is not initialised.                                               *)
Init ==
    /\ InitInputs
    /\ aval = 0 /\ oldaval \in {0, 1} /\ encsteps = 0 /\ at = "A"
    /\ wheel \in 0 .. 3 /\ way \in {1, -1}
    /\ turned = 0 /\ seen = "nobody" /\ edges = 0 /\ total = 0

(* "the maximum detectable encoder speed is about 1ms per pulse": a quarter  *)
(* step is over when a whole scan and a whole look at it have been made.     *)
Turn ==
    /\ turned + 2 * asks < MaxEvents
    /\ seen = "thread"
    /\ wheel' = (wheel + way) % 4 /\ turned' = turned + 1
    /\ edges' = IF WireA = 0 /\ WireA' = 1 THEN edges + 1 ELSE edges
    /\ seen' = "nobody"
    /\ UNCHANGED <<busvars, adcvars, faults, encvars, way, total>>

(* A whole scan without a fault has seen the wheel.                          *)
ScanBegins == seen' = IF seen = "nobody" /\ faults' = faults THEN "bus" ELSE seen

read_gpios ==
    \/ ReadRegister("a", "b", WireA) /\ ScanBegins
    \/ /\ ReadRegister("b", "store", WireB)
       /\ seen' = IF seen = "bus" /\ faults' # faults THEN "nobody" ELSE seen
    \/ StoreInputs /\ seen' = IF seen = "bus" THEN "image" ELSE seen

Undisturbed == UNCHANGED <<busvars, adcvars, faults, wheelvars>>

GetA ==
    /\ at = "A" /\ at' = "B"
    /\ aval' = inputs.a
    /\ seen' = IF seen = "image" THEN "half" ELSE seen
    /\ Undisturbed /\ UNCHANGED <<oldaval, encsteps, total>>

(* Mutant: both edges count.                                                 *)
CountBoth ==
    IF aval = oldaval THEN 0 ELSE IF inputs.b = 1 THEN 1 ELSE -1

(* What the edge between oldaval and aval counts, B being read now.          *)
Count ==
    IF aval = 1 /\ oldaval = 0 THEN (IF inputs.b = 1 THEN 1 ELSE -1) ELSE 0

GetB ==
    /\ at = "B" /\ at' = "A"
    /\ encsteps' = encsteps + Count
    /\ oldaval' = aval
    /\ seen' = IF seen = "half" THEN "thread" ELSE seen
    /\ Undisturbed /\ UNCHANGED <<aval, total>>

getEncSteps ==
    /\ encsteps # 0
    /\ total' = total + encsteps
    /\ encsteps' = 0
    /\ Undisturbed /\ UNCHANGED <<aval, oldaval, at, seen>>

rotencproc == GetA \/ GetB

rest == <<encvars, wheelvars, seen, total>>

i2cproc ==
    \/ read_gpios /\ UNCHANGED <<encvars, wheelvars, total>>
    \/ read_adc /\ UNCHANGED rest

Next ==
    \/ i2cproc \/ rotencproc \/ getEncSteps \/ Turn
    \/ \E u \in Askers : 
          /\ \/ Look(u)
             \/ turned + 2 * asks + 1 < MaxEvents /\ \E c \in Channels : Ask(u, c)
          /\ UNCHANGED rest

Spec == Init /\ [][Next]_vars

(* Both threads run for ever, and an asker polls.                            *)
FairSpec ==
    /\ Spec
    /\ WF_vars(i2cproc) /\ WF_vars(rotencproc)
    /\ \A u \in Askers : WF_vars(Look(u) /\ UNCHANGED rest)

-----------------------------------------------------------------------------
(* Properties                                                                *)

(* A wheel that is turned one way, no faster than the thread can see, is     *)
(* counted edge by edge in its direction, whoever reads the count when: but  *)
(* for one count at the start, when oldaval and inputs[] are not yet the     *)
(* wheel's, and for two counts per transfer that failed (an edge that is not *)
(* there, or one in the wrong direction).                                    *)
EdgesCounted ==
    seen = "thread" =>
        LET error == total + encsteps - way * edges
        IN  error \in -(1 + 2 * faults.gpio) .. 1 + 2 * faults.gpio

(* A question is answered by a conversion that began after it, unless there  *)
(* was another question before: the conversion of that one, still under way, *)
(* is then taken for the new one's.  i2c_rpi.cpp 294-314, 411-427.           *)
AnswerIsNew == \A u \in Askers : answer[u] = "under way" => asks >= 2

(* A request is converted in the end, also after a failed transfer and when  *)
(* the one who asked has given up.                                           *)
RequestsConverted == \A c \in Channels : adcinputs[c] = Requested ~> adcinputs[c] # Requested
=============================================================================
