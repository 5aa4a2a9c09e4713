---------------------------- MODULE MotorProofs ----------------------------
(* Proofs about Motor: types, the bridge, the stop and the timeout, for any  *)
(* number of threads and every maxruntime, speed and width of an int.        *)
(* Proofs about MotorBoard: what is proved of a motor holds of one on a      *)
(* board, and the pins of its bridge are safe, for any wiring of the three   *)
(* ports to the two registers and any number of failed transfers.            *)
EXTENDS MotorBoard, TLAPS

(* What a C expression for the number of loops yields is an integer.         *)
LEMMA LoopsInteger == Loops \in Int
<1> DEFINE N == MaxTm * Second
           M == N % IntRange
<1>1. N \in Int
  BY MotorAssumption
<1>2. M \in Int
  BY <1>1, MotorAssumption
<1>3. Wrap(N) \in Int
  BY <1>2, MotorAssumption DEF Wrap
<1>4. \A n \in Int : Quotient(n, Period) \in Int
  <2> TAKE n \in Int
  <2>1. n \div Period \in Int /\ (-n) \div Period \in Int
    BY MotorAssumption
  <2> QED
    BY <2>1 DEF Quotient
<1> QED
  BY <1>3, <1>4 DEF Loops

-----------------------------------------------------------------------------
(* Types                                                                     *)

LEMMA InitTypes == Init => TypeOK
<1> SUFFICES ASSUME Init PROVE TypeOK
  OBVIOUS
<1> USE DEF Init
<1>1. mode \in -1 .. 1 /\ job \in -1 .. 1 /\ actto \in Int /\ afterstop \in Int
  BY DEF NoStop
<1>2. calls \in Nat /\ pulses \in Nat
  OBVIOUS
<1>3. /\ left \in BOOLEAN /\ right \in BOOLEAN /\ on \in BOOLEAN
      /\ keeprunning \in BOOLEAN /\ speedok \in BOOLEAN
  OBVIOUS
<1>4. /\ at = "poll" /\ ended = "none"
      /\ upc \in [Users -> {"idle", "wait"}]
  OBVIOUS
<1> QED
  BY <1>1, <1>2, <1>3, <1>4 DEF TypeOK

LEMMA NextTypes == TypeOK /\ [Next]_vars => TypeOK'
<1> SUFFICES ASSUME TypeOK, [Next]_vars PROVE TypeOK'
  OBVIOUS
<1> USE DEF TypeOK, NoStop, program
<1>1. CASE Poll
  <2> USE <1>1 DEF Poll, Goto, users
  <2>1. job' \in -1 .. 1
    OBVIOUS
  <2>2. left' \in BOOLEAN /\ right' \in BOOLEAN
    OBVIOUS
  <2> QED
    BY <2>1, <2>2
<1>2. CASE SetDirection
  <2> USE <1>2 DEF SetDirection, Goto, users
  <2>1. actto' \in Int /\ pulses' \in Nat
    BY LoopsInteger
  <2>2. left' \in BOOLEAN /\ right' \in BOOLEAN
    BY Zenon
  <2>3. /\ at' \in {"loop", "off"}
        /\ ended' \in {"none", "condition", "timeout", "stop", "speed"}
    OBVIOUS
  <2> QED
    BY <2>1, <2>2, <2>3
<1>3. CASE Condition
  BY <1>3 DEF Condition, Goto, ports, users
<1>4. CASE PulseOn
  <2> USE <1>4 DEF PulseOn, Goto, users
  <2>1. pulses' \in Nat /\ afterstop' \in Int
    OBVIOUS
  <2>2. on' \in BOOLEAN
    OBVIOUS
  <2> QED
    BY <2>1, <2>2
<1>5. CASE PulseOff
  <2> USE <1>5 DEF PulseOff, Goto, users
  <2>1. actto' \in Int
    OBVIOUS
  <2>2. on' \in BOOLEAN
    OBVIOUS
  <2>3. /\ at' \in {"off", "stopped"}
        /\ ended' \in {"none", "condition", "timeout", "stop", "speed"}
    OBVIOUS
  <2> QED
    BY <2>1, <2>2, <2>3
<1>6. CASE LookForStop
  BY <1>6 DEF LookForStop, Goto, ports, users
<1>7. CASE SwitchOff
  <2> USE <1>7 DEF SwitchOff, Goto, users, ghost
  <2>1. on' \in BOOLEAN
    OBVIOUS
  <2> QED
    BY <2>1
<1>15. CASE Release
  <2> USE <1>15 DEF Release, Goto, users, ghost
  <2>1. left' \in BOOLEAN /\ right' \in BOOLEAN
    OBVIOUS
  <2> QED
    BY <2>1
<1>8. CASE EndJob
  BY <1>8 DEF EndJob, Goto, ports, users, ghost
<1>9. CASE Exit
  BY <1>9 DEF Exit, Goto, ports, users, ghost
<1>10. ASSUME NEW u \in Users, WaitDone(u) PROVE TypeOK'
  BY <1>10 DEF WaitDone, thread, ports, ghost
<1>11. ASSUME NEW u \in Users, NEW dir \in {0, 1}, turn_motor(u, dir) PROVE TypeOK'
  BY <1>11 DEF turn_motor, thread, ports
<1>12. ASSUME NEW u \in Stoppers, stop_motor(u) PROVE TypeOK'
  BY <1>12 DEF stop_motor, thread, ports
<1>13. CASE Stop
  BY <1>13 DEF Stop, thread, ports, users, ghost
<1>14. CASE UNCHANGED vars
  BY <1>14 DEF vars
<1> QED
  BY <1>1, <1>2, <1>3, <1>4, <1>5, <1>6, <1>7, <1>8, <1>9, <1>10, <1>11, <1>12,
     <1>13, <1>14, <1>15
     DEF Next, motorproc

(* Every variable keeps its type, in particular mode stays one the thread    *)
(* knows whatever turns and stops are posted.                                *)
THEOREM TypeCorrect == Spec => []TypeOK
  BY InitTypes, NextTypes, PTL DEF Spec

-----------------------------------------------------------------------------
(* The bridge                                                                *)

(* Where the thread is tells what it has switched on.                        *)
PortInv ==
    /\ at \in {"poll", "direction", "end", "exit"} => ~left /\ ~right
    /\ at \in {"loop", "on", "stopped", "off", "release"} =>
          (left <=> job = 0) /\ (right <=> job = 1)
    /\ at \in {"direction", "loop", "on", "stopped", "off", "release"} => job \in {0, 1}
    /\ at \in {"release", "end"} => ~on
    /\ at \in {"poll", "exit"} => ~on \/ ended = "none"

LEMMA InitPorts == Init => PortInv
  BY DEF Init, PortInv

LEMMA NextPorts == TypeOK /\ PortInv /\ [Next]_vars => PortInv'
<1> SUFFICES ASSUME TypeOK, PortInv, [Next]_vars PROVE PortInv'
  OBVIOUS
<1> USE DEF PortInv
<1>1. CASE Poll
  <2>1. job' \in {0, 1}
    BY <1>1 DEF Poll, TypeOK
  <2> QED
    BY <1>1, <2>1 DEF Poll, Goto
<1>2. CASE SetDirection
  BY <1>2 DEF SetDirection, Goto, TypeOK
<1>3. CASE Condition \/ PulseOn \/ PulseOff
  BY <1>3 DEF Condition, PulseOn, PulseOff, Goto, ports, ghost, TypeOK
<1>4. CASE LookForStop \/ SwitchOff \/ Release \/ EndJob \/ Exit
  BY <1>4 DEF LookForStop, SwitchOff, Release, EndJob, Exit, Goto, ports, ghost, TypeOK
<1>5. ASSUME NEW u \in Users, WaitDone(u) PROVE PortInv'
  BY <1>5 DEF WaitDone, thread, ports, ghost
<1>6. ASSUME NEW u \in Users, NEW dir \in {0, 1}, turn_motor(u, dir) PROVE PortInv'
  BY <1>6 DEF turn_motor, thread, ports
<1>7. ASSUME NEW u \in Stoppers, stop_motor(u) PROVE PortInv'
  BY <1>7 DEF stop_motor, thread, ports
<1>8. CASE Stop
  BY <1>8 DEF Stop, thread, ports, ghost
<1>9. CASE UNCHANGED vars
  BY <1>9 DEF vars
<1> QED
  BY <1>1, <1>2, <1>3, <1>4, <1>5, <1>6, <1>7, <1>8, <1>9 DEF Next, motorproc

(* However turns and stops overwrite each other's mode, the bridge is never  *)
(* told both directions, only ever the one of the job, and none between      *)
(* jobs, when it is not enabled either once a job has ended.                 *)
THEOREM BridgeCorrect == Spec => []BridgeSafe
<1>1. TypeOK /\ PortInv => BridgeSafe
  BY DEF TypeOK, PortInv, BridgeSafe
<1> QED
  BY <1>1, InitTypes, NextTypes, InitPorts, NextPorts, PTL DEF Spec

-----------------------------------------------------------------------------
(* The stop                                                                  *)

(* While a stop is pending nobody has turned the motor again, so that mode   *)
(* is -1, and after one pulse the thread cannot be about to give another.    *)
StopInv ==
    /\ afterstop \in {NoStop, 0, 1}
    /\ afterstop # NoStop => mode = -1
    /\ afterstop = 1 => at \in {"on", "stopped", "off", "release", "end", "poll", "exit"}

LEMMA InitStop == Init => StopInv
  BY DEF Init, StopInv, NoStop

LEMMA NextStop == TypeOK /\ StopInv /\ [Next]_vars => StopInv'
<1> SUFFICES ASSUME TypeOK, StopInv, [Next]_vars PROVE StopInv'
  OBVIOUS
<1> USE DEF StopInv, NoStop
<1>1. CASE Poll
  BY <1>1 DEF Poll, Goto, users
<1>2. CASE SetDirection
  BY <1>2 DEF SetDirection, Goto, users
<1>3. CASE Condition \/ PulseOn \/ PulseOff
  BY <1>3 DEF Condition, PulseOn, PulseOff, Goto, ports, users
<1>4. CASE LookForStop \/ SwitchOff \/ Release \/ EndJob \/ Exit
  BY <1>4 DEF LookForStop, SwitchOff, Release, EndJob, Exit, Goto, ports, users, ghost
<1>5. ASSUME NEW u \in Users, WaitDone(u) PROVE StopInv'
  BY <1>5 DEF WaitDone, thread, ports, ghost
<1>6. ASSUME NEW u \in Users, NEW dir \in {0, 1}, turn_motor(u, dir) PROVE StopInv'
  BY <1>6 DEF turn_motor, thread, ports
<1>7. ASSUME NEW u \in Stoppers, stop_motor(u) PROVE StopInv'
  BY <1>7 DEF stop_motor, thread, ports
<1>8. CASE Stop
  BY <1>8 DEF Stop, thread, ports, users, ghost
<1>9. CASE UNCHANGED vars
  BY <1>9 DEF vars
<1> QED
  BY <1>1, <1>2, <1>3, <1>4, <1>5, <1>6, <1>7, <1>8, <1>9 DEF Next, motorproc

(* After stop_motor at most one more pulse is given before somebody turns    *)
(* the motor again, for any number of threads that turn and stop it.         *)
THEOREM StopCorrect == Spec => []StopsWithinOnePulse
<1>1. StopInv => StopsWithinOnePulse
  BY DEF StopInv, StopsWithinOnePulse, NoStop
<1> QED
  BY <1>1, InitTypes, NextTypes, InitStop, NextStop, PTL DEF Spec

-----------------------------------------------------------------------------
(* The timeout                                                               *)

(* While the microseconds fit an int, Loops is their quotient by the period. *)
LEMMA LoopsFit ==
    ASSUME 2 * (MaxTm * Second) < IntRange
    PROVE  /\ Loops \in Nat
           /\ Loops * Period <= MaxTm * Second
           /\ (Loops + 1) * Period > MaxTm * Second
<1> DEFINE N == MaxTm * Second
<1>1. N \in Nat
  BY MotorAssumption
<1>2. N % IntRange = N
  BY <1>1, MotorAssumption
<1>3. Wrap(N) = N
  BY <1>1, <1>2, MotorAssumption DEF Wrap
<1>4. Loops = N \div Period
  BY <1>1, <1>3 DEF Loops, Quotient
<1>5. ASSUME NEW n \in Nat, NEW d \in Nat \ {0}
      PROVE  /\ n \div d \in Nat
             /\ (n \div d) * d <= n
             /\ (n \div d + 1) * d > n
  BY <1>5, SMTT(30)
<1> QED
  BY <1>1, <1>4, <1>5, MotorAssumption

(* The pulses of a run and the loops still to go add up to Loops.            *)
RunInv ==
    /\ at = "loop" => pulses + actto = Loops /\ (pulses = 0 \/ actto > 0)
    /\ at = "on" => pulses + actto = Loops + 1 /\ (pulses = 1 \/ actto > 0)
    /\ at = "stopped" => pulses + actto = Loops /\ actto > 0
    /\ pulses <= 1 \/ pulses <= Loops
    /\ (ended = "timeout" /\ at \in {"off", "release", "end"}) => pulses >= Loops

LEMMA InitRun == Init => RunInv
  BY DEF Init, RunInv

LEMMA NextRun ==
    ASSUME Loops \in Nat
    PROVE  TypeOK /\ RunInv /\ [Next]_vars => RunInv'
<1> SUFFICES ASSUME TypeOK, RunInv, [Next]_vars PROVE RunInv'
  OBVIOUS
<1>0. actto \in Int /\ pulses \in Nat
  BY DEF TypeOK
<1> USE <1>0 DEF RunInv
<1>c. Loops' = Loops
  BY DEF Loops
<1>1. CASE Poll
  BY <1>1, <1>c DEF Poll, Goto, users
<1>2. CASE SetDirection
  BY <1>2, <1>c DEF SetDirection, Goto, users
<1>3. CASE Condition
  BY <1>3, <1>c DEF Condition, Goto, ports, users
<1>4. CASE PulseOn
  BY <1>4, <1>c DEF PulseOn, Goto, users
<1>5. CASE PulseOff
  BY <1>5, <1>c DEF PulseOff, Goto, users
<1>6. CASE LookForStop \/ SwitchOff \/ Release \/ EndJob \/ Exit
  BY <1>6, <1>c DEF LookForStop, SwitchOff, Release, EndJob, Exit, Goto, ports, users, ghost
<1>7. ASSUME NEW u \in Users, WaitDone(u) PROVE RunInv'
  BY <1>7, <1>c DEF WaitDone, thread, ports, ghost
<1>8. ASSUME NEW u \in Users, NEW dir \in {0, 1}, turn_motor(u, dir) PROVE RunInv'
  BY <1>8, <1>c DEF turn_motor, thread, ports
<1>9. ASSUME NEW u \in Stoppers, stop_motor(u) PROVE RunInv'
  BY <1>9, <1>c DEF stop_motor, thread, ports
<1>10. CASE Stop
  BY <1>10, <1>c DEF Stop, thread, ports, users, ghost
<1>11. CASE UNCHANGED vars
  BY <1>11, <1>c DEF vars
<1> QED
  BY <1>1, <1>2, <1>3, <1>4, <1>5, <1>6, <1>7, <1>8, <1>9, <1>10, <1>11
     DEF Next, motorproc

LEMMA RunLength ==
    ASSUME 2 * (MaxTm * Second) < IntRange
    PROVE  TypeOK /\ RunInv => RunsMaxTm
<1> SUFFICES ASSUME TypeOK, RunInv PROVE RunsMaxTm
  OBVIOUS
<1> DEFINE N == MaxTm * Second
<1>0. N \in Nat /\ Period \in Nat /\ pulses \in Nat /\ Loops \in Nat
  BY LoopsFit, MotorAssumption DEF TypeOK
<1>1. ASSUME NEW a \in Nat, NEW b \in Nat, NEW p \in Nat, a <= b
      PROVE  a * p <= b * p
  BY <1>1, SMTT(30)
<1>2. pulses <= 1 \/ pulses * Period <= N
  <2>1. CASE pulses <= Loops
    <3>1. pulses * Period <= Loops * Period
      BY <1>0, <1>1, <2>1
    <3> QED
      BY <1>0, <3>1, LoopsFit
  <2> QED
    BY <2>1 DEF RunInv
<1>3. (ended = "timeout" /\ at = "end") => (pulses + 1) * Period > N
  <2>1. SUFFICES ASSUME pulses >= Loops PROVE (pulses + 1) * Period > N
    BY DEF RunInv
  <2>2. (Loops + 1) * Period <= (pulses + 1) * Period
    BY <1>0, <1>1, <2>1
  <2> QED
    BY <1>0, <2>2, LoopsFit
<1> QED
  BY <1>2, <1>3 DEF RunsMaxTm

(* As long as maxtm in microseconds, doubled, stays below the range of an    *)
(* int, no run is longer than maxtm and none that timed out was shorter.     *)
THEOREM TimeoutCorrect ==
    ASSUME 2 * (MaxTm * Second) < IntRange
    PROVE  Spec => []RunsMaxTm
<1>1. Loops \in Nat
  BY LoopsFit
<1>2. TypeOK /\ RunInv /\ [Next]_vars => RunInv'
  BY <1>1, NextRun
<1>3. TypeOK /\ RunInv => RunsMaxTm
  BY RunLength
<1> QED
  BY <1>2, <1>3, InitTypes, NextTypes, InitRun, PTL DEF Spec

-----------------------------------------------------------------------------
(* The motor on the board is a motor.                                        *)

LEMMA StepOfMotor == [NextBoard]_boardvars => [Next]_vars
  BY DEF NextBoard, boardvars

(* What the bus thread does never changes the motor's own state, so that     *)
(* every theorem about Motor is one about a motor whose ports are bits of    *)
(* outputs[].                                                                *)
THEOREM BoardIsMotor == SpecBoard => Spec
  BY StepOfMotor, PTL DEF SpecBoard, InitBoard, Spec

-----------------------------------------------------------------------------
(* The pins                                                                  *)

OneWay(image) == ~(image.left = 1 /\ image.right = 1)

(* What the thread takes for the latches' contents is one snapshot of        *)
(* outputs[], of both registers, and a register that is not in doubt holds   *)
(* its part of it.                                                           *)
BusInv ==
    /\ Bus!BusTypeOK
    /\ OneWay(u1) /\ OneWay(old)
    /\ \A p \in Port : RegisterOf[p] \notin unsure => latch[p] = old[p]

LEMMA InitBus ==
    InitBoard => BusInv
<1> SUFFICES ASSUME InitBoard PROVE BusInv
  OBVIOUS
<1> USE DEF InitBoard, Bus!InitBus
<1>1. Bus!BusTypeOK
  BY DEF Bus!BusTypeOK, Bus!Image, Bus!Level
<1>2. OneWay(u1) /\ OneWay(old)
  BY DEF OneWay, Port
<1>3. \A p \in Port : RegisterOf[p] \in unsure
  BY PortsAssumption DEF Bus!Registers
<1> QED
  BY <1>1, <1>2, <1>3 DEF BusInv

LEMMA OutputsOneWay == TypeOK /\ PortInv => OneWay(outputs) /\ outputs \in Bus!Image
<1> SUFFICES ASSUME TypeOK, PortInv PROVE OneWay(outputs) /\ outputs \in Bus!Image
  OBVIOUS
<1>1. ~(left /\ right)
  BY DEF TypeOK, PortInv
<1>2. outputs.left = (IF left THEN 1 ELSE 0) /\ outputs.right = (IF right THEN 1 ELSE 0)
  BY DEF outputs
<1>3. OneWay(outputs)
  BY <1>1, <1>2 DEF OneWay
<1>4. outputs \in Bus!Image
  BY DEF outputs, Bus!Image, Bus!Level, Port
<1> QED
  BY <1>3, <1>4

(* A transfer leaves out no register that has changed.                       *)
LEMMA AllSent ==
    BusInv => /\ Bus!Sent \subseteq Bus!Registers
              /\ \A p \in Port : RegisterOf[p] \notin Bus!Sent => u1[p] = old[p]
              /\ Bus!Taken(old, Bus!Sent) = u1
<1> SUFFICES ASSUME BusInv
             PROVE  /\ Bus!Sent \subseteq Bus!Registers
                    /\ \A p \in Port : RegisterOf[p] \notin Bus!Sent => u1[p] = old[p]
                    /\ Bus!Taken(old, Bus!Sent) = u1
  OBVIOUS
<1> DEFINE changed == {r \in Bus!Registers : \E p \in Port : RegisterOf[p] = r /\ u1[p] # old[p]}
<1>1. Bus!Sent = changed \/ Bus!Sent = Bus!Registers
  BY DEF Bus!Sent
<1>2. \A p \in Port : RegisterOf[p] \in Bus!Registers
  BY PortsAssumption DEF Bus!Registers
<1>3. \A p \in Port : RegisterOf[p] \notin Bus!Sent => u1[p] = old[p]
  BY <1>1, <1>2
<1>4. u1 \in [Port -> Bus!Level]
  BY DEF BusInv, Bus!BusTypeOK, Bus!Image
<1>5. Bus!Taken(old, Bus!Sent) = u1
  BY <1>3, <1>4 DEF Bus!Taken
<1> QED
  BY <1>1, <1>3, <1>5

LEMMA NextBus == TypeOK /\ PortInv /\ BusInv /\ [NextBoard]_boardvars => BusInv'
<1> SUFFICES ASSUME TypeOK, PortInv, BusInv, [NextBoard]_boardvars PROVE BusInv'
  OBVIOUS
<1>a. /\ u1 \in [Port -> Bus!Level] /\ old \in [Port -> Bus!Level]
      /\ latch \in [Port -> Bus!Level]
      /\ unsure \subseteq Bus!Registers /\ faults \in Nat
  BY DEF BusInv, Bus!BusTypeOK, Bus!Image
<1>b. /\ Bus!Sent \subseteq Bus!Registers
      /\ \A p \in Port : RegisterOf[p] \notin Bus!Sent => u1[p] = old[p]
      /\ Bus!Taken(old, Bus!Sent) = u1
  BY AllSent
<1>1. CASE UNCHANGED busvars
  BY <1>1 DEF busvars, BusInv, Bus!BusTypeOK, OneWay
<1>2. CASE Bus!Snapshot
  <2>1. /\ bus' = "write" /\ u1' = outputs
        /\ UNCHANGED <<old, latch, unsure, faults>>
    BY <1>2 DEF Bus!Snapshot
  <2>2. OneWay(u1)' /\ u1' \in Bus!Image
    BY <2>1, OutputsOneWay DEF OneWay
  <2> QED
    BY <2>1, <2>2 DEF BusInv, Bus!BusTypeOK, OneWay
<1>3. CASE Bus!Written
  <2>1. /\ bus' = "idle" /\ latch' = Bus!Taken(latch, Bus!Sent)
        /\ old' = u1 /\ unsure' = unsure \ Bus!Sent /\ UNCHANGED <<u1, faults>>
    BY <1>3, <1>b DEF Bus!Written
  <2>2. latch' \in Bus!Image
    BY <1>a, <2>1 DEF Bus!Taken, Bus!Image
  <2>3. Bus!BusTypeOK'
    BY <1>a, <2>1, <2>2 DEF Bus!BusTypeOK, Bus!Image
  <2>4. \A p \in Port : RegisterOf[p] \notin unsure' => latch'[p] = old'[p]
    <3> SUFFICES ASSUME NEW p \in Port, RegisterOf[p] \notin unsure' PROVE latch'[p] = u1[p]
      BY <2>1
    <3>1. latch'[p] = IF RegisterOf[p] \in Bus!Sent THEN u1[p] ELSE latch[p]
      BY <2>1 DEF Bus!Taken
    <3>2. CASE RegisterOf[p] \in Bus!Sent
      BY <3>1, <3>2
    <3>3. CASE RegisterOf[p] \notin Bus!Sent
      BY <1>b, <2>1, <3>1, <3>3 DEF BusInv
    <3> QED
      BY <3>2, <3>3
  <2> QED
    BY <2>1, <2>3, <2>4 DEF BusInv, OneWay
<1>4. CASE Bus!Failed
  <2>1. /\ bus' = "idle" /\ old' = u1 /\ faults' = faults + 1
        /\ unsure' = unsure \cup Bus!Sent /\ UNCHANGED u1
    BY <1>4, <1>b DEF Bus!Failed
  <2>2. PICK rs \in SUBSET Bus!Sent : latch' = Bus!Taken(latch, rs)
    BY <1>4 DEF Bus!Failed
  <2>3. latch' \in Bus!Image
    BY <1>a, <2>2 DEF Bus!Taken, Bus!Image
  <2>4. Bus!BusTypeOK'
    BY <1>a, <1>b, <2>1, <2>3 DEF Bus!BusTypeOK, Bus!Image
  <2>5. \A p \in Port : RegisterOf[p] \notin unsure' => latch'[p] = old'[p]
    <3> SUFFICES ASSUME NEW p \in Port, RegisterOf[p] \notin unsure' PROVE latch'[p] = u1[p]
      BY <2>1
    <3>1. RegisterOf[p] \notin Bus!Sent /\ RegisterOf[p] \notin unsure
      BY <2>1
    <3>2. latch'[p] = latch[p]
      BY <2>2, <3>1 DEF Bus!Taken
    <3> QED
      BY <1>b, <3>1, <3>2 DEF BusInv
  <2> QED
    BY <2>1, <2>4, <2>5 DEF BusInv, OneWay
<1> QED
  BY <1>1, <1>2, <1>3, <1>4 DEF NextBoard, boardvars, Bus!write_gpios, busvars

(* The pins of the bridge never say both directions unless a transfer of a   *)
(* register failed and no later one succeeded, however the three ports are   *)
(* wired to the registers, for any number of threads that turn and stop it.  *)
THEOREM PinsCorrect == SpecBoard => []PinsSafe
<1>1. TypeOK /\ PortInv /\ BusInv => PinsSafe
  BY DEF BusInv, PinsSafe, OneWay, Port
<1>2. InitBoard => Init
  BY DEF InitBoard
<1> QED
  BY <1>1, <1>2, StepOfMotor, InitTypes, NextTypes, InitPorts, NextPorts, InitBus, NextBus, PTL
     DEF SpecBoard
=============================================================================
