-------------------------------- MODULE Motor --------------------------------
(* motor/motor.cpp: one DC motor, its motorproc thread and the threads that  *)
(* turn and stop it.  turnleft_motor and turnright_motor post a mode and     *)
(* wait until it is back at -1.  LOCK .. UNLOCK sections are one step.  Ports *)
(* are 0 until somebody sets them, which is the enable port's active level.  *)
EXTENDS Integers

CONSTANTS
    Users,       \* threads that call turnleft_motor and turnright_motor
    Stoppers,    \* threads that call stop_motor
    MaxTm,       \* maxruntime in seconds
    Second,      \* microseconds in a second (1000000)
    Period,      \* ontime + offtime in microseconds (10000)
    IntRange,    \* 2 ^ width of a C int
    MayStop,     \* can keeprunning be cleared
    MaxCalls     \* bound: calls of the users in one behaviour

ASSUME MotorAssumption ==
    /\ MaxTm \in Nat
    /\ Second \in Nat \ {0} /\ Period \in Nat \ {0}
    /\ IntRange \in Nat \ {0}
    /\ MayStop \in BOOLEAN /\ MaxCalls \in Nat

VARIABLES
    mode,                \* -1 idle, 0 left, 1 right
    at, job, actto,      \* motorproc: where it is, its mode, loops to go
    left, right, on,     \* the direction ports, the enable port (on = level 0)
    upc, calls,          \* the callers
    keeprunning,
    speedok,             \* is the speed of create_motor between 1 and 99 %
    (* ghost *)
    pulses,              \* pulses of the current run
    ended,               \* why the last run ended
    afterstop            \* pulses since the last stop that no turn followed

thread == <<at, job, actto>>
ports == <<left, right, on>>
users == <<upc, calls>>
program == <<keeprunning, speedok>>
ghost == <<pulses, ended, afterstop>>
vars == <<mode, at, job, actto, left, right, on, upc, calls, keeprunning,
          speedok, pulses, ended, afterstop>>

NoStop == -1

(* A C int keeps its low bits; signed division drops the fraction.           *)
Wrap(n) == LET m == n % IntRange IN IF 2 * m >= IntRange THEN m - IntRange ELSE m
Quotient(n, d) == IF n >= 0 THEN n \div d ELSE -((-n) \div d)
Loops == Quotient(Wrap(MaxTm * Second), Period)

Init ==
    /\ mode = -1
    /\ at = "poll" /\ job = -1 /\ actto = 0
    /\ left = FALSE /\ right = FALSE /\ on = TRUE
    /\ upc = [u \in Users |-> "idle"] /\ calls = 0
    /\ keeprunning = TRUE /\ speedok \in BOOLEAN
    /\ pulses = 0 /\ ended = "none" /\ afterstop = NoStop

-----------------------------------------------------------------------------

turn_motor(u, dir) ==
    /\ upc[u] = "idle"
    /\ calls < MaxCalls
    /\ calls' = calls + 1
    /\ mode' = dir
    /\ upc' = [upc EXCEPT ![u] = "wait"]
    /\ afterstop' = NoStop
    /\ UNCHANGED <<thread, ports, program, pulses, ended>>

WaitDone(u) ==
    /\ upc[u] = "wait"
    /\ mode = -1
    /\ upc' = [upc EXCEPT ![u] = "idle"]
    /\ UNCHANGED <<mode, thread, ports, calls, program, ghost>>

stop_motor(u) ==
    /\ calls < MaxCalls
    /\ calls' = calls + 1
    /\ mode' = -1
    /\ afterstop' = 0
    /\ UNCHANGED <<thread, ports, upc, program, pulses, ended>>

Stop ==
    /\ MayStop
    /\ keeprunning' = FALSE
    /\ UNCHANGED <<mode, thread, ports, users, speedok, ghost>>

-----------------------------------------------------------------------------
(* motorproc                                                                 *)

Goto(place) == at' = place

Poll ==
    /\ at = "poll"
    /\ keeprunning
    /\ mode # -1
    /\ job' = mode
    /\ left' = FALSE /\ right' = FALSE
    /\ Goto("direction")
    /\ UNCHANGED <<mode, actto, on, users, program, pulses, ended, afterstop>>

SetDirection ==
    /\ at = "direction"
    /\ IF job = 0 THEN left' = TRUE /\ UNCHANGED right
                  ELSE right' = TRUE /\ UNCHANGED left
    /\ actto' = Loops
    /\ pulses' = 0
    /\ IF speedok THEN Goto("loop") /\ UNCHANGED ended
                  ELSE Goto("off") /\ ended' = "speed"
    /\ UNCHANGED <<mode, job, on, users, program, afterstop>>

(* The user's stop condition, called before every pulse.                     *)
Condition ==
    /\ at = "loop"
    /\ ended' = "condition"
    /\ Goto("off")
    /\ UNCHANGED <<mode, job, actto, ports, users, program, pulses, afterstop>>

PulseOn ==
    /\ at = "loop"
    /\ on' = TRUE
    /\ pulses' = pulses + 1
    /\ afterstop' = IF afterstop = NoStop THEN NoStop ELSE afterstop + 1
    /\ Goto("on")
    /\ UNCHANGED <<mode, job, actto, left, right, users, program, ended>>

(* Mutant: one loop too many.                                                *)
PulseOffLate ==
    /\ at = "on"
    /\ on' = FALSE
    /\ actto' = actto - 1
    /\ IF actto' < 0 THEN Goto("off") /\ ended' = "timeout"
                     ELSE Goto("stopped") /\ UNCHANGED ended
    /\ UNCHANGED <<mode, job, left, right, users, program, pulses, afterstop>>

PulseOff ==
    /\ at = "on"
    /\ on' = FALSE
    /\ actto' = actto - 1
    /\ IF actto' <= 0 THEN Goto("off") /\ ended' = "timeout"
                      ELSE Goto("stopped") /\ UNCHANGED ended
    /\ UNCHANGED <<mode, job, left, right, users, program, pulses, afterstop>>

(* Mutant: looks for the other direction, not for the stop.                  *)
LookForTurn ==
    /\ at = "stopped"
    /\ IF mode = 1 - job THEN Goto("off") /\ ended' = "stop"
                         ELSE Goto("loop") /\ UNCHANGED ended
    /\ UNCHANGED <<mode, job, actto, ports, users, program, pulses, afterstop>>

(* Only mode -1 is looked for: a turn posted meanwhile goes unnoticed.       *)
LookForStop ==
    /\ at = "stopped"
    /\ IF mode = -1 THEN Goto("off") /\ ended' = "stop"
                    ELSE Goto("loop") /\ UNCHANGED ended
    /\ UNCHANGED <<mode, job, actto, ports, users, program, pulses, afterstop>>

SwitchOff ==
    /\ at = "off"
    /\ on' = FALSE
    /\ Goto("release")
    /\ UNCHANGED <<mode, job, actto, left, right, users, program, ghost>>

(* Mutant: the right port stays on.                                          *)
ReleaseLeft ==
    /\ at = "release"
    /\ left' = FALSE
    /\ Goto("end")
    /\ UNCHANGED <<mode, job, actto, right, on, users, program, ghost>>

Release ==
    /\ at = "release"
    /\ left' = FALSE /\ right' = FALSE
    /\ Goto("end")
    /\ UNCHANGED <<mode, job, actto, on, users, program, ghost>>

(* Mutant: the mode is not reset.                                            *)
EndJobKeepsMode ==
    /\ at = "end"
    /\ Goto("poll")
    /\ UNCHANGED <<mode, job, actto, ports, users, program, ghost>>

EndJob ==
    /\ at = "end"
    /\ mode' = -1
    /\ Goto("poll")
    /\ UNCHANGED <<job, actto, ports, users, program, ghost>>

Exit ==
    /\ at = "poll"
    /\ ~keeprunning
    /\ Goto("exit")
    /\ UNCHANGED <<mode, job, actto, ports, users, program, ghost>>

motorproc ==
    \/ Poll \/ SetDirection \/ Condition \/ PulseOn \/ PulseOff
    \/ LookForStop \/ SwitchOff \/ Release \/ EndJob \/ Exit

Next ==
    \/ motorproc
    \/ \E u \in Users : WaitDone(u) \/ \E dir \in {0, 1} : turn_motor(u, dir)
    \/ \E u \in Stoppers : stop_motor(u)
    \/ Stop

Spec == Init /\ [][Next]_vars

(* The thread runs when it can, and a waiting caller polls.                  *)
FairSpec ==
    /\ Spec
    /\ WF_vars(motorproc)
    /\ \A u \in Users : WF_vars(WaitDone(u))

-----------------------------------------------------------------------------
(* Properties                                                                *)

(* Types of the object, the thread's locals, the ports and the callers.      *)
TypeOK ==
    /\ mode \in -1 .. 1
    /\ at \in {"poll", "direction", "loop", "on", "stopped", "off", "release",
             "end", "exit"}
    /\ job \in -1 .. 1 /\ actto \in Int
    /\ left \in BOOLEAN /\ right \in BOOLEAN /\ on \in BOOLEAN
    /\ upc \in [Users -> {"idle", "wait"}] /\ calls \in Nat
    /\ keeprunning \in BOOLEAN /\ speedok \in BOOLEAN
    /\ pulses \in Nat /\ ended \in {"none", "condition", "timeout", "stop", "speed"}
    /\ afterstop \in Int

(* However turns and stops overwrite each other's mode, the bridge is never  *)
(* told both directions, only ever the one of the job, and none between      *)
(* jobs; and once a job has ended it is not enabled either.  (Before the     *)
(* first job it is: nobody has set the port yet.)                            *)
BridgeSafe ==
    /\ ~(left /\ right)
    /\ (left => job = 0) /\ (right => job = 1)
    /\ at \in {"poll", "end", "exit"} =>
          ~left /\ ~right /\ (ended = "none" \/ ~on)

(* "stop immediately": after stop_motor at most the pulse that was already   *)
(* decided on is still given, unless somebody turns the motor again.         *)
StopsWithinOnePulse == afterstop <= 1

(* A caller of turnleft_motor or turnright_motor returns, as long as the     *)
(* program runs.                                                             *)
WaitReturns ==
    \A u \in Users :
        (upc[u] = "wait" /\ keeprunning) ~> (upc[u] = "idle" \/ ~keeprunning)

(* "shut off motor after maxtm seconds" (line 82): a run never lasts longer  *)
(* than maxtm, and one that its timeout ended lasted that long; a pulse and  *)
(* a part of one are the grain.                                              *)
RunsMaxTm ==
    /\ pulses <= 1 \/ pulses * Period <= MaxTm * Second
    /\ (ended = "timeout" /\ at = "end") => (pulses + 1) * Period > MaxTm * Second
=============================================================================
