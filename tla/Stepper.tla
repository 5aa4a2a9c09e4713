------------------------------- MODULE Stepper -------------------------------
(* stepper/stepper.cpp: one stepper object, its stepperproc thread and the   *)
(* user threads that post jobs into it and may wait for them.                *)
(*                                                                           *)
(* A LOCK .. UNLOCK section is one step; an assignment the code makes        *)
(* without the mutex is a step of its own.  The thread's reads of the        *)
(* reference switch belong to the step that decides on them: only this       *)
(* thread moves the motor.  The motor itself is external: `phys` counts real *)
(* steps from the switch, which is closed at 0 and below.                    *)
EXTENDS Integers

CONSTANTS
    Users,       \* threads that call the stepper functions
    Ops,         \* the functions they call, of the ones in AllOps
    MoveSteps,   \* steps arguments of move_stepper
    CondSteps,   \* steps arguments of move_cond_stepper, -1 without limit
    Positions,   \* pos arguments of gopos_stepper
    Waits,       \* wait arguments
    Polarity,    \* polarity of the step, dir and enable ports: 0 or 1
    HasRef,      \* is there a reference switch (reference_port # -1)
    StartPos,    \* where the motor stands when the program starts
    ExtraSteps,  \* steps beyond the switch before a search (100, line 348)
    Overrun,     \* steps from the switch to the mechanical stop
    Travel,      \* where the user's stop condition is true at the latest
    MayStop,     \* can keeprunning be cleared
    MaxCalls     \* bound: calls of the users in one behaviour

AllOps == {"move", "cond", "gopos", "ref", "disable"}

ASSUME StepperAssumption ==
    /\ Ops \subseteq AllOps
    /\ MoveSteps \subseteq Int /\ CondSteps \subseteq Int /\ Positions \subseteq Nat
    /\ Waits \subseteq {0, 1}
    /\ Polarity \in {0, 1} /\ HasRef \in BOOLEAN /\ MayStop \in BOOLEAN
    /\ StartPos \in Nat /\ ExtraSteps \in Nat /\ Overrun \in Nat
    /\ Travel \in Int
    /\ MaxCalls \in Nat

VARIABLES
    (* the STEPPER object *)
    mode,        \* -1 idle, 0 move, 1 reference, 2 until condition, 3 disable
    steps,
    direction,
    actpos,
    (* stepperproc *)
    at,          \* where the thread is
    job,         \* its copy of mode
    lsteps,      \* its copy of steps, counting down; -1 without limit
    ldir,        \* its copy of direction, inverted by the polarity
    extra,       \* additional steps still to go off the switch
    (* the hardware *)
    dirport,     \* level on the direction port
    pa,          \* power amplifier enabled
    phys,        \* real position
    (* the callers *)
    upc,         \* idle, between the two sections of gopos_stepper, or waiting
    call,        \* the call each user made last: what, target, what it read;
                 \* ghosts: was there a reference run since, and was the
                 \* stepper idle then and has nobody else called since
    calls,       \* number of calls so far
    keeprunning,
    (* ghost *)
    offset       \* real position of actpos 0

object == <<mode, steps, direction, actpos>>
thread == <<at, job, lsteps, ldir, extra>>
hardware == <<dirport, pa, phys>>
users == <<upc, call, calls>>
vars == <<mode, steps, direction, actpos, at, job, lsteps, ldir, extra,
          dirport, pa, phys, upc, call, calls, keeprunning, offset>>

Call(op, pos, seen, wait) ==
    [op |-> op, pos |-> pos, seen |-> seen, wait |-> wait,
     done |-> FALSE, alone |-> mode = -1]

(* Nothing that matters any more, to have fewer states.                      *)
NoCall ==
    [op |-> "none", pos |-> 0, seen |-> 0, wait |-> 0, done |-> FALSE, alone |-> FALSE]

Init ==
    /\ mode = -1 /\ steps = 0 /\ direction = 0 /\ actpos = 0
    /\ at = "poll" /\ job = -1 /\ lsteps = 0 /\ ldir = 0 /\ extra = 0
    /\ dirport = 0 /\ pa = FALSE /\ phys = StartPos
    /\ upc = [u \in Users |-> "idle"]
    /\ call = [u \in Users |-> NoCall]
    /\ calls = 0
    /\ keeprunning = TRUE
    /\ offset = StartPos

-----------------------------------------------------------------------------
(* The callers                                                               *)

May(u, op) ==
    /\ op \in Ops
    /\ upc[u] = "idle"
    /\ calls < MaxCalls
    /\ calls' = calls + 1

Remembered(u) == IF call[u].wait = 0 THEN NoCall ELSE [call[u] EXCEPT !.seen = 0]

Called(u, c) ==
    call' = [v \in Users |-> IF v = u THEN c ELSE [call[v] EXCEPT !.alone = FALSE]]

Post(m, s, d) == mode' = m /\ steps' = s /\ direction' = d

(* wait_stepjob returns at once for wait = 0.                                *)
After(u, wait) == upc' = [upc EXCEPT ![u] = IF wait = 0 THEN "idle" ELSE "wait"]

move_stepper(u, s, d, wait) ==
    /\ May(u, "move")
    /\ Post(0, s, d)
    /\ After(u, wait)
    /\ Called(u, NoCall)
    /\ UNCHANGED <<actpos, thread, hardware, keeprunning, offset>>

move_cond_stepper(u, s, d, wait) ==
    /\ May(u, "cond")
    /\ Post(2, s, d)
    /\ After(u, wait)
    /\ Called(u, NoCall)
    /\ UNCHANGED <<actpos, thread, hardware, keeprunning, offset>>

(* gopos_stepper reads actpos in one section and posts the difference in     *)
(* another.                                                                  *)
GoposRead(u, pos, wait) ==
    /\ May(u, "gopos")
    /\ upc' = [upc EXCEPT ![u] = IF pos = actpos THEN "idle" ELSE "gopos"]
    /\ Called(u, Call("gopos", pos, actpos, wait))
    /\ UNCHANGED <<object, thread, hardware, keeprunning, offset>>

(* Mutant: the directions swapped.                                           *)
GoposPostBackwards(u) ==
    LET pos == call[u].pos
        seen == call[u].seen
    IN  /\ upc[u] = "gopos"
        /\ IF pos < seen THEN Post(0, seen - pos, 1) ELSE Post(0, pos - seen, 0)
        /\ After(u, call[u].wait)
        /\ Called(u, Remembered(u))
        /\ UNCHANGED <<actpos, thread, hardware, calls, keeprunning, offset>>

GoposPost(u) ==
    LET pos == call[u].pos
        seen == call[u].seen
    IN  /\ upc[u] = "gopos"
        /\ IF pos > seen THEN Post(0, pos - seen, 1) ELSE Post(0, seen - pos, 0)
        /\ After(u, call[u].wait)
        /\ Called(u, Remembered(u))
        /\ UNCHANGED <<actpos, thread, hardware, calls, keeprunning, offset>>

(* Sets mode without the mutex, and waits in any case.                       *)
ref_stepper(u) ==
    /\ May(u, "ref")
    /\ mode' = IF HasRef THEN 1 ELSE mode
    /\ upc' = [upc EXCEPT ![u] = "wait"]
    /\ Called(u, Call("ref", 0, 0, 1))
    /\ UNCHANGED <<steps, direction, actpos, thread, hardware, keeprunning, offset>>

disable_stepper(u) ==
    /\ May(u, "disable")
    /\ mode' = 3
    /\ Called(u, NoCall)
    /\ UNCHANGED <<steps, direction, actpos, thread, hardware, upc,
                   keeprunning, offset>>

(* The poll of wait_stepjob that finds the stepper idle.                     *)
WaitDone(u) ==
    /\ upc[u] = "wait"
    /\ mode = -1
    /\ upc' = [upc EXCEPT ![u] = "idle"]
    /\ call' = [call EXCEPT ![u] = NoCall]
    /\ UNCHANGED <<object, thread, hardware, calls, keeprunning, offset>>

(* The signal handler of kmlib/km_helper.cpp clears keeprunning.             *)
Stop ==
    /\ MayStop
    /\ keeprunning' = FALSE
    /\ UNCHANGED <<object, thread, hardware, users, offset>>

UserStep(u) ==
    \/ \E d \in {0, 1}, wait \in Waits :
          \/ \E s \in MoveSteps : move_stepper(u, s, d, wait)
          \/ \E s \in CondSteps : move_cond_stepper(u, s, d, wait)
    \/ \E pos \in Positions, wait \in Waits : GoposRead(u, pos, wait)
    \/ GoposPost(u) \/ ref_stepper(u) \/ disable_stepper(u) \/ WaitDone(u)

-----------------------------------------------------------------------------
(* The motor                                                                 *)

(* The level on the direction port that turns towards the switch is the one  *)
(* the search of mode 1 uses, lines 358 to 360.                              *)
Toward(level) == level = Polarity

(* One pulse on the step port.                                               *)
Pulse ==
    phys' = IF ~Toward(dirport) THEN phys + 1
            ELSE IF phys > -Overrun THEN phys - 1 ELSE phys

OnSwitch == phys <= 0

(* Levels of the ports                                                       *)
DirLevel(d) == IF Polarity = 1 THEN 1 - d ELSE d

-----------------------------------------------------------------------------
(* stepperproc                                                               *)

Goto(place) == at' = place

Poll ==
    /\ at = "poll"
    /\ keeprunning
    /\ mode # -1
    /\ job' = mode
    /\ Goto(CASE mode \in {0, 2} -> "fetch" [] mode = 1 -> "home"
              [] mode = 3 -> "off")
    /\ UNCHANGED <<object, lsteps, ldir, extra, hardware, users, keeprunning, offset>>

Exit ==
    /\ at = "poll"
    /\ ~keeprunning
    /\ Goto("exit")
    /\ pa' = FALSE
    /\ UNCHANGED <<object, job, lsteps, ldir, extra, dirport, phys, users,
                   keeprunning, offset>>

(* Modes 0 and 2 take their own copy of the job; mode 0 ignores one without  *)
(* steps and does not touch mode then.                                       *)
FetchNothing ==
    /\ at = "fetch" /\ job = 0 /\ steps <= 0
    /\ Goto("poll")
    /\ UNCHANGED <<object, job, lsteps, ldir, extra, hardware, users,
                   keeprunning, offset>>

Fetch ==
    /\ at = "fetch"
    /\ job = 0 => steps > 0
    /\ lsteps' = steps
    /\ ldir' = DirLevel(direction)
    /\ dirport' = DirLevel(direction)
    /\ pa' = TRUE
    /\ Goto("check")
    /\ UNCHANGED <<object, job, extra, phys, users, keeprunning, offset>>

(* Mutant: the position test one too late.                                   *)
AtLowEndLate == ldir = 0 /\ actpos < 0

(* What stops both kinds of moves at the low end.                            *)
AtLowEnd == ldir = 0 /\ (actpos <= 0 \/ (HasRef /\ OnSwitch))

(* Mode 0 only looks for a reference job, mode 2 for any other mode.         *)
Interrupted == IF job = 0 THEN mode = 1 ELSE mode # 2

(* The user's condition callback of mode 2 may answer anything, short of     *)
(* Travel.                                                                   *)
StopMove ==
    /\ at = "check"
    /\ \/ lsteps = 0 \/ Interrupted \/ AtLowEnd
       \/ job = 2
    /\ Goto("end")
    /\ UNCHANGED <<object, job, lsteps, ldir, extra, hardware, users,
                   keeprunning, offset>>

Step ==
    /\ at = "check"
    /\ lsteps # 0 /\ ~Interrupted /\ ~AtLowEnd
    /\ job = 2 => actpos < Travel
    /\ lsteps' = IF lsteps = -1 THEN -1 ELSE lsteps - 1
    /\ Pulse
    /\ Goto("count")
    /\ UNCHANGED <<object, job, ldir, extra, dirport, pa, users, keeprunning, offset>>

(* Mutant: the sign of the direction swapped.                                *)
CountBackwards ==
    /\ at = "count"
    /\ actpos' = IF ldir = 1 THEN actpos - 1 ELSE actpos + 1
    /\ Goto("check")
    /\ UNCHANGED <<mode, steps, direction, job, lsteps, ldir, extra, hardware,
                   users, keeprunning, offset>>

Count ==
    /\ at = "count"
    /\ actpos' = IF ldir = 1 THEN actpos + 1 ELSE actpos - 1
    /\ Goto("check")
    /\ UNCHANGED <<mode, steps, direction, job, lsteps, ldir, extra, hardware,
                   users, keeprunning, offset>>

(* Mutant: only a job still posted as a move is ended.                       *)
EndMoveIfMove ==
    /\ at = "end"
    /\ mode' = IF mode = 0 THEN -1 ELSE mode
    /\ Goto("poll")
    /\ UNCHANGED <<steps, direction, actpos, job, lsteps, ldir, extra, hardware,
                   users, keeprunning, offset>>

(* Whatever mode is by now becomes -1: without the mutex after mode 0, with  *)
(* it after mode 2.                                                          *)
EndMove ==
    /\ at = "end"
    /\ mode' = -1
    /\ Goto("poll")
    /\ UNCHANGED <<steps, direction, actpos, job, lsteps, ldir, extra, hardware,
                   users, keeprunning, offset>>

(* Mode 1: off the switch if it is closed, some steps further, and back.     *)
HomeStart ==
    /\ at = "home"
    /\ pa' = TRUE
    /\ dirport' = IF OnSwitch THEN 1 ELSE Polarity
    /\ Goto(IF OnSwitch THEN "away" ELSE "search")
    /\ UNCHANGED <<object, job, lsteps, ldir, extra, phys, users, keeprunning, offset>>

Away ==
    /\ at = "away"
    /\ Pulse
    /\ IF phys' <= 0 THEN UNCHANGED <<at, extra>>
                     ELSE Goto("further") /\ extra' = ExtraSteps
    /\ UNCHANGED <<object, job, lsteps, ldir, dirport, pa, users, keeprunning, offset>>

Further ==
    /\ at = "further"
    /\ IF extra > 0
         THEN Pulse /\ extra' = extra - 1 /\ UNCHANGED <<at, dirport>>
         ELSE Goto("search") /\ dirport' = Polarity /\ UNCHANGED <<phys, extra>>
    /\ UNCHANGED <<object, job, lsteps, ldir, pa, users, keeprunning, offset>>

Search ==
    /\ at = "search"
    /\ IF OnSwitch THEN Goto("found") /\ UNCHANGED phys
                   ELSE Pulse /\ UNCHANGED at
    /\ UNCHANGED <<object, job, lsteps, ldir, extra, dirport, pa, users,
                   keeprunning, offset>>

Found ==
    /\ at = "found"
    /\ actpos' = 0
    /\ mode' = -1
    /\ Goto("poll")
    /\ offset' = 0
    /\ call' = [u \in Users |-> [call[u] EXCEPT !.done = (call[u].op = "ref")]]
    /\ UNCHANGED <<steps, direction, job, lsteps, ldir, extra, hardware, upc,
                   calls, keeprunning>>

DisablePA ==
    /\ at = "off"
    /\ pa' = FALSE
    /\ Goto("off_end")
    /\ UNCHANGED <<object, job, lsteps, ldir, extra, dirport, phys, users,
                   keeprunning, offset>>

EndDisable ==
    /\ at = "off_end"
    /\ mode' = -1
    /\ Goto("poll")
    /\ UNCHANGED <<steps, direction, actpos, job, lsteps, ldir, extra, hardware,
                   users, keeprunning, offset>>

stepperproc ==
    \/ Poll \/ Exit \/ FetchNothing \/ Fetch
    \/ StopMove \/ Step \/ Count \/ EndMove
    \/ HomeStart \/ Away \/ Further \/ Search \/ Found
    \/ DisablePA \/ EndDisable

Next == stepperproc \/ Stop \/ \E u \in Users : UserStep(u)

Spec == Init /\ [][Next]_vars

(* The thread runs whenever it can and a user inside a call goes on; nobody  *)
(* is obliged to call.                                                       *)
FairSpec ==
    /\ Spec
    /\ WF_vars(stepperproc)
    /\ \A u \in Users : WF_vars(GoposPost(u)) /\ WF_vars(WaitDone(u))

-----------------------------------------------------------------------------
(* Properties                                                                *)

Places == {"poll", "exit", "fetch", "check", "count", "end",
           "home", "away", "further", "search", "found", "off", "off_end"}
Homing == at \in {"home", "away", "further", "search", "found"}

CallRecords == [op : {"none", "gopos", "ref"}, pos : Nat, seen : Int,
                wait : {0, 1}, done : BOOLEAN, alone : BOOLEAN]

(* Types of the object, the thread's locals, the hardware and the callers.   *)
TypeOK ==
    /\ mode \in -1 .. 3 /\ steps \in Int /\ direction \in {0, 1} /\ actpos \in Int
    /\ at \in Places /\ job \in -1 .. 3
    /\ lsteps \in Int /\ ldir \in {0, 1} /\ extra \in Nat
    /\ dirport \in {0, 1} /\ pa \in BOOLEAN /\ phys \in Int
    /\ upc \in [Users -> {"idle", "gopos", "wait"}]
    /\ call \in [Users -> CallRecords]
    /\ calls \in Nat /\ keeprunning \in BOOLEAN /\ offset \in Nat

(* actpos and the motor stay in step: whatever jobs are posted, replaced or  *)
(* dropped while it moves, the real position is the counted one, shifted by  *)
(* where counting began, except for the pulse not counted yet and during a   *)
(* search.                                                                   *)
Uncounted == IF at = "count" THEN (IF ldir = 1 THEN 1 ELSE -1) ELSE 0
PositionTracks == ~Homing => phys = offset + actpos + Uncounted

(* No job drives the motor past the reference switch (the checks of lines    *)
(* 292 to 299, 421 to 429 and 364).                                          *)
NotPastSwitch == phys >= 0

(* wait_stepjob: a waiting caller returns, as long as the program runs.       *)
WaitReturns ==
    \A u \in Users :
        (upc[u] = "wait" /\ keeprunning) ~> (upc[u] = "idle" \/ ~keeprunning)

(* A job is done when its caller returns, if it was posted to an idle stepper *)
(* and nobody else called since: after gopos_stepper the stepper is where it  *)
(* was sent, and after ref_stepper it has been referenced.                    *)
AloneIsDone ==
    [][\A u \in Users : (WaitDone(u) /\ call[u].alone) =>
         /\ call[u].op = "gopos" => actpos = call[u].pos
         /\ (call[u].op = "ref" /\ HasRef) => call[u].done]_vars

(* "1=wait until position is reached" (line 181): when gopos_stepper has     *)
(* waited, the stepper is where it was sent.                                 *)
GoposReached ==
    [][\A u \in Users :
         (WaitDone(u) /\ call[u].op = "gopos") => actpos = call[u].pos]_vars
=============================================================================
