--------------------------- MODULE StepperProofs ---------------------------
(* Proofs about Stepper: types, and for motors with source polarity that the *)
(* counted position is the real one and the switch is respected, for any     *)
(* number of users and every sequence of jobs.                               *)
EXTENDS Stepper, TLAPS

-----------------------------------------------------------------------------
(* Types                                                                     *)

LEMMA LevelType == \A d \in {0, 1} : DirLevel(d) \in {0, 1}
  BY DEF DirLevel

LEMMA NoCallType == NoCall \in CallRecords
  BY DEF NoCall, CallRecords

(* A call changes only the records of the calls.                             *)
LEMMA CalledType ==
    ASSUME call \in [Users -> CallRecords], NEW u \in Users,
           NEW c \in CallRecords, Called(u, c)
    PROVE  call' \in [Users -> CallRecords]
<1>1. \A v \in Users : [call[v] EXCEPT !.alone = FALSE] \in CallRecords
  BY DEF CallRecords
<1> QED
  BY <1>1 DEF Called

LEMMA InitTypes == Init => TypeOK
<1> SUFFICES ASSUME Init PROVE TypeOK
  OBVIOUS
<1> USE DEF Init
<1>1. /\ mode \in -1 .. 3 /\ steps \in Int /\ direction \in {0, 1} /\ actpos \in Int
      /\ job \in -1 .. 3 /\ lsteps \in Int /\ ldir \in {0, 1} /\ extra \in Nat
      /\ dirport \in {0, 1} /\ phys \in Int /\ calls \in Nat /\ offset \in Nat
  BY StepperAssumption
<1>2. at \in Places /\ upc \in [Users -> {"idle", "gopos", "wait"}]
  BY DEF Places
<1>3. pa \in BOOLEAN /\ keeprunning \in BOOLEAN
  OBVIOUS
<1>4. call \in [Users -> CallRecords]
  BY NoCallType
<1> QED
  BY <1>1, <1>2, <1>3, <1>4 DEF TypeOK

LEMMA ThreadTypes == TypeOK /\ stepperproc => TypeOK'
<1> SUFFICES ASSUME TypeOK, stepperproc PROVE TypeOK'
  OBVIOUS
<1> USE DEF TypeOK, Goto, object, hardware, users
<1>p. Pulse => phys' \in Int
  BY DEF Pulse
<1>1. CASE Poll
  BY <1>1 DEF Poll, Places
<1>2. CASE Exit
  BY <1>2 DEF Exit, Places
<1>3. CASE FetchNothing
  BY <1>3 DEF FetchNothing, Places
<1>4. CASE Fetch
  BY <1>4, LevelType DEF Fetch, Places
<1>5. CASE StopMove
  BY <1>5 DEF StopMove, Places
<1>6. CASE Step
  BY <1>6, <1>p DEF Step, Places
<1>7. CASE Count
  BY <1>7 DEF Count, Places
<1>8. CASE EndMove
  BY <1>8 DEF EndMove, Places
<1>9. CASE HomeStart
  BY <1>9, StepperAssumption DEF HomeStart, Places
<1>10. CASE Away
  BY <1>10, <1>p, StepperAssumption DEF Away, Places
<1>11. CASE Further
  <2>1. extra' \in Nat
    BY <1>11 DEF Further
  <2>2. dirport' \in {0, 1} /\ at' \in Places /\ phys' \in Int
    BY <1>11, <1>p, StepperAssumption DEF Further, Places
  <2> QED
    BY <1>11, <2>1, <2>2 DEF Further
<1>12. CASE Search
  BY <1>12, <1>p DEF Search, Places
<1>13. CASE Found
  <2>1. \A v \in Users : [call[v] EXCEPT !.done = (call[v].op = "ref")] \in CallRecords
    BY DEF CallRecords
  <2>2. call' \in [Users -> CallRecords]
    BY <1>13, <2>1 DEF Found
  <2> QED
    BY <1>13, <2>2 DEF Found, Places
<1>14. CASE DisablePA
  BY <1>14 DEF DisablePA, Places
<1>15. CASE EndDisable
  BY <1>15 DEF EndDisable, Places
<1> QED
  BY <1>1, <1>2, <1>3, <1>4, <1>5, <1>6, <1>7, <1>8, <1>9, <1>10, <1>11,
     <1>12, <1>13, <1>14, <1>15 DEF stepperproc

LEMMA NextTypes == TypeOK /\ [Next]_vars => TypeOK'
<1> SUFFICES ASSUME TypeOK, [Next]_vars PROVE TypeOK'
  OBVIOUS
<1>1. CASE UNCHANGED vars
  BY <1>1 DEF vars, TypeOK
<1>2. CASE Next
  <2> USE DEF TypeOK, May, Post, After, thread, hardware
  <2>1. stepperproc => TypeOK'
    BY ThreadTypes
  <2>2. Stop => TypeOK'
    BY DEF Stop, object, users
  <2>3. ASSUME NEW u \in Users, NEW d \in {0, 1}, NEW wait \in Waits,
               NEW s \in MoveSteps, move_stepper(u, s, d, wait)
        PROVE  TypeOK'
    <3>2. call' \in [Users -> CallRecords]
      BY <2>3, NoCallType, CalledType DEF move_stepper
    <3>3. /\ mode' \in -1 .. 3 /\ steps' \in Int /\ direction' \in {0, 1} /\ calls' \in Nat
      BY <2>3, StepperAssumption DEF move_stepper
    <3> QED
      BY <2>3, <3>2, <3>3 DEF move_stepper
  <2>4. ASSUME NEW u \in Users, NEW d \in {0, 1}, NEW wait \in Waits,
               NEW s \in CondSteps, move_cond_stepper(u, s, d, wait)
        PROVE  TypeOK'
    <3>2. call' \in [Users -> CallRecords]
      BY <2>4, NoCallType, CalledType DEF move_cond_stepper
    <3>3. /\ mode' \in -1 .. 3 /\ steps' \in Int /\ direction' \in {0, 1} /\ calls' \in Nat
      BY <2>4, StepperAssumption DEF move_cond_stepper
    <3> QED
      BY <2>4, <3>2, <3>3 DEF move_cond_stepper
  <2>5. ASSUME NEW u \in Users, NEW pos \in Positions, NEW wait \in Waits,
               GoposRead(u, pos, wait)
        PROVE  TypeOK'
    <3>1. Call("gopos", pos, actpos, wait) \in CallRecords
      BY StepperAssumption DEF Call, CallRecords
    <3>2. call' \in [Users -> CallRecords]
      BY <2>5, <3>1, CalledType DEF GoposRead
    <3>3. /\ calls' \in Nat /\ upc' \in [Users -> {"idle", "gopos", "wait"}]
          /\ UNCHANGED <<object, thread, hardware, keeprunning, offset>>
      BY <2>5 DEF GoposRead
    <3> QED
      BY <3>2, <3>3 DEF object
  <2>6. ASSUME NEW u \in Users, GoposPost(u) PROVE TypeOK'
    <3>1. call[u].pos \in Nat /\ call[u].seen \in Int
      BY DEF CallRecords
    <3>2. mode' \in -1 .. 3 /\ steps' \in Int /\ direction' \in {0, 1}
      BY <2>6, <3>1 DEF GoposPost
    <3>3. [call[u] EXCEPT !.seen = 0] \in CallRecords
      BY DEF CallRecords
    <3>4. Remembered(u) \in CallRecords
      BY <3>3, NoCallType DEF Remembered
    <3>5. call' \in [Users -> CallRecords]
      BY <2>6, <3>4, CalledType DEF GoposPost
    <3> QED
      BY <2>6, <3>2, <3>5 DEF GoposPost
  <2>7. ASSUME NEW u \in Users, ref_stepper(u) PROVE TypeOK'
    <3>1. Call("ref", 0, 0, 1) \in CallRecords
      BY DEF Call, CallRecords
    <3>2. call' \in [Users -> CallRecords]
      BY <2>7, <3>1, CalledType DEF ref_stepper
    <3>3. /\ mode' \in -1 .. 3 /\ calls' \in Nat
          /\ upc' \in [Users -> {"idle", "gopos", "wait"}]
          /\ UNCHANGED <<steps, direction, actpos, thread, hardware, keeprunning, offset>>
      BY <2>7 DEF ref_stepper
    <3> QED
      BY <3>2, <3>3
  <2>8. ASSUME NEW u \in Users, disable_stepper(u) PROVE TypeOK'
    <3>2. call' \in [Users -> CallRecords]
      BY <2>8, NoCallType, CalledType DEF disable_stepper
    <3> QED
      BY <2>8, <3>2 DEF disable_stepper
  <2>9. ASSUME NEW u \in Users, WaitDone(u) PROVE TypeOK'
    BY <2>9, NoCallType DEF WaitDone, object
  <2> HIDE DEF TypeOK
  <2> QED
    BY <1>2, <2>1, <2>2, <2>3, <2>4, <2>5, <2>6, <2>7, <2>8, <2>9 DEF Next, UserStep
<1> QED
  BY <1>1, <1>2

(* Every variable of the object, its thread, the hardware and the callers    *)
(* keeps its type, whatever jobs overwrite each other.                       *)
THEOREM TypeCorrect == Spec => []TypeOK
  BY InitTypes, NextTypes, PTL DEF Spec

-----------------------------------------------------------------------------
(* Position and switch                                                       *)

(* Where the thread is tells the level on the direction port, and the search *)
(* ends on the switch.                                                       *)
PosInv ==
    /\ at \in {"check", "count"} => dirport = ldir
    /\ at \in {"away", "further"} => dirport = 1
    /\ at = "search" => dirport = 0
    /\ at = "found" => phys <= 0
    /\ NotPastSwitch
    /\ PositionTracks

(* A job drives the motor down only above the switch, and above the counted  *)
(* zero where there is none.                                                 *)
LEMMA DownIsSafe ==
    TypeOK /\ PosInv /\ at = "check" /\ ~AtLowEnd /\ ldir = 0 => phys > 0
<1> SUFFICES ASSUME TypeOK, PosInv, at = "check", ~AtLowEnd, ldir = 0
             PROVE  phys > 0
  OBVIOUS
<1>1. phys \in Int /\ actpos \in Int /\ offset \in Nat
  BY DEF TypeOK
<1>2. actpos > 0
  BY <1>1 DEF AtLowEnd
<1>3. phys = offset + actpos
  BY <1>1 DEF PosInv, PositionTracks, Homing, Uncounted
<1> QED
  BY <1>1, <1>2, <1>3

LEMMA InitPos == Init => PosInv
  BY StepperAssumption
     DEF Init, PosInv, NotPastSwitch, PositionTracks, Homing, Uncounted

LEMMA ThreadPos ==
    ASSUME Polarity = 0
    PROVE  TypeOK /\ PosInv /\ stepperproc => PosInv'
<1> SUFFICES ASSUME TypeOK, PosInv, stepperproc PROVE PosInv'
  OBVIOUS
<1>t. /\ phys \in Int /\ actpos \in Int /\ offset \in Nat /\ extra \in Nat
      /\ ldir \in {0, 1} /\ dirport \in {0, 1} /\ Overrun \in Nat
  BY StepperAssumption DEF TypeOK
<1>up. dirport = 1 /\ Pulse => phys' = phys + 1
  BY DEF Pulse, Toward
<1>down. dirport = 0 /\ phys > 0 /\ Pulse => phys' = phys - 1
  BY <1>t DEF Pulse, Toward
<1> USE <1>t DEF PosInv, NotPastSwitch, PositionTracks, Homing, Uncounted, Goto,
                 object, hardware, users
<1>1. CASE Poll
  <2>1. at' \in {"fetch", "home", "off"}
    BY <1>1 DEF Poll, TypeOK
  <2> QED
    BY <1>1, <2>1 DEF Poll
<1>2. CASE Exit
  BY <1>2 DEF Exit
<1>3. CASE FetchNothing
  BY <1>3 DEF FetchNothing
<1>4. CASE Fetch
  BY <1>4 DEF Fetch
<1>5. CASE StopMove
  BY <1>5 DEF StopMove
<1>6. CASE Step
  <2>1. CASE ldir = 1
    BY <1>6, <1>up, <2>1 DEF Step
  <2>2. CASE ldir = 0
    <3>1. phys > 0
      BY <1>6, <2>2, DownIsSafe DEF Step
    <3> QED
      BY <1>6, <1>down, <2>2, <3>1 DEF Step
  <2> QED
    BY <2>1, <2>2
<1>7. CASE Count
  BY <1>7 DEF Count
<1>8. CASE EndMove
  BY <1>8 DEF EndMove
<1>9. CASE HomeStart
  BY <1>9 DEF HomeStart, OnSwitch
<1>10. CASE Away
  BY <1>10, <1>up DEF Away
<1>11. CASE Further
  BY <1>11, <1>up DEF Further
<1>12. CASE Search
  BY <1>12, <1>down DEF Search, OnSwitch
<1>13. CASE Found
  BY <1>13 DEF Found
<1>14. CASE DisablePA
  BY <1>14 DEF DisablePA
<1>15. CASE EndDisable
  BY <1>15 DEF EndDisable
<1> QED
  BY <1>1, <1>2, <1>3, <1>4, <1>5, <1>6, <1>7, <1>8, <1>9, <1>10, <1>11,
     <1>12, <1>13, <1>14, <1>15 DEF stepperproc

(* The callers touch nothing that PosInv speaks of.                          *)
LEMMA OthersPos == PosInv /\ [Next]_vars /\ ~stepperproc => PosInv'
<1> SUFFICES ASSUME PosInv, [Next]_vars, ~stepperproc PROVE PosInv'
  OBVIOUS
<1> DEFINE seen == <<at, ldir, dirport, phys, offset, actpos>>
<1>1. CASE UNCHANGED vars
  BY <1>1 DEF vars, PosInv, NotPastSwitch, PositionTracks, Homing, Uncounted
<1>2. CASE Next
  <2> USE DEF thread, hardware, Post
  <2>1. Stop => UNCHANGED seen
    BY DEF Stop, object
  <2>2. \A u \in Users, d \in {0, 1}, wait \in Waits, s \in MoveSteps :
           move_stepper(u, s, d, wait) => UNCHANGED seen
    BY DEF move_stepper
  <2>3. \A u \in Users, d \in {0, 1}, wait \in Waits, s \in CondSteps :
           move_cond_stepper(u, s, d, wait) => UNCHANGED seen
    BY DEF move_cond_stepper
  <2>4. \A u \in Users, pos \in Positions, wait \in Waits :
           GoposRead(u, pos, wait) => UNCHANGED seen
    BY DEF GoposRead, object
  <2>5. \A u \in Users : GoposPost(u) => UNCHANGED seen
    BY DEF GoposPost
  <2>6. \A u \in Users : ref_stepper(u) \/ disable_stepper(u) => UNCHANGED seen
    BY DEF ref_stepper, disable_stepper
  <2>7. \A u \in Users : WaitDone(u) => UNCHANGED seen
    BY DEF WaitDone, object
  <2>8. UNCHANGED seen
    <3> HIDE DEF seen
    <3> QED
      BY <1>2, <2>1, <2>2, <2>3, <2>4, <2>5, <2>6, <2>7 DEF Next, UserStep
  <2> QED
    BY <2>8 DEF PosInv, NotPastSwitch, PositionTracks, Homing, Uncounted
<1> QED
  BY <1>1, <1>2

LEMMA PosCorrect ==
    ASSUME Polarity = 0
    PROVE  Spec => [](TypeOK /\ PosInv)
<1>1. TypeOK /\ PosInv /\ [Next]_vars => PosInv'
  BY ThreadPos, OthersPos
<1> QED
  BY <1>1, InitTypes, NextTypes, InitPos, PTL DEF Spec

(* With source polarity the counted position is the real one, whatever jobs  *)
(* are posted, replaced or dropped while the motor moves.                    *)
THEOREM PositionCorrect ==
    ASSUME Polarity = 0
    PROVE  Spec => []PositionTracks
<1>1. TypeOK /\ PosInv => PositionTracks
  BY DEF PosInv
<1> QED
  BY <1>1, PosCorrect, PTL

(* With source polarity no job drives the motor past the switch.             *)
THEOREM SwitchRespected ==
    ASSUME Polarity = 0
    PROVE  Spec => []NotPastSwitch
<1>1. TypeOK /\ PosInv => NotPastSwitch
  BY DEF PosInv
<1> QED
  BY <1>1, PosCorrect, PTL
-----------------------------------------------------------------------------
(* Jobs that nobody disturbs                                                 *)

(* A gopos job posted to an idle stepper: where it is, and what is missing.  *)
GoposUnderWay(u) ==
    \/ /\ mode = 0 /\ at \in {"poll", "exit", "fetch"} /\ (at = "fetch" => job = 0)
       /\ steps > 0
       /\ call[u].pos = IF direction = 1 THEN actpos + steps ELSE actpos - steps
    \/ /\ mode = 0 /\ at \in {"check", "count"} /\ job = 0 /\ lsteps >= 0
       /\ call[u].pos = actpos + Uncounted + (IF ldir = 1 THEN lsteps ELSE -lsteps)
    \/ mode = 0 /\ at = "end" /\ actpos = call[u].pos
    \/ mode = -1 /\ actpos = call[u].pos

RefUnderWay == mode = 1 /\ (at \in {"poll", "exit"} \/ Homing)

IdleInv == mode = -1 => at \in {"poll", "exit"}

Undisturbed(u) ==
    call[u].alone =>
        /\ upc[u] = "gopos" =>
              /\ mode = -1 /\ call[u].op = "gopos"
              /\ actpos = call[u].seen /\ call[u].pos # call[u].seen
        /\ upc[u] = "wait" /\ call[u].op = "gopos" => GoposUnderWay(u)
        /\ upc[u] = "wait" /\ call[u].op = "ref" /\ HasRef => call[u].done \/ RefUnderWay

AloneInv == IdleInv /\ \A u \in Users : Undisturbed(u)

LEMMA InitAlone == Init => AloneInv
BY DEF Init, AloneInv, IdleInv, Undisturbed, NoCall

(* A call takes the attribute from every other one.                          *)
LEMMA CalledAlone ==
    ASSUME TypeOK, NEW u \in Users, NEW c, Called(u, c)
    PROVE  call'[u] = c /\ \A v \in Users \ {u} : ~call'[v].alone
<1>1. \A v \in Users : call[v] \in CallRecords
  BY DEF TypeOK
<1>2. \A v \in Users : ~[call[v] EXCEPT !.alone = FALSE].alone
  BY <1>1 DEF CallRecords
<1> QED
  BY <1>2 DEF Called

(* Steps of the thread that leave the records of the calls alone.            *)
LEMMA ThreadAlone ==
    ASSUME Polarity = 0, TypeOK, PosInv, AloneInv, stepperproc, ~Found
    PROVE  AloneInv'
<1> USE DEF Goto, object, hardware, users
<1>t. /\ mode \in -1 .. 3 /\ steps \in Int /\ direction \in {0, 1} /\ actpos \in Int
      /\ job \in -1 .. 3 /\ lsteps \in Int /\ ldir \in {0, 1}
      /\ phys \in Int /\ offset \in Nat /\ \A u \in Users : call[u].pos \in Nat
  BY DEF TypeOK, CallRecords
<1>i. mode = -1 => at \in {"poll", "exit"}
  BY DEF AloneInv, IdleInv
<1>1. UNCHANGED <<call, upc>>
  BY DEF stepperproc, Poll, Exit, FetchNothing, Fetch, StopMove, Step, Count, EndMove,
         HomeStart, Away, Further, Search, DisablePA, EndDisable
<1>2. IdleInv'
  BY <1>i DEF IdleInv, stepperproc, Poll, Exit, FetchNothing, Fetch, StopMove, Step, Count,
              EndMove, HomeStart, Away, Further, Search, DisablePA, EndDisable, Found
<1>3. ASSUME NEW u \in Users, Undisturbed(u) PROVE Undisturbed(u)'
  <2>1. CASE ~call[u].alone \/ upc[u] = "idle"
    BY <1>1, <2>1 DEF Undisturbed
  <2>2. CASE call[u].alone /\ upc[u] = "gopos"
    <3>1. /\ mode = -1 /\ at \in {"poll", "exit"} /\ call[u].op = "gopos"
          /\ actpos = call[u].seen /\ call[u].pos # call[u].seen
      BY <1>3, <1>i, <2>2 DEF Undisturbed
    <3>2. UNCHANGED <<mode, actpos>>
      BY <3>1 DEF stepperproc, Poll, Exit, FetchNothing, Fetch, StopMove, Step, Count, EndMove,
         HomeStart, Away, Further, Search, DisablePA, EndDisable, Found
    <3> QED
      BY <1>1, <2>2, <3>1, <3>2 DEF Undisturbed
  <2>3. CASE call[u].alone /\ upc[u] = "wait" /\ call[u].op = "gopos"
    <3>1. GoposUnderWay(u)
      BY <1>3, <2>3 DEF Undisturbed
    <3>2. GoposUnderWay(u)'
      <4>1. CASE /\ mode = 0 /\ at \in {"poll", "exit", "fetch"} /\ (at = "fetch" => job = 0)
                 /\ steps > 0
                 /\ call[u].pos = IF direction = 1 THEN actpos + steps ELSE actpos - steps
        <5>1. Poll \/ Exit \/ Fetch
          BY <1>t, <4>1 DEF stepperproc, Poll, Exit, FetchNothing, Fetch, StopMove, Step, Count,
             EndMove, HomeStart, Away, Further, Search, DisablePA, EndDisable, Found
        <5>2. CASE Poll
          BY <1>1, <4>1, <5>2 DEF Poll, GoposUnderWay
        <5>3. CASE Exit
          BY <1>1, <4>1, <5>3 DEF Exit, GoposUnderWay
        <5>4. CASE Fetch
          BY <1>1, <1>t, <4>1, <5>4 DEF Fetch, GoposUnderWay, DirLevel, Uncounted
        <5> QED
          BY <5>1, <5>2, <5>3, <5>4
      <4>2. CASE /\ mode = 0 /\ at \in {"check", "count"} /\ job = 0 /\ lsteps >= 0
                 /\ call[u].pos = actpos + Uncounted + (IF ldir = 1 THEN lsteps ELSE -lsteps)
        <5>1. StopMove \/ Step \/ Count
          BY <4>2 DEF stepperproc, Poll, Exit, FetchNothing, Fetch, StopMove, Step, Count,
             EndMove, HomeStart, Away, Further, Search, DisablePA, EndDisable, Found
        <5>2. CASE StopMove
          <6>1. lsteps = 0 \/ AtLowEnd
            BY <4>2, <5>2 DEF StopMove, Interrupted
          <6>2. phys = offset + actpos
            BY <1>t, <5>2 DEF StopMove, PosInv, PositionTracks, Homing, Uncounted
          <6>3. lsteps = 0
            BY <1>t, <4>2, <5>2, <6>1, <6>2 DEF StopMove, AtLowEnd, OnSwitch, Uncounted
          <6>4. actpos = call[u].pos
            BY <1>t, <4>2, <5>2, <6>3 DEF StopMove, Uncounted
          <6> QED
            BY <1>1, <4>2, <5>2, <6>4 DEF StopMove, GoposUnderWay
        <5>3. CASE Step
          BY <1>1, <1>t, <4>2, <5>3 DEF Step, GoposUnderWay, Uncounted
        <5>4. CASE Count
          BY <1>1, <1>t, <4>2, <5>4 DEF Count, GoposUnderWay, Uncounted
        <5> QED
          BY <5>1, <5>2, <5>3, <5>4
      <4>3. CASE mode = 0 /\ at = "end" /\ actpos = call[u].pos
        <5>1. EndMove
          BY <4>3 DEF stepperproc, Poll, Exit, FetchNothing, Fetch, StopMove, Step, Count,
             EndMove, HomeStart, Away, Further, Search, DisablePA, EndDisable, Found
        <5> QED
          BY <1>1, <4>3, <5>1 DEF EndMove, GoposUnderWay
      <4>4. CASE mode = -1 /\ actpos = call[u].pos
        <5>1. UNCHANGED <<mode, actpos>>
          BY <1>i, <4>4 DEF stepperproc, Poll, Exit, FetchNothing, Fetch, StopMove, Step, Count,
             EndMove, HomeStart, Away, Further, Search, DisablePA, EndDisable, Found
        <5> QED
          BY <1>1, <4>4, <5>1 DEF GoposUnderWay
      <4> QED
        BY <3>1, <4>1, <4>2, <4>3, <4>4 DEF GoposUnderWay
    <3> QED
      BY <1>1, <2>3, <3>2 DEF Undisturbed
  <2>4. CASE call[u].alone /\ upc[u] = "wait" /\ call[u].op # "gopos"
    <3>1. RefUnderWay => RefUnderWay'
      BY DEF RefUnderWay, Homing, stepperproc, Poll, Exit, FetchNothing, Fetch, StopMove, Step,
             Count, EndMove, HomeStart, Away, Further, Search, DisablePA, EndDisable, Found
    <3> QED
      BY <1>1, <1>3, <2>4, <3>1 DEF Undisturbed
  <2> QED
    BY <2>1, <2>2, <2>3, <2>4 DEF TypeOK
<1> QED
  BY <1>2, <1>3 DEF AloneInv

(* The end of a search fulfils every reference job that waits.               *)
LEMMA FoundAlone ==
    ASSUME TypeOK, AloneInv, Found PROVE AloneInv'
<1>1. /\ at = "found" /\ at' = "poll" /\ mode' = -1 /\ UNCHANGED upc
      /\ call' = [u \in Users |-> [call[u] EXCEPT !.done = (call[u].op = "ref")]]
  BY DEF Found, Goto
<1>2. mode # -1
  BY <1>1 DEF AloneInv, IdleInv
<1>3. ASSUME NEW u \in Users PROVE Undisturbed(u)'
  <2>1. /\ call'[u].alone = call[u].alone /\ call'[u].op = call[u].op
        /\ call'[u].done = (call[u].op = "ref")
    BY <1>1 DEF TypeOK, CallRecords
  <2>2. Undisturbed(u)
    BY DEF AloneInv
  <2>3. call[u].alone => upc[u] # "gopos" /\ ~(upc[u] = "wait" /\ call[u].op = "gopos")
    BY <1>1, <1>2, <2>2 DEF Undisturbed, GoposUnderWay
  <2> QED
    BY <1>1, <2>1, <2>3 DEF Undisturbed
<1>4. IdleInv'
  BY <1>1 DEF IdleInv
<1> QED
  BY <1>3, <1>4 DEF AloneInv

LEMMA UserAlone ==
    ASSUME TypeOK, AloneInv, NEW u \in Users, UserStep(u)
    PROVE  AloneInv'
<1> USE DEF May, Post, After, object, thread, hardware
<1>i. IdleInv /\ \A v \in Users : Undisturbed(v)
  BY DEF AloneInv
<1>t. /\ upc \in [Users -> {"idle", "gopos", "wait"}] /\ mode \in -1 .. 3
      /\ \A v \in Users : call[v] \in CallRecords
      /\ steps \in Int /\ actpos \in Int
  BY DEF TypeOK
<1>o. ASSUME ~call'[u].alone, \A v \in Users \ {u} : ~call'[v].alone
      PROVE  \A v \in Users : Undisturbed(v)'
  BY <1>o DEF Undisturbed
<1>n. ~NoCall.alone
  BY DEF NoCall
<1>1. ASSUME NEW s, NEW d, NEW wait,
             move_stepper(u, s, d, wait) \/ move_cond_stepper(u, s, d, wait)
      PROVE  AloneInv'
  <2>1. mode' # -1 /\ Called(u, NoCall)
    BY <1>1 DEF move_stepper, move_cond_stepper
  <2> QED
    BY <1>n, <1>o, <2>1, CalledAlone DEF AloneInv, IdleInv
<1>2. CASE disable_stepper(u)
  <2>1. mode' # -1 /\ Called(u, NoCall)
    BY <1>2 DEF disable_stepper
  <2> QED
    BY <1>n, <1>o, <2>1, CalledAlone DEF AloneInv, IdleInv
<1>3. ASSUME NEW pos \in Positions, NEW wait \in Waits, GoposRead(u, pos, wait) PROVE AloneInv'
  <2>1. /\ UNCHANGED <<mode, at, actpos>>
        /\ upc' = [upc EXCEPT ![u] = IF pos = actpos THEN "idle" ELSE "gopos"]
        /\ Called(u, Call("gopos", pos, actpos, wait))
    BY <1>3 DEF GoposRead
  <2>2. call'[u] = Call("gopos", pos, actpos, wait) /\ \A v \in Users \ {u} : ~call'[v].alone
    BY <2>1, CalledAlone
  <2>3. Undisturbed(u)'
    <3>1. /\ upc'[u] # "wait" /\ (upc'[u] = "gopos" => pos # actpos)
      BY <1>t, <2>1
    <3>2. call'[u].op = "gopos" /\ call'[u].pos = pos /\ call'[u].seen = actpos
      BY <2>2 DEF Call
    <3>3. call'[u].alone = (mode = -1)
      BY <2>2 DEF Call
    <3> QED
      BY <2>1, <3>1, <3>2, <3>3 DEF Undisturbed
  <2> QED
    BY <1>i, <2>1, <2>2, <2>3 DEF AloneInv, IdleInv, Undisturbed
<1>4. CASE GoposPost(u)
  <2>1. /\ upc[u] = "gopos" /\ mode' = 0 /\ UNCHANGED <<at, actpos, job>>
        /\ upc' = [upc EXCEPT ![u] = IF call[u].wait = 0 THEN "idle" ELSE "wait"]
        /\ Called(u, Remembered(u))
        /\ IF call[u].pos > call[u].seen
              THEN steps' = call[u].pos - call[u].seen /\ direction' = 1
              ELSE steps' = call[u].seen - call[u].pos /\ direction' = 0
    BY <1>4 DEF GoposPost
  <2>2. call'[u] = Remembered(u) /\ \A v \in Users \ {u} : ~call'[v].alone
    BY <2>1, CalledAlone
  <2>3. ASSUME call'[u].alone PROVE Undisturbed(u)'
    <3>1. /\ call[u].wait # 0 /\ call'[u] = [call[u] EXCEPT !.seen = 0]
      BY <1>n, <2>2, <2>3 DEF Remembered
    <3>2. call[u].alone /\ call'[u].pos = call[u].pos /\ call'[u].op = call[u].op
      BY <1>t, <2>3, <3>1 DEF CallRecords
    <3>3. /\ mode = -1 /\ call[u].op = "gopos"
          /\ actpos = call[u].seen /\ call[u].pos # call[u].seen
      BY <1>i, <2>1, <3>2 DEF Undisturbed
    <3>4. at \in {"poll", "exit"}
      BY <1>i, <3>3 DEF IdleInv
    <3>5. call[u].pos \in Int /\ call[u].seen \in Int
      BY <1>t DEF CallRecords
    <3>6. GoposUnderWay(u)'
      BY <1>t, <2>1, <3>2, <3>3, <3>4, <3>5 DEF GoposUnderWay
    <3> QED
      BY <1>t, <2>1, <3>1, <3>2, <3>3, <3>6 DEF Undisturbed
  <2>4. IdleInv'
    BY <2>1 DEF IdleInv
  <2> QED
    BY <2>2, <2>3, <2>4 DEF AloneInv, Undisturbed
<1>5. CASE ref_stepper(u)
  <2>1. /\ mode' = IF HasRef THEN 1 ELSE mode
        /\ UNCHANGED at
        /\ upc' = [upc EXCEPT ![u] = "wait"]
        /\ Called(u, Call("ref", 0, 0, 1))
    BY <1>5 DEF ref_stepper
  <2>2. call'[u] = Call("ref", 0, 0, 1) /\ \A v \in Users \ {u} : ~call'[v].alone
    BY <2>1, CalledAlone
  <2>3. /\ call'[u].alone = (mode = -1) /\ call'[u].op = "ref"
    BY <2>2 DEF Call
  <2>4. Undisturbed(u)'
    BY <1>i, <1>t, <2>1, <2>3 DEF Undisturbed, IdleInv, RefUnderWay
  <2>5. IdleInv'
    BY <1>i, <2>1 DEF IdleInv
  <2> QED
    BY <2>2, <2>4, <2>5 DEF AloneInv, Undisturbed
<1>6. CASE WaitDone(u)
  <2>1. /\ UNCHANGED <<mode, steps, direction, actpos, at, job, lsteps, ldir>>
        /\ call' = [call EXCEPT ![u] = NoCall] /\ upc' = [upc EXCEPT ![u] = "idle"]
    BY <1>6 DEF WaitDone
  <2>2. ~call'[u].alone
    BY <1>n, <2>1 DEF TypeOK
  <2>3. ASSUME NEW v \in Users \ {u} PROVE Undisturbed(v)'
    <3>1. call'[v] = call[v] /\ upc'[v] = upc[v] /\ Undisturbed(v)
      BY <1>i, <1>t, <2>1 DEF TypeOK
    <3> QED
      BY <2>1, <3>1 DEF Undisturbed, GoposUnderWay, RefUnderWay, Homing, Uncounted
  <2>4. IdleInv'
    BY <1>i, <2>1 DEF IdleInv
  <2> QED
    BY <2>2, <2>3, <2>4 DEF AloneInv, Undisturbed
<1> QED
  BY <1>1, <1>2, <1>3, <1>4, <1>5, <1>6 DEF UserStep

LEMMA NextAlone ==
    ASSUME Polarity = 0
    PROVE  TypeOK /\ PosInv /\ AloneInv /\ [Next]_vars => AloneInv'
<1> SUFFICES ASSUME TypeOK, PosInv, AloneInv, [Next]_vars PROVE AloneInv'
  OBVIOUS
<1>1. ASSUME UNCHANGED <<mode, steps, direction, actpos, at, job, lsteps, ldir, upc, call>>
      PROVE  AloneInv'
  BY <1>1 DEF AloneInv, IdleInv, Undisturbed, GoposUnderWay, RefUnderWay, Homing, Uncounted
<1>2. CASE stepperproc
  BY <1>2, ThreadAlone, FoundAlone
<1>3. CASE Stop
  BY <1>1, <1>3 DEF Stop, object, thread, users
<1>4. CASE UNCHANGED vars
  BY <1>1, <1>4 DEF vars
<1> QED
  BY <1>2, <1>3, <1>4, UserAlone DEF Next

(* With source polarity a job posted to an idle stepper, with no other call  *)
(* in between, is done when its caller's wait returns, for any number of     *)
(* users, any position and with the program's end at any moment.             *)
THEOREM AloneJobDone ==
    ASSUME Polarity = 0
    PROVE  Spec => AloneIsDone
<1> DEFINE Done == \A u \in Users : (WaitDone(u) /\ call[u].alone) =>
                     /\ call[u].op = "gopos" => actpos = call[u].pos
                     /\ (call[u].op = "ref" /\ HasRef) => call[u].done
<1>1. Spec => [](TypeOK /\ PosInv)
  BY PosCorrect
<1>2. TypeOK /\ PosInv /\ AloneInv /\ [Next]_vars => AloneInv'
  BY NextAlone
<1>3. AloneInv => Done
  BY DEF AloneInv, Undisturbed, WaitDone, GoposUnderWay, RefUnderWay
<1> QED
  BY <1>1, <1>2, <1>3, InitAlone, PTL DEF Spec, AloneIsDone
=============================================================================
