------------------------------- MODULE Timers -------------------------------
(* kmlib/kmtimer.cpp: the table of repeating timers.  Each expiry makes the  *)
(* system call sighler in a new thread, so that calls overlap, come late and *)
(* also come after stop_timer.                                               *)
EXTENDS Integers, Sequences

CONSTANTS
    Users,           \* threads that start and stop timers
    Functions,       \* functions they pass
    MAXTIMERS,       \* slots of the table (20)
    MaxStarts,       \* bound: calls of start_timer
    MaxPending       \* bound: expiries of a timer whose thread has not run yet

(* The table is not checked against its size, and a slot is never used again,*)
(* so that only the first MAXTIMERS calls of a program are modelled.         *)
ASSUME TimersAssumption ==
    /\ MAXTIMERS \in Nat \ {0} /\ MaxStarts \in 0 .. MAXTIMERS
    /\ MaxPending \in Nat \ {0}

VARIABLES
    handler, timerid,   \* timers[]: the user's function, the system's timer
    timernum,
    at, r,              \* of each user: place in start_timer, number to return
    system,             \* the system's timers: slot, armed, pending; ghost: wanted
    handles,            \* numbers returned by start_timer and not stopped yet
    starts,
    called              \* ghost: <<timer, function>> of the calls made

table == <<handler, timerid, timernum>>
timervars == <<table, at, r, system, handles, starts, called>>

Entries == 0 .. MAXTIMERS - 1
NoFunction == "none"

InitTimers ==
    /\ handler = [s \in Entries |-> NoFunction] /\ timerid = [s \in Entries |-> 0]
    /\ timernum = 0
    /\ at = [u \in Users |-> "idle"] /\ r = [u \in Users |-> 0]
    /\ system = <<>> /\ handles = {} /\ starts = 0 /\ called = {}

-----------------------------------------------------------------------------
Goto(u, place) == at' = [at EXCEPT ![u] = place]

start_timer(u) ==
    /\ at[u] = "idle" /\ starts < MaxStarts
    /\ starts' = starts + 1
    /\ \E f \in Functions : handler' = [handler EXCEPT ![timernum] = f]
    /\ Goto(u, "create")
    /\ UNCHANGED <<timerid, timernum, r, system, handles, called>>

Create(u) ==
    /\ at[u] = "create"
    /\ system' = Append(system, [slot |-> timernum, armed |-> FALSE, pending |-> 0,
                                 wanted |-> handler[timernum]])
    /\ timerid' = [timerid EXCEPT ![timernum] = Len(system')]
    /\ Goto(u, "settime")
    /\ UNCHANGED <<handler, timernum, r, handles, starts, called>>

CreateFails(u) ==
    /\ at[u] = "create"
    /\ Goto(u, "idle")
    /\ UNCHANGED <<table, r, system, handles, starts, called>>

SetTime(u) ==
    /\ at[u] = "settime"
    /\ system' = [system EXCEPT ![timerid[timernum]].armed = TRUE]
    /\ Goto(u, "number")
    /\ UNCHANGED <<table, r, handles, starts, called>>

(* The timer stays, unarmed, and the next one takes its slot.                *)
SetTimeFails(u) ==
    /\ at[u] = "settime"
    /\ Goto(u, "idle")
    /\ UNCHANGED <<table, r, system, handles, starts, called>>

Number(u) ==
    /\ at[u] = "number"
    /\ r' = [r EXCEPT ![u] = timernum]
    /\ Goto(u, "return")
    /\ UNCHANGED <<table, system, handles, starts, called>>

ReturnNumber(u, number) ==
    /\ at[u] = "return"
    /\ timernum' = timernum + 1
    /\ handles' = handles \cup {number}
    /\ Goto(u, "idle")
    /\ UNCHANGED <<handler, timerid, r, system, starts, called>>

(* Mutant: the number of the next timer is returned.                         *)
ReturnNext(u) == ReturnNumber(u, r[u] + 1)

Return(u) == ReturnNumber(u, r[u])

(* Mutant: the slot of the timer started last is used again.                 *)
stop_timer_reuse(u, h) ==
    /\ at[u] = "idle" /\ h \in handles
    /\ system' = [system EXCEPT ![timerid[h]].armed = FALSE]
    /\ timernum' = IF h = timernum - 1 THEN h ELSE timernum
    /\ handles' = handles \ {h}
    /\ UNCHANGED <<handler, timerid, at, r, starts, called>>

stop_timer(u, h) ==
    /\ at[u] = "idle" /\ h \in handles
    /\ system' = [system EXCEPT ![timerid[h]].armed = FALSE]
    /\ handles' = handles \ {h}
    /\ UNCHANGED <<table, at, r, starts, called>>

-----------------------------------------------------------------------------
(* The system, and the threads it makes                                      *)

Armed(k) == k \in DOMAIN system /\ system[k].armed

Expire(k) ==
    /\ Armed(k) /\ system[k].pending < MaxPending
    /\ system' = [system EXCEPT ![k].pending = @ + 1]
    /\ UNCHANGED <<table, at, r, handles, starts, called>>

sighler(k) ==
    /\ system[k].pending > 0
    /\ system' = [system EXCEPT ![k].pending = @ - 1]
    /\ called' = called \cup {<<k, handler[system[k].slot]>>}
    /\ UNCHANGED <<table, at, r, handles, starts>>

NextTimers ==
    \/ \E u \in Users :
          \/ start_timer(u) \/ Create(u) \/ CreateFails(u)
          \/ SetTime(u) \/ SetTimeFails(u) \/ Number(u) \/ Return(u)
          \/ \E h \in handles : stop_timer(u, h)
    \/ \E k \in DOMAIN system : Expire(k) \/ sighler(k)

SpecTimers == InitTimers /\ [][NextTimers]_timervars

-----------------------------------------------------------------------------
(* Properties                                                                *)

(* Types of the table, the users and the system's timers.                    *)
TimersTypeOK ==
    /\ handler \in [Entries -> Functions \cup {NoFunction}]
    /\ timerid \in [Entries -> 0 .. MaxStarts] /\ timernum \in 0 .. MaxStarts
    /\ at \in [Users -> {"idle", "create", "settime", "number", "return"}]
    /\ r \in [Users -> 0 .. MaxStarts]
    /\ system \in Seq([slot : Entries, armed : BOOLEAN, pending : 0 .. MaxPending,
                       wanted : Functions \cup {NoFunction}])
    /\ handles \subseteq Entries /\ starts \in 0 .. MaxStarts
    /\ called \subseteq (DOMAIN system) \X (Functions \cup {NoFunction})

(* Every call is of the function its timer was started with, however late:   *)
(* while start_timer has not returned, after stop_timer, after other starts  *)
(* that failed half way (kmtimer.cpp 61, 66).                                *)
CallsItsFunction == \A c \in called : c[2] = system[c[1]].wanted

(* A timer that runs can be stopped: its number was returned, or is about to *)
(* be, and leads back to it; and a number not stopped is that of a timer     *)
(* that runs.                                                                *)
RunsIffHeld ==
    \A k \in DOMAIN system :
        system[k].armed <=>
            \/ \E h \in handles : timerid[h] = k
            \/ \E u \in Users : at[u] \in {"number", "return"} /\ timerid[timernum] = k
=============================================================================
