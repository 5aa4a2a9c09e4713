---------------------------- MODULE TouchButtons ----------------------------
(* touch/xpt2046_rpi.cpp and touch/touch_button.cpp: touchproc turns events  *)
(* of the panel into samples and writes them into a fifo; tbutproc reads the *)
(* samples and calls the buttons under them; the application draws buttons   *)
(* and changes menus meanwhile.  The fifo is what BoundedQueue promises,     *)
(* which KmFifo implements.                                                  *)
EXTENDS Integers, Sequences

CONSTANTS
    Points,          \* places on the panel
    Buttons,         \* the table: [area, menu, callback], 1 .. MAXTOUCHBUTTONS
    Capacity,        \* samples the fifo holds (create_fifo(50): 49)
    MaxTouches,      \* bound: touches
    MaxChanges       \* bound: changes by the application

ASSUME TouchAssumption ==
    /\ Buttons \in Seq([area : SUBSET Points, menu : Nat, callback : BOOLEAN])
    /\ Capacity \in Nat \ {0} /\ MaxTouches \in Nat /\ MaxChanges \in Nat

VARIABLES
    q, ret,          \* the fifo
    raw, pending,    \* touchproc: last position, has it moved since the last sample
    panel,           \* touchproc: "run" or "exit"
    at, tp, i, butanz, lastbutton,   \* tbutproc
    touchbutanz, active, menu,       \* the table, and getActMenu()
    keeprunning, changes,
    (* ghost *)
    touches, calls,  \* number of touches; <<touch, button>> of each callback
    last             \* lastbutton before this sample

fifo == <<q, ret>>
panelvars == <<raw, pending, panel, touches>>
thread == <<at, tp, i, butanz, lastbutton, calls, last>>
app == <<touchbutanz, active, menu, changes, keeprunning>>
vars == <<fifo, panelvars, thread, app>>

NoButton == 0

(* A sample: the point; ghosts: the touch (0 if nobody touched), and the     *)
(* number of changes made by the application when it was taken.              *)
Sample(p, k) == [point |-> p, touch |-> k, seen |-> changes]
Samples == [point : Points, touch : 0 .. MaxTouches, seen : 0 .. MaxChanges]
NoSample == [point |-> CHOOSE p \in Points : TRUE, touch |-> 0, seen |-> 0]

Fifo == INSTANCE BoundedQueue
    WITH Clients <- {"panel", "buttons"}, Elems <- Samples, Nothing <- NoSample

(* rawX and rawY are not initialised.                                        *)
Init ==
    /\ Fifo!Init
    /\ raw \in Points /\ pending = FALSE /\ panel = "run"
    /\ at = "outer" /\ tp = NoSample /\ i = 1 /\ butanz = 0 /\ lastbutton = NoButton
    /\ touchbutanz = 0 /\ active = [b \in DOMAIN Buttons |-> FALSE] /\ menu = 1
    /\ keeprunning = TRUE /\ changes = 0
    /\ touches = 0 /\ calls = <<>> /\ last = NoButton

-----------------------------------------------------------------------------
(* touchproc.  A touch may move; it is a sample when 100 ms pass without an  *)
(* event, at the point where it was last.                                    *)

Event ==
    /\ panel = "run" /\ keeprunning
    /\ \E p \in Points : raw' = p
    /\ pending' = TRUE
    /\ \/ ~pending /\ touches < MaxTouches /\ touches' = touches + 1
       \/ pending /\ raw' # raw /\ UNCHANGED touches
    /\ UNCHANGED <<fifo, panel, thread, app>>

WriteSample(k) == Fifo!Put("panel", Sample(raw, k)) \/ Fifo!Ignore("panel")

(* getTouchSample also returns, without any event, when the program ends.    *)
TakeSample ==
    /\ panel = "run"
    /\ pending \/ ~keeprunning
    /\ WriteSample(IF pending THEN touches ELSE 0)
    /\ pending' = FALSE
    /\ panel' = IF keeprunning THEN "run" ELSE "exit"
    /\ UNCHANGED <<raw, touches, thread, app>>

touchproc == TakeSample

-----------------------------------------------------------------------------
(* tbutproc                                                                  *)

Outer ==
    /\ at = "outer"
    /\ at' = IF keeprunning THEN "read" ELSE "exit"
    /\ UNCHANGED <<fifo, panelvars, tp, i, butanz, lastbutton, calls, last, app>>

touch_read ==
    /\ at = "read"
    /\ \/ /\ Fifo!Get("buttons")
          /\ tp' = ret'["buttons"].val
          /\ at' = "look" /\ i' = 1 /\ butanz' = touchbutanz /\ last' = lastbutton
       \/ /\ Fifo!GetNone("buttons")
          /\ at' = "outer" /\ UNCHANGED <<tp, i, butanz, last>>
    /\ UNCHANGED <<panelvars, lastbutton, calls, app>>

Hit(b, m) == tp.point \in Buttons[b].area /\ Buttons[b].menu = m

(* Mutant: every touch calls, also of the button that was called last ...    *)
LookTwice ==
    /\ at = "look"
    /\ IF i > butanz THEN at' = "read" /\ UNCHANGED <<i, lastbutton, calls>>
       ELSE /\ i' \in {i, i + 1} /\ UNCHANGED <<at, lastbutton>>
            /\ calls' = IF Hit(i, menu) THEN Append(calls, <<tp.touch, i>>) ELSE calls
    /\ UNCHANGED <<fifo, panelvars, tp, butanz, last, app>>

(* Mutant: only a button further on than the last one is called.           *)
LookOnlyNext ==
    /\ at = "look"
    /\ IF i > butanz
       THEN at' = "read" /\ UNCHANGED <<i, lastbutton, calls>>
       ELSE /\ i' = i + 1 /\ UNCHANGED at
            /\ lastbutton' = IF Hit(i, menu) THEN i ELSE lastbutton
            /\ calls' = IF Hit(i, menu) /\ i > lastbutton /\ active[i] /\ Buttons[i].callback
                        THEN Append(calls, <<tp.touch, i>>) ELSE calls
    /\ UNCHANGED <<fifo, panelvars, tp, butanz, last, app>>

(* One button of the table: lastbutton changes also if it is not called.     *)
Look ==
    /\ at = "look"
    /\ IF i > butanz
       THEN at' = "read" /\ UNCHANGED <<i, lastbutton, calls>>
       ELSE /\ i' = i + 1 /\ UNCHANGED at
            /\ lastbutton' = IF Hit(i, menu) THEN i ELSE lastbutton
            /\ calls' = IF Hit(i, menu) /\ i # lastbutton /\ active[i] /\ Buttons[i].callback
                        THEN Append(calls, <<tp.touch, i>>) ELSE calls
    /\ UNCHANGED <<fifo, panelvars, tp, butanz, last, app>>

tbutproc == Outer \/ touch_read \/ Look

-----------------------------------------------------------------------------
(* The application, in any thread, also in a callback                        *)

Change ==
    /\ changes < MaxChanges /\ changes' = changes + 1
    /\ UNCHANGED <<fifo, panelvars, thread, keeprunning>>

create_touchbutton ==
    /\ touchbutanz < Len(Buttons) /\ touchbutanz' = touchbutanz + 1
    /\ Change /\ UNCHANGED <<active, menu>>

draw_button ==
    /\ \E b \in 1 .. touchbutanz : active' = [active EXCEPT ![b] = TRUE]
    /\ Change /\ UNCHANGED <<touchbutanz, menu>>

deactivate_allbuttons ==
    /\ active' = [b \in DOMAIN Buttons |-> b > touchbutanz /\ active[b]]
    /\ Change /\ UNCHANGED <<touchbutanz, menu>>

SwitchMenu ==
    /\ \E m \in {Buttons[b].menu : b \in DOMAIN Buttons} : m # menu /\ menu' = m
    /\ Change /\ UNCHANGED <<touchbutanz, active>>

Stop ==
    /\ keeprunning' = FALSE
    /\ UNCHANGED <<fifo, panelvars, thread, touchbutanz, active, menu, changes>>

Next ==
    \/ Event \/ touchproc \/ tbutproc
    \/ create_touchbutton \/ draw_button \/ deactivate_allbuttons \/ SwitchMenu \/ Stop

Spec == Init /\ [][Next]_vars

(* Both threads poll; a finger does not stay on the panel for ever.          *)
FairSpec == Spec /\ WF_vars(touchproc) /\ WF_vars(tbutproc)

-----------------------------------------------------------------------------
(* Properties                                                                *)

(* Types of the fifo, the threads' locals, the table and the ghosts.         *)
TypeOK ==
    /\ q \in Seq(Samples)
    /\ ret \in [{"panel", "buttons"} ->
                 [kind : {"init", "stored", "ignored", "data", "none"}, val : Samples]]
    /\ raw \in Points /\ pending \in BOOLEAN /\ panel \in {"run", "exit"}
    /\ at \in {"outer", "read", "look", "exit"} /\ tp \in Samples
    /\ i \in 1 .. Len(Buttons) + 1 /\ butanz \in 0 .. Len(Buttons)
    /\ lastbutton \in {NoButton} \cup DOMAIN Buttons /\ last \in {NoButton} \cup DOMAIN Buttons
    /\ touchbutanz \in 0 .. Len(Buttons) /\ active \in [DOMAIN Buttons -> BOOLEAN]
    /\ keeprunning \in BOOLEAN /\ changes \in 0 .. MaxChanges /\ touches \in 0 .. MaxTouches
    /\ calls \in Seq((0 .. MaxTouches) \X DOMAIN Buttons)

(* Callbacks come in the order of the touches, a touch calls a button at     *)
(* most once, and while the program runs nothing but a touch calls one.      *)
AnsweredInOrder ==
    /\ \A n \in 1 .. Len(calls) - 1 :
          \/ calls[n][1] < calls[n + 1][1]
          \/ calls[n][1] = calls[n + 1][1] /\ calls[n][2] < calls[n + 1][2]
          \/ calls[n + 1][1] = 0
    /\ \A n \in DOMAIN calls : calls[n][1] # 0 \/ ~keeprunning

(* If a button was to be seen when the sample on it was taken, and still is, *)
(* the touch is answered, unless the touch before was of one of the same buttons.*)
OnlyRepeatsIgnored ==
    LET hit == {b \in 1 .. touchbutanz : Hit(b, menu) /\ active[b] /\ Buttons[b].callback}
    IN  at = "look" /\ i > butanz /\ tp.seen = changes /\ hit # {} =>
            \/ last \in hit
            \/ \E n \in DOMAIN calls : calls[n][1] = tp.touch
=============================================================================
